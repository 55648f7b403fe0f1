--------------------------- MODULE AsyncSemaphore ---------------------------
(* asyncio.Semaphore of Python 3.12, which the code uses but does not contain: *)
(* a counter, a deque of waiters, and those in the deque whose future has been *)
(* given a slot.  A waiter that was told to cancel is passed over until its    *)
(* task has run and left the deque.                                            *)
EXTENDS Integers, Sequences, FiniteSets

VARIABLE
    signals     \* whose cancel() calls have yet to reach each task

Pending(sem) ==
    {s \in {sem.queue[i] : i \in DOMAIN sem.queue} \ sem.granted : signals[s] = {}}

\* The first n of the pending waiters.
FirstPending(sem, n) ==
    {sem.queue[i] : i \in
        {j \in DOMAIN sem.queue :
            /\ sem.queue[j] \in Pending(sem)
            /\ Cardinality({k \in 1..j : sem.queue[k] \in Pending(sem)}) =< n}}

\* Mutant of Wake: nobody is woken.
BugNoWake(sem, n) == sem

Wake(sem, n) ==
    [sem EXCEPT !.free = @ - Cardinality(FirstPending(sem, n)),
                !.granted = @ \cup FirstPending(sem, n)]

\* Mutant of Locked: who finds a slot takes it, though others are in line.
BugLocked(sem) == sem.free = 0

Locked(sem) ==
    \/ sem.free = 0
    \/ \E i \in DOMAIN sem.queue :
          sem.queue[i] \in sem.granted \/ signals[sem.queue[i]] = {}

Take(sem) == [sem EXCEPT !.free = @ - 1]

LineUp(sem, s) == [sem EXCEPT !.queue = Append(@, s)]

Release(sem) == Wake([sem EXCEPT !.free = @ + 1], 1)

OutOfLine(sem, s) ==
    LET i == CHOOSE j \in DOMAIN sem.queue : sem.queue[j] = s
    IN  [sem EXCEPT !.queue = SubSeq(@, 1, i - 1) \o SubSeq(@, i + 1, Len(@)),
                    !.granted = @ \ {s}]

\* acquire() ends with a slot; free ones are passed on, by releases of Python
\* 3.12 to one waiter or to as many as there are slots.
Acquired(sem, s) ==
    LET left == OutOfLine(sem, s) IN
    {Wake(left, n) : n \in {IF left.free = 0 THEN 0 ELSE 1, left.free}}

\* Mutant of GivenUp: a slot handed over in the same moment is lost.
BugTimeoutLosesSlot(sem, s) == {OutOfLine(sem, s)}

\* acquire() ends with CancelledError; a slot it was handed goes back.
GivenUp(sem, s) ==
    LET out  == OutOfLine(sem, s)
        left == IF s \in sem.granted THEN [out EXCEPT !.free = @ + 1] ELSE out
    IN  {Wake(left, n) : n \in {IF s \in sem.granted THEN 1 ELSE 0, left.free}}

\* Those granted a slot resume in the order of the deque.
FirstGranted(sem, s) ==
    \E i \in DOMAIN sem.queue :
        /\ sem.queue[i] = s
        /\ s \in sem.granted
        /\ \A j \in 1..(i - 1) : sem.queue[j] \notin sem.granted

\* Every one of n slots is free, handed over or held, never by more than there
\* are, and in line stand those that wait, once each.
AllAccounted(sem, holders, waiters, n) ==
    /\ sem.free >= 0
    /\ sem.free + Cardinality(sem.granted) + Cardinality(holders) = n
    /\ {sem.queue[i] : i \in DOMAIN sem.queue} = waiters
    /\ Len(sem.queue) = Cardinality(waiters)
=============================================================================
