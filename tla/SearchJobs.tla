----------------------------- MODULE SearchJobs -----------------------------
(***************************************************************************)
(* Background search jobs: AsyncSearchJobService (services/search_jobs.py) *)
(* together with the InMemorySearchJobStore it owns                        *)
(* (repositories/search_job_store.py), on one asyncio event loop.          *)
(*                                                                         *)
(* Granularity.  An action is what one task does between two suspension    *)
(* points.  Neither the store's lock nor the service's lifecycle lock is   *)
(* ever held across an await that suspends, so a store call, submit and    *)
(* the first half of aclose are each a single step.                        *)
(*                                                                         *)
(* Identifiers.  The factory draws uuid4 values, which do not repeat; the  *)
(* model names each by its rank in the order of creation, so that the      *)
(* order of the store's OrderedDict is the order of the numbers (a         *)
(* transition reassigns a key in place and does not move it).              *)
(***************************************************************************)
EXTENDS Integers, Sequences, FiniteSets

CONSTANTS
    MaxJobs,        \* bound: identifiers issued in one behaviour
    MaxEntries,     \* InMemorySearchJobStore._max_entries
    MaxConcurrent,  \* initial value of the service's semaphore
    Ttl,            \* InMemorySearchJobStore._ttl_seconds
    Horizon         \* bound: last reading of the monotonic clock

ASSUME ConstantsAssumption ==
    /\ MaxJobs \in Nat
    /\ MaxEntries \in Nat \ {0}
    /\ MaxConcurrent \in Nat \ {0}
    /\ Ttl \in Nat \ {0}
    /\ Horizon \in Nat

JobIds == 1..MaxJobs

VARIABLES
    jobs,       \* InMemorySearchJobStore._jobs: identifier -> record
    issued,     \* number of identifiers for which a record was created
    task,       \* where the task of each job is suspended
    cancelled,  \* tasks on which cancel() was called
    waiters,    \* asyncio.Semaphore._waiters, oldest first
    free,       \* asyncio.Semaphore._value
    lifecycle,  \* _closed, and whether aclose has returned
    now         \* the monotonic clock

vars == <<jobs, issued, task, cancelled, waiters, free, lifecycle, now>>

ActiveStatuses   == {"queued", "running"}
TerminalStatuses == {"completed", "failed"}
FailureCodes     == {"adapter_unavailable", "search_failed", "search_cancelled"}

JobRecord ==
    [status : ActiveStatuses \cup TerminalStatuses,
     result : {"none", "offers"},
     error  : {"none"} \cup FailureCodes,
     expires : Nat]

\* "created": scheduled, the coroutine has not run its first step;
\* "waiting": in the semaphore's deque, its future pending or cancelled;
\* "granted": handed a slot, not resumed yet;
\* "searching": inside orchestrator.search, holding a slot;
\* "ended": returned or raised;
\* "unstarted": cancelled before its first step, so _run never executed.
Stages == {"none", "created", "waiting", "granted", "searching", "ended", "unstarted"}

LiveStages == {"created", "waiting", "granted", "searching"}

TypeOK ==
    /\ DOMAIN jobs \subseteq JobIds
    /\ \A id \in DOMAIN jobs : jobs[id] \in JobRecord
    /\ issued \in 0..MaxJobs
    /\ task \in [JobIds -> Stages]
    /\ cancelled \subseteq JobIds
    /\ waiters \in Seq(JobIds)
    /\ free \in Nat
    /\ lifecycle \in {"open", "closing", "closed"}
    /\ now \in 0..Horizon

-----------------------------------------------------------------------------
(* The store.  Every operation first purges the expired terminal records. *)

Put(store, id, record) ==
    [other \in DOMAIN store \cup {id} |->
        IF other = id THEN record ELSE store[other]]

Without(store, ids) == [id \in DOMAIN store \ ids |-> store[id]]

IsTerminal(record) == record.status \in TerminalStatuses

Expired(record) == IsTerminal(record) /\ record.expires =< now

\* Mutant of Purged: the time to live also drops active records.
BugPurgeActive ==
    Without(jobs, {id \in DOMAIN jobs : jobs[id].expires =< now})

\* _purge_expired
Purged == Without(jobs, {id \in DOMAIN jobs : Expired(jobs[id])})

Record(status, result, error) ==
    [status |-> status, result |-> result, error |-> error, expires |-> now + Ttl]

\* _transition: no effect beyond the purge unless the record is there and in
\* one of the states allowedFrom.
Transition(id, allowedFrom, record) ==
    IF id \in DOMAIN Purged /\ Purged[id].status \in allowedFrom
    THEN Put(Purged, id, record)
    ELSE Purged

MarkRunning(id)      == Transition(id, {"queued"}, Record("running", "none", "none"))
MarkCompleted(id)    == Transition(id, {"running"}, Record("completed", "offers", "none"))
MarkFailed(id, code) == Transition(id, ActiveStatuses, Record("failed", "none", code))

\* Mutant of OldestTerminal: the oldest record of any status is evicted.
BugEvictActive(store) ==
    {id \in DOMAIN store : \A other \in DOMAIN store : id =< other}

OldestTerminal(store) ==
    {id \in DOMAIN store :
        /\ IsTerminal(store[id])
        /\ \A other \in DOMAIN store : IsTerminal(store[other]) => id =< other}

\* Mutant of HasRoom: off by one.
BugRoomForOneMore(store) == Cardinality(DOMAIN store) =< MaxEntries

HasRoom(store) == Cardinality(DOMAIN store) < MaxEntries

\* Mutant of Create: any terminal record is evicted, not the oldest.
BugEvictAnyTerminal(id) ==
    LET new == Record("queued", "none", "none") IN
    IF HasRoom(Purged)
    THEN jobs' = Put(Purged, id, new)
    ELSE \E victim \in {other \in DOMAIN Purged : IsTerminal(Purged[other])} :
            jobs' = Put(Without(Purged, {victim}), id, new)

\* create: room, or the oldest terminal record makes room.
Create(id) ==
    LET new == Record("queued", "none", "none") IN
    \/ /\ HasRoom(Purged)
       /\ jobs' = Put(Purged, id, new)
    \/ /\ ~HasRoom(Purged)
       /\ \E victim \in OldestTerminal(Purged) :
             jobs' = Put(Without(Purged, {victim}), id, new)

-----------------------------------------------------------------------------
(* asyncio.Semaphore (Python 3.12), which the service enters with          *)
(* "async with": first come, first served.                                 *)

PendingWaiter(id) == task[id] = "waiting" /\ id \notin cancelled

PendingWaiters == {id \in JobIds : PendingWaiter(id)}

\* No pending waiter outside ids is ahead of one in ids.
FirstInLine(ids) ==
    \A j \in DOMAIN waiters : waiters[j] \in ids =>
        \A i \in 1..(j - 1) : waiters[i] \in PendingWaiters => waiters[i] \in ids

\* With value slots to give away, hand slots to the first pending waiters, at
\* most limit of them; stage is what the caller makes of task.
HandOver(stage, value, limit) ==
    \E next \in SUBSET PendingWaiters :
        /\ FirstInLine(next)
        /\ Cardinality(next) =< limit
        /\ next # PendingWaiters => Cardinality(next) = limit
        /\ free' = value - Cardinality(next)
        /\ task' = [id \in JobIds |-> IF id \in next THEN "granted" ELSE stage[id]]

\* Mutant of Locked: the semaphore before Python 3.11 did not look at the deque.
BugBarging == free = 0

\* Mutant of Locked: the slot is taken without looking.
BugUnlocked == FALSE

\* locked(): no slot is left, or someone whose future is not cancelled is
\* ahead in the deque.
Locked ==
    \/ free = 0
    \/ \E i \in DOMAIN waiters :
          ~(task[waiters[i]] = "waiting" /\ waiters[i] \in cancelled)

\* Mutant of Release: the counter goes up and nobody is woken.
BugSilentRelease(stage) == HandOver(stage, free + 1, 0)

\* release(): the first pending waiter gets the slot, else the counter.
Release(stage) == HandOver(stage, free + 1, 1)

\* Mutant of WakeOthers: a resumed waiter leaves free slots alone.
BugNoWakeUp(stage, value) == HandOver(stage, value, 0)

\* The end of acquire() by a waiter: slots that came free while arrivals had
\* to line up behind it.  Releases of Python 3.12 differ in whether it wakes
\* one waiter or as many as there are slots.
WakeOthers(stage, value) ==
    \E limit \in {IF value = 0 THEN 0 ELSE 1, value} : HandOver(stage, value, limit)

LeaveQueue(id) ==
    \E i \in DOMAIN waiters :
        /\ waiters[i] = id
        /\ waiters' = SubSeq(waiters, 1, i - 1) \o SubSeq(waiters, i + 1, Len(waiters))

-----------------------------------------------------------------------------
Init ==
    /\ jobs = [id \in {} |-> Record("queued", "none", "none")]
    /\ issued = 0
    /\ task = [id \in JobIds |-> "none"]
    /\ cancelled = {}
    /\ waiters = <<>>
    /\ free = MaxConcurrent
    /\ lifecycle = "open"
    /\ now = 0

\* Mutant of Submit: _closed is not looked at.
BugSubmitWhenClosed ==
    /\ issued < MaxJobs
    /\ Create(issued + 1)
    /\ issued' = issued + 1
    /\ task' = [task EXCEPT ![issued + 1] = "created"]
    /\ UNCHANGED <<cancelled, waiters, free, lifecycle, now>>

\* submit: a record, then a task for it.
Submit ==
    /\ lifecycle = "open"
    /\ issued < MaxJobs
    /\ Create(issued + 1)
    /\ issued' = issued + 1
    /\ task' = [task EXCEPT ![issued + 1] = "created"]
    /\ UNCHANGED <<cancelled, waiters, free, lifecycle, now>>

\* submit with every kept record active: SearchJobCapacityError, HTTP 503.
SubmitRefused ==
    /\ lifecycle = "open"
    /\ ~HasRoom(Purged)
    /\ OldestTerminal(Purged) = {}
    /\ jobs' = Purged
    /\ UNCHANGED <<issued, task, cancelled, waiters, free, lifecycle, now>>

\* Mutant of Poll: reading a settled record renews its time to live.
BugPollExtends ==
    /\ \E id \in DOMAIN Purged :
          jobs' = Put(Purged, id, [Purged[id] EXCEPT !.expires = now + Ttl])
    /\ UNCHANGED <<issued, task, cancelled, waiters, free, lifecycle, now>>

\* get_status: reading purges, and extends nothing.
Poll ==
    /\ jobs' = Purged
    /\ UNCHANGED <<issued, task, cancelled, waiters, free, lifecycle, now>>

\* The loop's ready queue is first in, first out, and a task is put there when
\* it is created: first steps run in the order of submission.
FirstCreated(id) ==
    /\ task[id] = "created"
    /\ \A other \in JobIds : task[other] = "created" => id =< other

\* First step of _run with a slot to take.  mark_running finds the record
\* queued (RecordFollowsTask), so the early return on None is never taken.
StartAtOnce(id) ==
    /\ FirstCreated(id)
    /\ id \notin cancelled
    /\ ~Locked
    /\ free' = free - 1
    /\ task' = [task EXCEPT ![id] = "searching"]
    /\ jobs' = MarkRunning(id)
    /\ UNCHANGED <<issued, cancelled, waiters, lifecycle, now>>

\* First step of _run with no slot to take: a future in the deque.
StartWaiting(id) ==
    /\ FirstCreated(id)
    /\ id \notin cancelled
    /\ Locked
    /\ task' = [task EXCEPT ![id] = "waiting"]
    /\ waiters' = Append(waiters, id)
    /\ UNCHANGED <<jobs, issued, cancelled, free, lifecycle, now>>

\* A waiter that was handed a slot resumes; those granted earlier go first.
Resume(id) ==
    /\ task[id] = "granted"
    /\ id \notin cancelled
    /\ \E i \in DOMAIN waiters :
          /\ waiters[i] = id
          /\ \A j \in 1..(i - 1) : task[waiters[j]] # "granted"
    /\ LeaveQueue(id)
    /\ WakeOthers([task EXCEPT ![id] = "searching"], free)
    /\ jobs' = MarkRunning(id)
    /\ UNCHANGED <<issued, cancelled, lifecycle, now>>

\* orchestrator.search returned: mark_completed, then the slot is released.
SearchReturns(id) ==
    /\ task[id] = "searching"
    /\ id \notin cancelled
    /\ jobs' = MarkCompleted(id)
    /\ Release([task EXCEPT ![id] = "ended"])
    /\ UNCHANGED <<issued, cancelled, waiters, lifecycle, now>>

\* orchestrator.search raised: AdapterUnavailableError or anything else.
SearchRaises(id) ==
    /\ task[id] = "searching"
    /\ id \notin cancelled
    /\ \E code \in {"adapter_unavailable", "search_failed"} :
          jobs' = MarkFailed(id, code)
    /\ Release([task EXCEPT ![id] = "ended"])
    /\ UNCHANGED <<issued, cancelled, waiters, lifecycle, now>>

\* CancelledError is thrown at the first line of a coroutine that never ran:
\* outside the try, so nothing marks the record.
CancelUnstarted(id) ==
    /\ id \in cancelled
    /\ FirstCreated(id)
    /\ task' = [task EXCEPT ![id] = "unstarted"]
    /\ UNCHANGED <<jobs, issued, cancelled, waiters, free, lifecycle, now>>

\* ... in a job that waits for a slot,
CancelWaiting(id) ==
    /\ id \in cancelled
    /\ task[id] = "waiting"
    /\ LeaveQueue(id)
    /\ jobs' = MarkFailed(id, "search_cancelled")
    /\ task' = [task EXCEPT ![id] = "ended"]
    /\ UNCHANGED <<issued, cancelled, free, lifecycle, now>>

\* Mutant of CancelGranted: the slot it was handed is not given back.
BugSlotLeak(id) ==
    /\ id \in cancelled
    /\ task[id] = "granted"
    /\ LeaveQueue(id)
    /\ jobs' = MarkFailed(id, "search_cancelled")
    /\ WakeOthers([task EXCEPT ![id] = "ended"], free)
    /\ UNCHANGED <<issued, cancelled, lifecycle, now>>

\* ... in one that was handed a slot it must give back,
CancelGranted(id) ==
    /\ id \in cancelled
    /\ task[id] = "granted"
    /\ LeaveQueue(id)
    /\ jobs' = MarkFailed(id, "search_cancelled")
    /\ WakeOthers([task EXCEPT ![id] = "ended"], free + 1)
    /\ UNCHANGED <<issued, cancelled, lifecycle, now>>

\* Mutant of CancelSearching: the cancellation is swallowed and the task goes on.
BugSwallowCancel(id) ==
    /\ id \in cancelled
    /\ task[id] = "searching"
    /\ jobs' = MarkFailed(id, "search_cancelled")
    /\ UNCHANGED <<issued, task, cancelled, waiters, free, lifecycle, now>>

\* ... and in one that is searching.
CancelSearching(id) ==
    /\ id \in cancelled
    /\ task[id] = "searching"
    /\ jobs' = MarkFailed(id, "search_cancelled")
    /\ Release([task EXCEPT ![id] = "ended"])
    /\ UNCHANGED <<issued, cancelled, waiters, lifecycle, now>>

\* aclose up to its gather: refuse new work, cancel every task there is.
Close ==
    /\ lifecycle = "open"
    /\ lifecycle' = "closing"
    /\ cancelled' = {id \in JobIds : task[id] \in LiveStages}
    /\ UNCHANGED <<jobs, issued, task, waiters, free, now>>

\* gather returns when every task it was given is done.
CloseReturns ==
    /\ lifecycle = "closing"
    /\ \A id \in cancelled : task[id] \notin LiveStages
    /\ lifecycle' = "closed"
    /\ UNCHANGED <<jobs, issued, task, cancelled, waiters, free, now>>

Tick ==
    /\ now < Horizon
    /\ now' = now + 1
    /\ UNCHANGED <<jobs, issued, task, cancelled, waiters, free, lifecycle>>

\* The steps a job's own task takes.
TaskStep(id) ==
    \/ StartAtOnce(id)
    \/ StartWaiting(id)
    \/ Resume(id)
    \/ SearchReturns(id)
    \/ SearchRaises(id)
    \/ CancelUnstarted(id)
    \/ CancelWaiting(id)
    \/ CancelGranted(id)
    \/ CancelSearching(id)

Next ==
    \/ Submit
    \/ SubmitRefused
    \/ Poll
    \/ \E id \in JobIds : TaskStep(id)
    \/ Close
    \/ CloseReturns
    \/ Tick

Spec == Init /\ [][Next]_vars

\* The loop runs every ready task, and a search ends: adapters are under
\* wait_for, admission too.  Nobody has to submit, poll or close.
Fairness ==
    /\ \A id \in JobIds : WF_vars(TaskStep(id))
    /\ WF_vars(CloseReturns)

FairSpec == Spec /\ Fairness

-----------------------------------------------------------------------------
(* Properties *)

\* A job's record is exactly as far as its task: kept and queued until the
\* task holds a slot, running while it searches, settled (or already dropped)
\* once it ended.  So mark_running and mark_completed never return None, no
\* finished search is lost, and shutdown leaves a job active only if its task
\* never ran at all (search_jobs.py:91-119).
RecordFollowsTask ==
    \A id \in JobIds :
        /\ task[id] \in {"created", "waiting", "granted", "unstarted"} =>
              id \in DOMAIN jobs /\ jobs[id].status = "queued"
        /\ task[id] = "searching" =>
              id \in DOMAIN jobs /\ jobs[id].status = "running"
        /\ task[id] = "ended" =>
              (id \in DOMAIN jobs => IsTerminal(jobs[id]))
        /\ task[id] = "none" => id \notin DOMAIN jobs

\* Every slot of the semaphore is either free or held by one task, through
\* completion, failure and each kind of cancellation (search_jobs.py:93).
SlotHolders == {id \in JobIds : task[id] \in {"granted", "searching"}}

SlotsConserved == free + Cardinality(SlotHolders) = MaxConcurrent

\* A slot is free while a job waits for one only as long as an earlier waiter
\* that was granted its own slot has yet to resume and pass the free one on
\* (search_jobs.py:93).
NoIdleSlot ==
    (free > 0 /\ PendingWaiters # {}) => \E id \in JobIds : task[id] = "granted"

\* The store never holds more records than its capacity
\* (search_job_store.py:142-155).
WithinCapacity == Cardinality(DOMAIN jobs) =< MaxEntries

\* Jobs start in the order they were submitted: none is running, or has
\* completed, while an older one is still queued (search_jobs.py:93).
StartsInOrder ==
    \A older, younger \in DOMAIN jobs :
        (older < younger /\ jobs[older].status = "queued")
            => jobs[younger].status \notin {"running", "completed"}

\* Once aclose has returned no job's task is left and none is created, so
\* the adapters' connections can be closed next (main.py:35-40).
NothingRunsAfterClose ==
    lifecycle = "closed" => \A id \in JobIds : task[id] \notin LiveStages

\* An active record is never dropped; a settled one only when its time to
\* live has passed, or when the store is full and it is the oldest settled
\* one (the promise of search_job_store.py:24-30).
RecordsLeaveInOrder ==
    [][\A id \in DOMAIN jobs \ DOMAIN jobs' :
          \/ Expired(jobs[id])
          \/ /\ id \in OldestTerminal(Purged)
             /\ ~HasRoom(Purged)]_vars

\* A settled record never changes again, its expiry included: no late
\* mark_failed overwrites a result, and polling does not extend it.
TerminalRecordIsFinal ==
    [][\A id \in DOMAIN jobs \cap DOMAIN jobs' :
          IsTerminal(jobs[id]) => jobs'[id] = jobs[id]]_vars

\* What a poll of id would be answered now.
Answer(id) ==
    IF id \in DOMAIN jobs /\ ~Expired(jobs[id])
    THEN [status |-> jobs[id].status, result |-> jobs[id].result,
          error |-> jobs[id].error]
    ELSE [status |-> IF id =< issued THEN "gone" ELSE "absent",
          result |-> "none", error |-> "none"]

Lifecycle == INSTANCE SearchJobLifecycle WITH answer <- [id \in JobIds |-> Answer(id)]

\* Clients see the promised life cycle, whatever tasks, time and capacity do:
\* no answer goes back, none is both result and error, none reappears.
ImplementsLifecycle == Lifecycle!Spec

\* Every accepted job settles, unless the service is shut down first.
EveryJobSettles ==
    \A id \in JobIds :
        (task[id] = "created") ~>
            (\/ lifecycle # "open"
             \/ id \notin DOMAIN jobs
             \/ IsTerminal(jobs[id]))

\* aclose returns: cancelled tasks all end, in whatever stage it found them.
ShutdownCompletes == (lifecycle = "closing") ~> (lifecycle = "closed")
=============================================================================
