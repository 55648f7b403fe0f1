---------------------------- MODULE ProviderHttp ----------------------------
(* AsyncJsonHttpClient (adapters/shared/http.py): the requests that the        *)
(* adapters of one provider send through a limited number of slots.  One       *)
(* deadline spans the wait for a slot, every attempt and the back-off between  *)
(* them, so that it may strike in any of them, or in the moment an answer or a *)
(* slot arrives.  A request is a call of _request_response.                    *)
EXTENDS AsyncSemaphore

CONSTANTS
    Requests,        \* calls of _request_response
    MaxConcurrency,  \* slots
    MaxRetries       \* _max_retries

ASSUME ConstantsAssumption ==
    /\ IsFiniteSet(Requests)
    /\ MaxConcurrency \in Nat \ {0}
    /\ MaxRetries \in Nat

VARIABLES
    at,        \* where each request is: in line for a "slot", "sending" with one,
               \* in a "backoff", or "done"
    slots,     \* _semaphore
    retries,   \* retries_used
    attempts,  \* how often the provider was asked, until the request ends
    delay,     \* how long a back-off lasts, against the deadline
    outcome,   \* how the request ended
    closed     \* aclose was called

vars == <<signals, at, slots, retries, attempts, delay, outcome, closed>>

-----------------------------------------------------------------------------
Init ==
    /\ at = [r \in Requests |-> "new"]
    /\ signals = [r \in Requests |-> {}]
    /\ slots = [free |-> MaxConcurrency, queue |-> <<>>, granted |-> {}]
    /\ retries = [r \in Requests |-> 0]
    /\ attempts = [r \in Requests |-> 0]
    /\ delay = [r \in Requests |-> "none"]
    /\ outcome = [r \in Requests |-> "none"]
    /\ closed = FALSE

\* The request goes out; a client that was closed refuses to send it, with an
\* exception that no handler of this module knows.
Sends(r) ==
    /\ at' = [at EXCEPT ![r] = "sending"]
    /\ attempts' = [attempts EXCEPT ![r] = IF closed THEN @ ELSE @ + 1]

Ends(r, result) ==
    /\ at' = [at EXCEPT ![r] = "done"]
    /\ outcome' = [outcome EXCEPT ![r] = result]
    /\ signals' = [signals EXCEPT ![r] = {}]
    /\ delay' = [delay EXCEPT ![r] = "none"]
    /\ retries' = [retries EXCEPT ![r] = 0]
    /\ attempts' = [attempts EXCEPT ![r] = 0]
    /\ UNCHANGED closed

\* async with self._semaphore: at once, or a place in line.
AsksForSlot(r) ==
    \/ /\ ~Locked(slots)
       /\ slots' = Take(slots)
       /\ Sends(r)
    \/ /\ Locked(slots)
       /\ slots' = LineUp(slots, r)
       /\ at' = [at EXCEPT ![r] = "slot"]
       /\ UNCHANGED attempts

Arrives(r) ==
    /\ at[r] = "new"
    /\ AsksForSlot(r)
    /\ UNCHANGED <<signals, retries, delay, outcome, closed>>

SlotResumes(r) ==
    /\ at[r] = "slot"
    /\ signals[r] = {}
    /\ FirstGranted(slots, r)
    /\ slots' \in Acquired(slots, r)
    /\ Sends(r)
    /\ UNCHANGED <<signals, retries, delay, outcome, closed>>

\* A response that is final, also one with a status that is not retried.
Answered(r) ==
    /\ at[r] = "sending"
    /\ signals[r] = {}
    /\ ~closed
    /\ Ends(r, "answered")
    /\ slots' = Release(slots)

\* Mutant of RetriesLeft: the limit is compared after the fact.
BugOneMoreRetry(r) == retries[r] =< MaxRetries

RetriesLeft(r) == retries[r] < MaxRetries

\* Mutant of BacksOff: the slot is kept over the back-off.
BugSleepsInSlot(r, long) ==
    /\ at' = [at EXCEPT ![r] = "backoff"]
    /\ retries' = [retries EXCEPT ![r] = @ + 1]
    /\ delay' = [delay EXCEPT ![r] = long]
    /\ UNCHANGED <<slots, signals, attempts, outcome, closed>>

\* The slot is given back before the back-off begins.
BacksOff(r, long) ==
    /\ at' = [at EXCEPT ![r] = "backoff"]
    /\ retries' = [retries EXCEPT ![r] = @ + 1]
    /\ delay' = [delay EXCEPT ![r] = long]
    /\ slots' = Release(slots)
    /\ UNCHANGED <<signals, attempts, outcome, closed>>

\* A transport error: its back-off is short.
Breaks(r) ==
    /\ at[r] = "sending"
    /\ signals[r] = {}
    /\ IF RetriesLeft(r) THEN BacksOff(r, "short")
       ELSE Ends(r, "broken") /\ slots' = Release(slots)

\* A status that asks to try again; Retry-After may be beyond the deadline.
Busy(r) ==
    /\ at[r] = "sending"
    /\ signals[r] = {}
    /\ ~closed
    /\ IF RetriesLeft(r) THEN \E long \in {"short", "long"} : BacksOff(r, long)
       ELSE Ends(r, "busy") /\ slots' = Release(slots)

\* The closed client raises.
Refused(r) ==
    /\ at[r] = "sending"
    /\ signals[r] = {}
    /\ closed
    /\ Ends(r, "error")
    /\ slots' = Release(slots)

\* Back in line, behind those who came in the meantime.
BackOffOver(r) ==
    /\ at[r] = "backoff"
    /\ signals[r] = {}
    /\ delay[r] = "short"
    /\ delay' = [delay EXCEPT ![r] = "none"]
    /\ AsksForSlot(r)
    /\ UNCHANGED <<signals, retries, outcome, closed>>

-----------------------------------------------------------------------------
\* Mutant of DeadlineStrikes: the deadline is that of an attempt.
BugDeadlinePerAttempt(r) ==
    /\ at[r] \in {"slot", "sending"}
    /\ signals[r] = {}
    /\ signals' = [signals EXCEPT ![r] = @ \cup {"timeout"}]
    /\ UNCHANGED <<at, slots, retries, attempts, delay, outcome, closed>>

\* asyncio.timeout calls cancel(), wherever the request is; after a cancel of
\* somebody else it would change nothing.
DeadlineStrikes(r) ==
    /\ at[r] \in {"slot", "sending", "backoff"}
    /\ signals[r] = {}
    /\ signals' = [signals EXCEPT ![r] = @ \cup {"timeout"}]
    /\ UNCHANGED <<at, slots, retries, attempts, delay, outcome, closed>>

\* The search behind the request is cancelled or out of time.
Cancel(r) ==
    /\ at[r] \in {"slot", "sending", "backoff"}
    /\ "cancel" \notin signals[r]
    /\ signals' = [signals EXCEPT ![r] = @ \cup {"cancel"}]
    /\ UNCHANGED <<at, slots, retries, attempts, delay, outcome, closed>>

\* CancelledError arrives.  It becomes a timeout if nobody else cancelled.
Aborted(r) == Ends(r, IF "cancel" \in signals[r] THEN "cancelled" ELSE "timeout")

AbortSlot(r) ==
    /\ at[r] = "slot"
    /\ signals[r] # {}
    /\ slots' \in GivenUp(slots, r)
    /\ Aborted(r)

AbortSending(r) ==
    /\ at[r] = "sending"
    /\ signals[r] # {}
    /\ slots' = Release(slots)
    /\ Aborted(r)

AbortBackOff(r) ==
    /\ at[r] = "backoff"
    /\ signals[r] # {}
    /\ UNCHANGED slots
    /\ Aborted(r)

\* aclose, at shutdown; loads that were told to stop may still be sending.
Close ==
    /\ ~closed
    /\ closed' = TRUE
    /\ UNCHANGED <<signals, at, slots, retries, attempts, delay, outcome>>

Step(r) ==
    \/ SlotResumes(r)
    \/ Answered(r)
    \/ Breaks(r)
    \/ Busy(r)
    \/ Refused(r)
    \/ BackOffOver(r)
    \/ AbortSlot(r)
    \/ AbortSending(r)
    \/ AbortBackOff(r)

Next ==
    \/ \E r \in Requests :
          \/ Arrives(r)
          \/ Step(r)
          \/ DeadlineStrikes(r)
          \/ Cancel(r)
    \/ Close

Spec == Init /\ [][Next]_vars

\* The loop runs ready tasks and due timers.  That the provider answers is not
\* assumed: the deadline is there for the case that it does not.
Fairness ==
    \A r \in Requests :
        /\ WF_vars(SlotResumes(r) \/ BackOffOver(r) \/ AbortSlot(r) \/ AbortSending(r)
                     \/ AbortBackOff(r))
        /\ WF_vars(DeadlineStrikes(r))

FairSpec == Spec /\ Fairness

-----------------------------------------------------------------------------
(* Properties *)

\* A slot is free, handed over, or held by a request that is sending: a
\* back-off holds none, and no crossing of deadline, cancellation, answer and
\* hand-over loses one (http.py:159-187).
SlotsConserved ==
    AllAccounted(slots, {r \in Requests : at[r] = "sending"},
                 {r \in Requests : at[r] = "slot"}, MaxConcurrency)

\* A provider is asked at most once more than there are retries, on both paths
\* together, and a request fails as broken or busy only after all of them (the
\* README: a transient failure is retried inside the total deadline).
RetriesExact ==
    [][\A r \in Requests :
          /\ attempts'[r] =< MaxRetries + 1
          /\ outcome'[r] # outcome[r] /\ outcome'[r] \in {"busy", "broken"} =>
                attempts[r] = MaxRetries + 1 \/ closed]_vars

\* Every request ends, though the provider never answers, asks for a long
\* pause, or others keep the slots.
EveryRequestEnds == \A r \in Requests : (at[r] # "new") ~> (at[r] = "done")
=============================================================================
