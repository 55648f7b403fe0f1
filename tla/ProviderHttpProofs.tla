-------------------------- MODULE ProviderHttpProofs --------------------------
(* The slots and the retries of ProviderHttp, for any number of requests, slots *)
(* and retries.                                                                 *)
EXTENDS ProviderHttp, AsyncSemaphoreProofs

Sending == {r \in Requests : at[r] = "sending"}

Waiting == {r \in Requests : at[r] = "slot"}

TypeOK ==
    /\ at \in [Requests -> {"new", "slot", "sending", "backoff", "done"}]
    /\ signals \in [Requests -> SUBSET {"timeout", "cancel"}]
    /\ retries \in [Requests -> 0..MaxRetries]
    /\ attempts \in [Requests -> Nat]
    /\ delay \in [Requests -> {"none", "short", "long"}]
    /\ outcome \in [Requests -> {"none", "answered", "busy", "broken", "error",
                                 "timeout", "cancelled"}]
    /\ closed \in BOOLEAN

\* What SlotsConserved needs to be inductive: the line is that of the requests
\* that wait, and only they have been handed a slot.
SlotsInUse == InUse(slots, Requests, Waiting, Sending, MaxConcurrency)

\* How often a request should have gone out by now.
Asked(r) == IF at[r] = "sending" THEN retries[r] + 1 ELSE retries[r]

\* What RetriesExact needs: every retry was an attempt, unless the client was
\* closed in the meantime.
AttemptsCounted ==
    \A r \in Requests :
        /\ attempts[r] =< Asked(r)
        /\ ~closed => attempts[r] = Asked(r)
        /\ at[r] \in {"new", "done"} => retries[r] = 0

IInv == TypeOK /\ SlotsInUse /\ AttemptsCounted

-----------------------------------------------------------------------------
(* The slots *)

\* A request that asks for a slot has one or stands in line, and is one more
\* that does.
LEMMA AskingKeepsSlots ==
    ASSUME TypeOK, SlotsInUse, NEW r \in Requests, at[r] \in {"new", "backoff"}, AsksForSlot(r)
    PROVE  SlotsInUse'
<1>1. r \notin Sending /\ r \in Requests \ Waiting
  BY DEF Sending, Waiting
<1>2. CASE /\ ~Locked(slots)
           /\ slots' = Take(slots)
           /\ Sends(r)
  <2>1. Sending' = Sending \cup {r} /\ Waiting' = Waiting
    BY <1>2 DEF Sends, Sending, Waiting, TypeOK
  <2>2. InUse(slots', Requests, Waiting, Sending \cup {r}, MaxConcurrency)
    BY <1>1, <1>2, ConstantsAssumption, TakeInUse DEF SlotsInUse
  <2>. QED
    BY <2>1, <2>2 DEF SlotsInUse
<1>3. CASE /\ Locked(slots)
           /\ slots' = LineUp(slots, r)
           /\ at' = [at EXCEPT ![r] = "slot"]
  <2>1. Sending' = Sending /\ Waiting' = Waiting \cup {r}
    BY <1>1, <1>3 DEF Sending, Waiting, TypeOK
  <2>2. InUse(slots', Requests, Waiting \cup {r}, Sending, MaxConcurrency)
    BY <1>1, <1>3, LineUpInUse DEF SlotsInUse
  <2>. QED
    BY <2>1, <2>2 DEF SlotsInUse
<1>. QED
  BY <1>2, <1>3 DEF AsksForSlot

\* A request that stops sending gives its slot back.
LEMMA StoppingKeepsSlots ==
    ASSUME TypeOK, SlotsInUse, NEW r \in Requests, at[r] = "sending",
           NEW v \in {"backoff", "done"},
           at' = [at EXCEPT ![r] = v],
           slots' = Release(slots)
    PROVE  SlotsInUse'
<1>1. r \in Sending /\ Sending' = Sending \ {r} /\ Waiting' = Waiting
  BY DEF Sending, Waiting, TypeOK
<1>2. InUse(slots', Requests, Waiting, Sending \ {r}, MaxConcurrency)
  BY <1>1, ConstantsAssumption, ReleaseInUse DEF SlotsInUse
<1>. QED
  BY <1>1, <1>2 DEF SlotsInUse

\* A request that resumes with the slot it was handed sends with it.
LEMMA ResumingKeepsSlots ==
    ASSUME TypeOK, SlotsInUse, NEW r \in Requests, SlotResumes(r)
    PROVE  SlotsInUse'
<1>1. /\ r \notin Sending
      /\ Sending' = Sending \cup {r}
      /\ Waiting' = Waiting \ {r}
  BY DEF SlotResumes, Sends, Sending, Waiting, TypeOK
<1>2. r \in slots.granted /\ slots' \in Acquired(slots, r)
  BY DEF SlotResumes, FirstGranted
<1>3. InUse(slots', Requests, Waiting \ {r}, Sending \cup {r}, MaxConcurrency)
  BY <1>1, <1>2, ConstantsAssumption, AcquiredInUse DEF SlotsInUse
<1>. QED
  BY <1>1, <1>3 DEF SlotsInUse

\* A request that gives up in line takes no slot with it.
LEMMA GivingUpKeepsSlots ==
    ASSUME TypeOK, SlotsInUse, NEW r \in Requests, AbortSlot(r)
    PROVE  SlotsInUse'
<1>1. /\ r \in Waiting
      /\ Sending' = Sending
      /\ Waiting' = Waiting \ {r}
  BY DEF AbortSlot, Aborted, Ends, Sending, Waiting, TypeOK
<1>2. InUse(slots', Requests, Waiting \ {r}, Sending, MaxConcurrency)
  BY <1>1, ConstantsAssumption, GivenUpInUse DEF AbortSlot, SlotsInUse
<1>. QED
  BY <1>1, <1>2 DEF SlotsInUse

-----------------------------------------------------------------------------
(* The inductive invariant *)

\* No request has gone out, and every slot is free.
LEMMA InitIInv == Init => IInv
<1>. SUFFICES ASSUME Init PROVE IInv
  OBVIOUS
<1>1. TypeOK
  <2>1. 0 \in 0..MaxRetries
    BY ConstantsAssumption
  <2>. QED
    BY <2>1 DEF Init, TypeOK
<1>2. SlotsInUse
  <2>1. /\ slots = [free |-> MaxConcurrency, queue |-> <<>>, granted |-> {}]
        /\ Sending = {} /\ Waiting = {}
        /\ MaxConcurrency \in Nat
    BY ConstantsAssumption DEF Init, Sending, Waiting
  <2>. QED
    BY <2>1, StartInUse DEF SlotsInUse
<1>3. AttemptsCounted
  BY DEF Init, AttemptsCounted, Asked
<1>. QED
  BY <1>1, <1>2, <1>3 DEF IInv

\* Every step of a request, the deadline, a cancellation and the shutdown keep
\* the accounts of slots and attempts.
LEMMA NextIInv == IInv /\ [Next]_vars => IInv'
<1>. SUFFICES ASSUME IInv, [Next]_vars PROVE IInv'
  OBVIOUS
<1>. USE ConstantsAssumption
<1>1. TypeOK /\ SlotsInUse /\ AttemptsCounted
  BY DEF IInv
<1>2. ASSUME NEW r \in Requests, Arrives(r) PROVE IInv'
  <2>1. TypeOK' /\ AttemptsCounted'
    BY <1>1, <1>2 DEF TypeOK, AttemptsCounted, Asked, Arrives, AsksForSlot, Sends
  <2>2. SlotsInUse'
    BY <1>1, <1>2, AskingKeepsSlots DEF Arrives
  <2>. QED
    BY <2>1, <2>2 DEF IInv
<1>3. ASSUME NEW r \in Requests, SlotResumes(r) PROVE IInv'
  <2>1. TypeOK' /\ AttemptsCounted'
    BY <1>1, <1>3 DEF TypeOK, AttemptsCounted, Asked, SlotResumes, Sends
  <2>2. SlotsInUse'
    BY <1>1, <1>3, ResumingKeepsSlots
  <2>. QED
    BY <2>1, <2>2 DEF IInv
<1>4. ASSUME NEW r \in Requests, at[r] = "sending", slots' = Release(slots),
             NEW result \in {"answered", "busy", "broken", "error", "timeout", "cancelled"},
             Ends(r, result)
      PROVE  IInv'
  <2>1. TypeOK' /\ AttemptsCounted'
    BY <1>1, <1>4 DEF TypeOK, AttemptsCounted, Asked, Ends
  <2>2. SlotsInUse'
    BY <1>1, <1>4, StoppingKeepsSlots DEF Ends
  <2>. QED
    BY <2>1, <2>2 DEF IInv
<1>5. ASSUME NEW r \in Requests, at[r] = "sending", RetriesLeft(r),
             NEW long \in {"short", "long"}, BacksOff(r, long)
      PROVE  IInv'
  <2>1. TypeOK' /\ AttemptsCounted'
    BY <1>1, <1>5 DEF TypeOK, AttemptsCounted, Asked, BacksOff, RetriesLeft
  <2>2. SlotsInUse'
    BY <1>1, <1>5, StoppingKeepsSlots DEF BacksOff
  <2>. QED
    BY <2>1, <2>2 DEF IInv
<1>6. ASSUME NEW r \in Requests, Answered(r) \/ Refused(r) PROVE IInv'
  BY <1>4, <1>6 DEF Answered, Refused
<1>7. ASSUME NEW r \in Requests, Breaks(r) \/ Busy(r) PROVE IInv'
  BY <1>4, <1>5, <1>7 DEF Breaks, Busy
<1>8. ASSUME NEW r \in Requests, BackOffOver(r) PROVE IInv'
  <2>1. TypeOK' /\ AttemptsCounted'
    BY <1>1, <1>8 DEF TypeOK, AttemptsCounted, Asked, BackOffOver, AsksForSlot, Sends
  <2>2. SlotsInUse'
    BY <1>1, <1>8, AskingKeepsSlots DEF BackOffOver
  <2>. QED
    BY <2>1, <2>2 DEF IInv
<1>9. ASSUME NEW r \in Requests, AbortSlot(r) PROVE IInv'
  <2>1. TypeOK' /\ AttemptsCounted'
    BY <1>1, <1>9 DEF TypeOK, AttemptsCounted, Asked, AbortSlot, Aborted, Ends
  <2>2. SlotsInUse'
    BY <1>1, <1>9, GivingUpKeepsSlots
  <2>. QED
    BY <2>1, <2>2 DEF IInv
<1>10. ASSUME NEW r \in Requests, AbortSending(r) PROVE IInv'
  BY <1>4, <1>10 DEF AbortSending, Aborted
<1>11. ASSUME at' = at, slots' = slots PROVE SlotsInUse'
  BY <1>1, <1>11 DEF SlotsInUse, Sending, Waiting
<1>12. ASSUME NEW r \in Requests, AbortBackOff(r) PROVE IInv'
  <2>1. TypeOK' /\ AttemptsCounted'
    BY <1>1, <1>12 DEF TypeOK, AttemptsCounted, Asked, AbortBackOff, Aborted, Ends
  <2>2. Sending' = Sending /\ Waiting' = Waiting /\ slots' = slots
    BY <1>1, <1>12 DEF TypeOK, AbortBackOff, Aborted, Ends, Sending, Waiting
  <2>3. SlotsInUse'
    BY <1>1, <2>2 DEF SlotsInUse
  <2>. QED
    BY <2>1, <2>3 DEF IInv
<1>13. ASSUME NEW r \in Requests, DeadlineStrikes(r) \/ Cancel(r) PROVE IInv'
  <2>1. TypeOK' /\ AttemptsCounted'
    BY <1>1, <1>13 DEF TypeOK, AttemptsCounted, Asked, DeadlineStrikes, Cancel
  <2>2. SlotsInUse'
    BY <1>11, <1>13 DEF DeadlineStrikes, Cancel
  <2>. QED
    BY <2>1, <2>2 DEF IInv
<1>14. CASE Close \/ UNCHANGED vars
  <2>1. TypeOK' /\ AttemptsCounted'
    BY <1>1, <1>14 DEF TypeOK, AttemptsCounted, Asked, Close, vars
  <2>2. SlotsInUse'
    BY <1>11, <1>14 DEF Close, vars
  <2>. QED
    BY <2>1, <2>2 DEF IInv
<1>. QED
  BY <1>2, <1>3, <1>6, <1>7, <1>8, <1>9, <1>10, <1>12, <1>13, <1>14 DEF Next, Step

\* The invariant holds throughout.
THEOREM Invariance == Spec => []IInv
  BY InitIInv, NextIInv, PTL DEF Spec

-----------------------------------------------------------------------------
(* What the runs check *)

\* No slot of a provider's client is lost or given out twice, however answers,
\* deadlines, cancellations and hand-overs cross (http.py:159-187).
THEOREM SlotsAreConserved == Spec => []SlotsConserved
<1>1. IInv => SlotsConserved
  BY InUseAllAccounted DEF IInv, SlotsInUse, SlotsConserved, Sending, Waiting
<1>. QED
  BY <1>1, Invariance, PTL

\* A provider is asked once and MaxRetries times more at most, on the retry
\* paths of transport errors and of statuses together, and a request that fails
\* as broken or busy has used them all (http.py:162-187).
THEOREM RetriesAreExact == Spec => RetriesExact
<1>1. IInv /\ IInv' /\ [Next]_vars =>
        [\A r \in Requests :
            /\ attempts'[r] =< MaxRetries + 1
            /\ outcome'[r] # outcome[r] /\ outcome'[r] \in {"busy", "broken"} =>
                  attempts[r] = MaxRetries + 1 \/ closed]_vars
  <2>. SUFFICES ASSUME IInv, IInv', Next, NEW r \in Requests
                PROVE  /\ attempts'[r] =< MaxRetries + 1
                       /\ outcome'[r] # outcome[r] /\ outcome'[r] \in {"busy", "broken"} =>
                             attempts[r] = MaxRetries + 1 \/ closed
    BY DEF vars
  <2>1. attempts'[r] =< MaxRetries + 1
    BY ConstantsAssumption DEF IInv, TypeOK, AttemptsCounted, Asked
  <2>2. ASSUME outcome'[r] # outcome[r], outcome'[r] \in {"busy", "broken"}
        PROVE  (Breaks(r) \/ Busy(r)) /\ ~RetriesLeft(r)
    BY <2>2 DEF IInv, TypeOK, Next, Step, Arrives, SlotResumes, Answered, Breaks, Busy, Refused,
                BackOffOver, AbortSlot, AbortSending, AbortBackOff, DeadlineStrikes, Cancel, Close,
                Aborted, Ends, BacksOff
  <2>3. ASSUME at[r] = "sending", ~RetriesLeft(r), ~closed
        PROVE  attempts[r] = MaxRetries + 1
    BY <2>3, ConstantsAssumption DEF IInv, TypeOK, AttemptsCounted, Asked, RetriesLeft
  <2>. QED
    BY <2>1, <2>2, <2>3 DEF IInv, TypeOK, Breaks, Busy
<1>. QED
  BY <1>1, Invariance, PTL DEF Spec, RetriesExact
=============================================================================
