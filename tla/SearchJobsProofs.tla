-------------------------- MODULE SearchJobsProofs --------------------------
(***************************************************************************)
(* Theorems about SearchJobs, for every number of jobs, capacity,          *)
(* concurrency and time to live.  The inductive invariant is IInv: besides *)
(* the properties proved it says that identifiers above issued are unused  *)
(* and that after aclose began every live task was cancelled.  That jobs   *)
(* are served in order, and slots do not idle, rests on LineInv on top of  *)
(* it: where each job is in the semaphore's deque, and that of two jobs    *)
(* the younger is never further on.  That the service implements           *)
(* SearchJobLifecycle rests on IInv and on StoreEffect: every step does    *)
(* one of four things to the store.                                        *)
(***************************************************************************)
EXTENDS SearchJobs, FiniteSetTheorems, SequenceTheorems, TLAPS

\* Identifiers not issued yet have no task (Submit may use the next one).
FreshUnused == \A id \in JobIds : id > issued => task[id] = "none"

\* Once aclose has set _closed, no task lives that it did not cancel.
ClosingCancelsAll ==
    lifecycle # "open" =>
        \A id \in JobIds : task[id] \in LiveStages => id \in cancelled

IInv ==
    /\ TypeOK
    /\ FreshUnused
    /\ ClosingCancelsAll
    /\ RecordFollowsTask
    /\ SlotsConserved
    /\ WithinCapacity
    /\ NothingRunsAfterClose

-----------------------------------------------------------------------------
(* The store's operations *)

\* Purging drops settled records only and changes none.
LEMMA PurgedKeepsActive ==
    ASSUME TypeOK
    PROVE  /\ DOMAIN Purged \subseteq DOMAIN jobs
           /\ \A id \in DOMAIN Purged : Purged[id] = jobs[id]
           /\ \A id \in DOMAIN jobs : ~Expired(jobs[id]) => id \in DOMAIN Purged
           /\ \A id \in DOMAIN jobs : ~IsTerminal(jobs[id]) => id \in DOMAIN Purged
BY DEF Purged, Without, Expired

\* What _transition leaves: the purged store, with at most the record of id
\* replaced, and that one only from an allowed status.
LEMMA TransitionEffect ==
    ASSUME TypeOK, NEW id \in JobIds, NEW from, NEW record
    PROVE  /\ DOMAIN Transition(id, from, record) = DOMAIN Purged
           /\ \A other \in DOMAIN Purged \ {id} :
                 Transition(id, from, record)[other] = jobs[other]
           /\ id \in DOMAIN Purged /\ jobs[id].status \in from
                 => Transition(id, from, record)[id] = record
           /\ id \in DOMAIN Purged /\ jobs[id].status \notin from
                 => Transition(id, from, record)[id] = jobs[id]
BY PurgedKeepsActive DEF Transition, Put

\* A record written now is a job record.
LEMMA RecordType ==
    ASSUME TypeOK, ConstantsAssumption,
           NEW status \in ActiveStatuses \cup TerminalStatuses,
           NEW result \in {"none", "offers"},
           NEW error \in {"none"} \cup FailureCodes
    PROVE  Record(status, result, error) \in JobRecord
BY DEF TypeOK, ConstantsAssumption, Record, JobRecord

\* The set of kept identifiers is finite, and so is every part of it.
LEMMA KeptFinite ==
    ASSUME TypeOK, NEW S \in SUBSET JobIds
    PROVE  IsFiniteSet(S) /\ Cardinality(S) \in Nat
<1>1. IsFiniteSet(JobIds)
  BY ConstantsAssumption, FS_Interval DEF JobIds, ConstantsAssumption
<1>. QED
  BY <1>1, FS_Subset, FS_CardinalityType

\* The three ways a task's step touches the store keep it well typed, within
\* capacity and, for the other jobs, in step with their tasks.
StoreStep(id, record) ==
    \E from \in SUBSET (ActiveStatuses \cup TerminalStatuses) :
        /\ from \cap TerminalStatuses = {}
        /\ jobs' = Transition(id, from, record)

LEMMA StoreStepSound ==
    ASSUME TypeOK, WithinCapacity, ConstantsAssumption,
           NEW id \in JobIds, NEW record \in JobRecord, StoreStep(id, record)
    PROVE  /\ DOMAIN jobs' \subseteq DOMAIN jobs
           /\ \A other \in DOMAIN jobs' : jobs'[other] \in JobRecord
           /\ \A other \in DOMAIN jobs' \ {id} : jobs'[other] = jobs[other]
           /\ \A other \in DOMAIN jobs : ~IsTerminal(jobs[other]) => other \in DOMAIN jobs'
           /\ id \in DOMAIN jobs' /\ IsTerminal(jobs[id]) => jobs'[id] = jobs[id]
           /\ Cardinality(DOMAIN jobs') =< MaxEntries
<1>1. PICK from \in SUBSET (ActiveStatuses \cup TerminalStatuses) :
        /\ from \cap TerminalStatuses = {}
        /\ jobs' = Transition(id, from, record)
  BY DEF StoreStep
<1>2. DOMAIN jobs' = DOMAIN Purged
  BY <1>1, TransitionEffect
<1>3. \A other \in DOMAIN jobs' \ {id} : jobs'[other] = jobs[other]
  BY <1>1, <1>2, TransitionEffect
<1>4. id \in DOMAIN jobs' => jobs'[id] = record \/ jobs'[id] = jobs[id]
  BY <1>1, <1>2, TransitionEffect
<1>5. id \in DOMAIN jobs' /\ IsTerminal(jobs[id]) => jobs'[id] = jobs[id]
  BY <1>1, <1>2, TransitionEffect DEF IsTerminal
<1>6. DOMAIN jobs' \subseteq DOMAIN jobs
  BY <1>2, PurgedKeepsActive
<1>7. Cardinality(DOMAIN jobs') =< MaxEntries
  <2>1. IsFiniteSet(DOMAIN jobs) /\ Cardinality(DOMAIN jobs) \in Nat
    BY KeptFinite DEF TypeOK
  <2>2. Cardinality(DOMAIN jobs') \in Nat /\ Cardinality(DOMAIN jobs') =< Cardinality(DOMAIN jobs)
    BY <2>1, <1>6, FS_Subset, KeptFinite DEF TypeOK
  <2>. QED
    BY <2>1, <2>2 DEF WithinCapacity, ConstantsAssumption
<1>8. \A other \in DOMAIN jobs' : jobs'[other] \in JobRecord
  BY <1>3, <1>4, <1>6 DEF TypeOK
<1>. QED
  BY <1>2, <1>3, <1>5, <1>6, <1>7, <1>8, PurgedKeepsActive

-----------------------------------------------------------------------------
(* The semaphore *)

\* Handing over value slots that are not held: the waiters granted become
\* holders, every other task is in the stage its caller gave it, and slots
\* are neither made nor lost.
LEMMA HandOverEffect ==
    ASSUME TypeOK, ConstantsAssumption,
           NEW stage \in [JobIds -> Stages], NEW value \in Nat, NEW limit \in 0..value,
           \A id \in PendingWaiters : stage[id] = "waiting",
           HandOver(stage, value, limit)
    PROVE  /\ task' \in [JobIds -> Stages]
           /\ free' \in Nat
           /\ \A id \in JobIds :
                 \/ task'[id] = stage[id]
                 \/ id \in PendingWaiters /\ stage[id] = "waiting" /\ task'[id] = "granted"
           /\ free' + Cardinality(SlotHolders')
                = value + Cardinality({id \in JobIds : stage[id] \in {"granted", "searching"}})
<1>. DEFINE held == {id \in JobIds : stage[id] \in {"granted", "searching"}}
<1>1. PICK next \in SUBSET PendingWaiters :
        /\ Cardinality(next) =< limit
        /\ free' = value - Cardinality(next)
        /\ task' = [id \in JobIds |-> IF id \in next THEN "granted" ELSE stage[id]]
  BY DEF HandOver
<1>2. next \subseteq JobIds
  BY DEF PendingWaiters
<1>3. IsFiniteSet(next) /\ Cardinality(next) \in Nat
  BY <1>2, KeptFinite
<1>4. IsFiniteSet(held) /\ Cardinality(held) \in Nat
  BY KeptFinite
<1>5. SlotHolders' = held \cup next
  BY <1>1, <1>2 DEF SlotHolders
<1>6. held \cap next = {}
  BY DEF PendingWaiters
<1>7. Cardinality(held \cup next) = Cardinality(held) + Cardinality(next)
  BY <1>3, <1>4, <1>6, FS_Union, FS_EmptySet
<1>8. free' \in Nat
  BY <1>1, <1>3
<1>9. task' \in [JobIds -> Stages]
  BY <1>1 DEF Stages
<1>10. free' + Cardinality(SlotHolders') = value + Cardinality(held)
  BY <1>1, <1>3, <1>4, <1>5, <1>7
<1>11. \A id \in JobIds :
          \/ task'[id] = stage[id]
          \/ id \in PendingWaiters /\ stage[id] = "waiting" /\ task'[id] = "granted"
  BY <1>1
<1>. QED
  BY <1>8, <1>9, <1>10, <1>11

\* Leaving the deque leaves a deque of jobs.
LEMMA LeaveQueueType ==
    ASSUME TypeOK, NEW id \in JobIds, LeaveQueue(id)
    PROVE  waiters' \in Seq(JobIds)
BY DEF TypeOK, LeaveQueue

-----------------------------------------------------------------------------
(* The inductive invariant *)

\* A service just built, with every slot free and nothing stored, satisfies it.
THEOREM InitIInv ==
    ASSUME ConstantsAssumption, Init
    PROVE  IInv
<1>1. TypeOK
  BY DEF Init, TypeOK, ConstantsAssumption, Stages
<1>2. SlotHolders = {} /\ DOMAIN jobs = {}
  BY DEF Init, SlotHolders
<1>3. SlotsConserved /\ WithinCapacity
  BY <1>2, FS_EmptySet DEF Init, SlotsConserved, WithinCapacity, ConstantsAssumption
<1>4. FreshUnused /\ ClosingCancelsAll /\ RecordFollowsTask /\ NothingRunsAfterClose
  BY DEF Init, FreshUnused, ClosingCancelsAll, RecordFollowsTask, NothingRunsAfterClose
<1>. QED
  BY <1>1, <1>3, <1>4 DEF IInv

\* What the steps of a task have in common: its own stage and record move
\* together, others are at most handed a slot, and slots are conserved.
TaskMove(id, stage) ==
    /\ task' \in [JobIds -> Stages]
    /\ free' \in Nat
    /\ waiters' \in Seq(JobIds)
    /\ task'[id] = stage
    /\ \A other \in JobIds \ {id} :
          \/ task'[other] = task[other]
          \/ task[other] = "waiting" /\ other \notin cancelled /\ task'[other] = "granted"
    /\ free' + Cardinality(SlotHolders') = MaxConcurrent
    /\ UNCHANGED <<issued, cancelled, lifecycle, now>>

\* Such a step of a live task, with a store step of the same job that leaves
\* the record as far as the task, preserves the invariant.
LEMMA TaskMovePreserves ==
    ASSUME IInv, ConstantsAssumption, NEW id \in JobIds, NEW stage \in Stages,
           NEW record \in JobRecord,
           task[id] \in LiveStages,
           TaskMove(id, stage),
           \/ StoreStep(id, record)
           \/ UNCHANGED jobs,
           stage # "none",
           stage \in {"created", "waiting", "granted", "unstarted"}
              => id \in DOMAIN jobs' /\ jobs'[id].status = "queued",
           stage = "searching" => id \in DOMAIN jobs' /\ jobs'[id].status = "running",
           stage = "ended" => (id \in DOMAIN jobs' => IsTerminal(jobs'[id]))
    PROVE  IInv'
<1>1. /\ DOMAIN jobs' \subseteq DOMAIN jobs
      /\ \A other \in DOMAIN jobs' : jobs'[other] \in JobRecord
      /\ \A other \in DOMAIN jobs' \ {id} : jobs'[other] = jobs[other]
      /\ \A other \in DOMAIN jobs : ~IsTerminal(jobs[other]) => other \in DOMAIN jobs'
      /\ Cardinality(DOMAIN jobs') =< MaxEntries
  <2>1. CASE StoreStep(id, record)
    BY <2>1, StoreStepSound DEF IInv
  <2>2. CASE UNCHANGED jobs
    BY <2>2 DEF IInv, TypeOK, WithinCapacity
  <2>. QED
    BY <2>1, <2>2
<1>2. TypeOK'
  BY <1>1 DEF IInv, TypeOK, TaskMove, JobIds
<1>3. FreshUnused'
  <2>1. \A other \in JobIds : task[other] = "none" => task'[other] = "none"
    BY DEF TaskMove, LiveStages
  <2>. QED
    BY <2>1 DEF IInv, FreshUnused, TaskMove
<1>4. ClosingCancelsAll'
  BY DEF IInv, ClosingCancelsAll, TaskMove, LiveStages
<1>5. RecordFollowsTask'
  <2>. SUFFICES ASSUME NEW other \in JobIds
                PROVE  /\ task'[other] \in {"created", "waiting", "granted", "unstarted"} =>
                             other \in DOMAIN jobs' /\ jobs'[other].status = "queued"
                       /\ task'[other] = "searching" =>
                             other \in DOMAIN jobs' /\ jobs'[other].status = "running"
                       /\ task'[other] = "ended" =>
                             (other \in DOMAIN jobs' => IsTerminal(jobs'[other]))
                       /\ task'[other] = "none" => other \notin DOMAIN jobs'
    BY DEF RecordFollowsTask, IsTerminal
  <2>1. CASE other = id
    BY <2>1 DEF TaskMove
  <2>2. CASE other # id
    <3>1. other \in DOMAIN jobs' => jobs'[other] = jobs[other]
      BY <2>2, <1>1
    <3>2. other \in DOMAIN jobs /\ jobs[other].status \in ActiveStatuses
             => other \in DOMAIN jobs'
      BY <1>1 DEF IsTerminal, TerminalStatuses, ActiveStatuses
    <3>3. \/ task'[other] = task[other]
          \/ task[other] = "waiting" /\ task'[other] = "granted"
      BY <2>2 DEF TaskMove
    <3>. QED
      BY <3>1, <3>2, <3>3, <1>1 DEF IInv, RecordFollowsTask, ActiveStatuses, IsTerminal
  <2>. QED
    BY <2>1, <2>2
<1>6. SlotsConserved'
  BY DEF TaskMove, SlotsConserved
<1>7. WithinCapacity'
  BY <1>1 DEF WithinCapacity
<1>8. NothingRunsAfterClose'
  BY DEF IInv, NothingRunsAfterClose, TaskMove, LiveStages
<1>. QED
  BY <1>2, <1>3, <1>4, <1>5, <1>6, <1>7, <1>8 DEF IInv

\* The slots a task holds in a stage.
Slots(stage) == IF stage \in {"granted", "searching"} THEN 1 ELSE 0

\* Holders when one task changes stage and no slot changes hands.
LEMMA HoldersAfter ==
    ASSUME IInv, ConstantsAssumption, NEW id \in JobIds, NEW stage \in Stages
    PROVE  LET next == [task EXCEPT ![id] = stage]
               held == {other \in JobIds : next[other] \in {"granted", "searching"}}
           IN  /\ next \in [JobIds -> Stages]
               /\ Cardinality(held)
                    = Cardinality(SlotHolders) + Slots(stage) - Slots(task[id])
<1>. DEFINE next == [task EXCEPT ![id] = stage]
            here == {"granted", "searching"}
            held == {other \in JobIds : next[other] \in here}
<1>1. next \in [JobIds -> Stages]
  BY DEF IInv, TypeOK
<1>2. IsFiniteSet(SlotHolders) /\ Cardinality(SlotHolders) \in Nat
  BY KeptFinite DEF IInv, SlotHolders
<1>3. held = IF stage \in here THEN SlotHolders \cup {id} ELSE SlotHolders \ {id}
  BY DEF SlotHolders, IInv, TypeOK
<1>4. id \in SlotHolders <=> task[id] \in here
  BY DEF SlotHolders
<1>5. Cardinality(held) = Cardinality(SlotHolders) + Slots(stage) - Slots(task[id])
  <2>1. Cardinality(SlotHolders \cup {id})
          = IF id \in SlotHolders THEN Cardinality(SlotHolders) ELSE Cardinality(SlotHolders) + 1
    BY <1>2, FS_AddElement
  <2>2. Cardinality(SlotHolders \ {id})
          = IF id \in SlotHolders THEN Cardinality(SlotHolders) - 1 ELSE Cardinality(SlotHolders)
    BY <1>2, FS_RemoveElement
  <2>. HIDE DEF held, here, next
  <2>3. CASE stage \in here
    BY <2>1, <2>3, <1>2, <1>3, <1>4 DEF here, Slots
  <2>4. CASE stage \notin here
    BY <2>2, <2>4, <1>2, <1>3, <1>4 DEF here, Slots
  <2>. QED
    BY <2>3, <2>4
<1>. QED
  BY <1>1, <1>5

\* A step that sets the stage of id, accounts for the slot id held, and hands
\* value slots over, is a TaskMove.
LEMMA HandOverMove ==
    ASSUME IInv, ConstantsAssumption, NEW id \in JobIds, NEW stage \in Stages,
           task[id] # "waiting" \/ id \in cancelled, task[id] \in LiveStages,
           NEW value \in Nat, NEW limit \in 0..value,
           stage \in {"searching", "ended"},
           value = free + Slots(task[id]) - Slots(stage),
           HandOver([task EXCEPT ![id] = stage], value, limit),
           waiters' \in Seq(JobIds),
           UNCHANGED <<issued, cancelled, lifecycle, now>>
    PROVE  TaskMove(id, stage)
<1>. DEFINE next == [task EXCEPT ![id] = stage]
            held == {other \in JobIds : next[other] \in {"granted", "searching"}}
<1>1. /\ next \in [JobIds -> Stages]
      /\ Cardinality(held) = Cardinality(SlotHolders) + Slots(stage) - Slots(task[id])
  BY HoldersAfter
<1>2. id \notin PendingWaiters
  BY DEF PendingWaiters, PendingWaiter
<1>3. \A other \in PendingWaiters : next[other] = "waiting"
  BY <1>2 DEF PendingWaiters, PendingWaiter, IInv, TypeOK
<1>4. /\ task' \in [JobIds -> Stages]
      /\ free' \in Nat
      /\ \A other \in JobIds :
            \/ task'[other] = next[other]
            \/ other \in PendingWaiters /\ next[other] = "waiting" /\ task'[other] = "granted"
      /\ free' + Cardinality(SlotHolders') = value + Cardinality(held)
  <2>1. TypeOK
    BY DEF IInv
  <2>2. HandOver(next, value, limit)
    OBVIOUS
  <2>. HIDE DEF next
  <2>. QED
    BY <1>1, <1>3, <2>1, <2>2, HandOverEffect
<1>5. Cardinality(SlotHolders) \in Nat /\ free \in Nat /\ free + Cardinality(SlotHolders) = MaxConcurrent
  BY KeptFinite DEF IInv, SlotHolders, SlotsConserved, TypeOK
<1>6. free' + Cardinality(SlotHolders') = MaxConcurrent
  <2>. HIDE DEF held
  <2>. QED
    BY <1>1, <1>4, <1>5, ConstantsAssumption DEF ConstantsAssumption, Slots
<1>7. task'[id] = stage
  BY <1>2, <1>4 DEF IInv, TypeOK
<1>8. \A other \in JobIds \ {id} :
          \/ task'[other] = task[other]
          \/ task[other] = "waiting" /\ other \notin cancelled /\ task'[other] = "granted"
  BY <1>4 DEF PendingWaiters, PendingWaiter, IInv, TypeOK
<1>. QED
  BY <1>4, <1>6, <1>7, <1>8 DEF TaskMove

\* A step that sets the stage of id and moves the counter by hand.
LEMMA CounterMove ==
    ASSUME IInv, ConstantsAssumption, NEW id \in JobIds, NEW stage \in Stages,
           task' = [task EXCEPT ![id] = stage],
           free' \in Nat,
           free' = free + Slots(task[id]) - Slots(stage),
           waiters' \in Seq(JobIds),
           UNCHANGED <<issued, cancelled, lifecycle, now>>
    PROVE  TaskMove(id, stage)
<1>. DEFINE next == [task EXCEPT ![id] = stage]
            held == {other \in JobIds : next[other] \in {"granted", "searching"}}
<1>1. /\ next \in [JobIds -> Stages]
      /\ Cardinality(held) = Cardinality(SlotHolders) + Slots(stage) - Slots(task[id])
  BY HoldersAfter
<1>2. held = SlotHolders'
  BY DEF SlotHolders
<1>3. Cardinality(SlotHolders) \in Nat /\ free \in Nat /\ free + Cardinality(SlotHolders) = MaxConcurrent
  BY KeptFinite DEF IInv, SlotHolders, SlotsConserved, TypeOK
<1>4. free' + Cardinality(SlotHolders') = MaxConcurrent
  <2>. HIDE DEF held
  <2>. QED
    BY <1>1, <1>2, <1>3, ConstantsAssumption DEF ConstantsAssumption, Slots
<1>. QED
  BY <1>1, <1>4 DEF TaskMove, IInv, TypeOK

\* Every step of a job's own task preserves the invariant.
THEOREM TaskStepIInv ==
    ASSUME IInv, ConstantsAssumption, NEW id \in JobIds, TaskStep(id)
    PROVE  IInv'
<1>. USE DEF IInv
<1>1. ASSUME StartAtOnce(id) PROVE IInv'
  <2>1. Record("running", "none", "none") \in JobRecord
    BY RecordType DEF ActiveStatuses
  <2>2. task[id] = "created" /\ id \in DOMAIN jobs /\ jobs[id].status = "queued"
    BY <1>1 DEF StartAtOnce, FirstCreated, RecordFollowsTask
  <2>3. free \in Nat /\ free # 0
    BY <1>1 DEF StartAtOnce, Locked, TypeOK
  <2>4. TaskMove(id, "searching")
    <3>1. free' = free + Slots(task[id]) - Slots("searching") /\ free' \in Nat
      BY <1>1, <2>2, <2>3 DEF StartAtOnce, Slots
    <3>. QED
      BY <1>1, <2>2, <2>3, <3>1, CounterMove DEF StartAtOnce, TypeOK, Stages
  <2>5. StoreStep(id, Record("running", "none", "none"))
    BY <1>1 DEF StartAtOnce, MarkRunning, StoreStep, ActiveStatuses, TerminalStatuses
  <2>6. id \in DOMAIN jobs' /\ jobs'[id].status = "running"
    BY <1>1, <2>2, PurgedKeepsActive, TransitionEffect
       DEF StartAtOnce, MarkRunning, Record, IsTerminal, TerminalStatuses
  <2>. QED
    BY <2>1, <2>2, <2>4, <2>5, <2>6, TaskMovePreserves DEF Stages, LiveStages
<1>2. ASSUME StartWaiting(id) PROVE IInv'
  <2>1. task[id] = "created" /\ id \in DOMAIN jobs /\ jobs[id].status = "queued"
    BY <1>2 DEF StartWaiting, FirstCreated, RecordFollowsTask
  <2>2. TaskMove(id, "waiting")
    <3>1. free' = free + Slots(task[id]) - Slots("waiting") /\ free' \in Nat
      BY <1>2, <2>1 DEF StartWaiting, Slots, TypeOK
    <3>2. waiters' \in Seq(JobIds)
      BY <1>2 DEF StartWaiting, TypeOK
    <3>. QED
      BY <1>2, <3>1, <3>2, CounterMove DEF StartWaiting, Stages
  <2>3. UNCHANGED jobs /\ jobs[id] \in JobRecord
    BY <1>2, <2>1 DEF StartWaiting, TypeOK
  <2>. QED
    BY <2>1, <2>2, <2>3, TaskMovePreserves DEF Stages, LiveStages
<1>3. ASSUME Resume(id) PROVE IInv'
  <2>1. Record("running", "none", "none") \in JobRecord
    BY RecordType DEF ActiveStatuses
  <2>2. task[id] = "granted" /\ id \in DOMAIN jobs /\ jobs[id].status = "queued"
    BY <1>3 DEF Resume, RecordFollowsTask
  <2>3. waiters' \in Seq(JobIds)
    BY <1>3, LeaveQueueType DEF Resume
  <2>4. PICK limit \in {IF free = 0 THEN 0 ELSE 1, free} :
            HandOver([task EXCEPT ![id] = "searching"], free, limit)
    BY <1>3 DEF Resume, WakeOthers
  <2>5. free \in Nat /\ limit \in 0..free
    BY <2>4 DEF TypeOK
  <2>6. TaskMove(id, "searching")
    <3>1. free = free + Slots(task[id]) - Slots("searching")
      BY <2>2, <2>5 DEF Slots
    <3>. QED
      BY <1>3, <2>2, <2>3, <2>4, <2>5, <3>1, HandOverMove DEF Resume, Stages, LiveStages
  <2>7. StoreStep(id, Record("running", "none", "none"))
    BY <1>3 DEF Resume, MarkRunning, StoreStep, ActiveStatuses, TerminalStatuses
  <2>8. id \in DOMAIN jobs' /\ jobs'[id].status = "running"
    BY <1>3, <2>2, PurgedKeepsActive, TransitionEffect
       DEF Resume, MarkRunning, Record, IsTerminal, TerminalStatuses
  <2>. QED
    BY <2>1, <2>2, <2>6, <2>7, <2>8, TaskMovePreserves DEF Stages, LiveStages
<1>4. ASSUME SearchReturns(id) PROVE IInv'
  <2>1. Record("completed", "offers", "none") \in JobRecord
    BY RecordType DEF TerminalStatuses
  <2>2. task[id] = "searching" /\ id \in DOMAIN jobs /\ jobs[id].status = "running"
    BY <1>4 DEF SearchReturns, RecordFollowsTask
  <2>3. HandOver([task EXCEPT ![id] = "ended"], free + 1, 1)
    BY <1>4 DEF SearchReturns, Release
  <2>4. TaskMove(id, "ended")
    <3>1. free + 1 = free + Slots(task[id]) - Slots("ended")
      BY <1>4 DEF SearchReturns, Slots, TypeOK
    <3>2. free + 1 \in Nat /\ 1 \in 0..(free + 1)
      BY DEF TypeOK
    <3>. QED
      BY <1>4, <2>2, <2>3, <3>1, <3>2, HandOverMove DEF SearchReturns, TypeOK, Stages, LiveStages
  <2>5. StoreStep(id, Record("completed", "offers", "none"))
    BY <1>4 DEF SearchReturns, MarkCompleted, StoreStep, ActiveStatuses, TerminalStatuses
  <2>6. id \in DOMAIN jobs' => IsTerminal(jobs'[id])
    BY <1>4, <2>2, PurgedKeepsActive, TransitionEffect
       DEF SearchReturns, MarkCompleted, Record, IsTerminal, TerminalStatuses
  <2>. QED
    BY <2>1, <2>2, <2>4, <2>5, <2>6, TaskMovePreserves DEF Stages, LiveStages
<1>5. ASSUME NEW code \in FailureCodes, jobs' = MarkFailed(id, code),
             task[id] \in {"waiting", "granted", "searching"}, TaskMove(id, "ended")
      PROVE  IInv'
  <2>1. Record("failed", "none", code) \in JobRecord
    BY <1>5, RecordType DEF TerminalStatuses
  <2>2. id \in DOMAIN jobs /\ jobs[id].status \in ActiveStatuses
    BY <1>5 DEF RecordFollowsTask, ActiveStatuses
  <2>3. StoreStep(id, Record("failed", "none", code))
    BY <1>5 DEF MarkFailed, StoreStep, ActiveStatuses, TerminalStatuses
  <2>4. id \in DOMAIN jobs' => IsTerminal(jobs'[id])
    BY <1>5, <2>2, PurgedKeepsActive, TransitionEffect
       DEF MarkFailed, Record, IsTerminal, TerminalStatuses, ActiveStatuses
  <2>. QED
    BY <1>5, <2>1, <2>3, <2>4, TaskMovePreserves DEF Stages, LiveStages
<1>6. ASSUME SearchRaises(id) PROVE IInv'
  <2>1. PICK code \in FailureCodes : jobs' = MarkFailed(id, code)
    BY <1>6 DEF SearchRaises, FailureCodes
  <2>2. HandOver([task EXCEPT ![id] = "ended"], free + 1, 1)
    BY <1>6 DEF SearchRaises, Release
  <2>3. TaskMove(id, "ended")
    <3>1. free + 1 = free + Slots(task[id]) - Slots("ended")
      BY <1>6 DEF SearchRaises, Slots, TypeOK
    <3>2. free + 1 \in Nat /\ 1 \in 0..(free + 1)
      BY DEF TypeOK
    <3>. QED
      BY <1>6, <2>2, <3>1, <3>2, HandOverMove DEF SearchRaises, TypeOK, Stages, LiveStages
  <2>. QED
    BY <1>5, <1>6, <2>1, <2>3 DEF SearchRaises
<1>7. ASSUME CancelUnstarted(id) PROVE IInv'
  <2>1. task[id] = "created" /\ id \in DOMAIN jobs /\ jobs[id].status = "queued"
    BY <1>7 DEF CancelUnstarted, FirstCreated, RecordFollowsTask
  <2>2. TaskMove(id, "unstarted")
    <3>1. free' = free + Slots(task[id]) - Slots("unstarted")
      BY <1>7, <2>1 DEF CancelUnstarted, Slots, TypeOK
    <3>. QED
      BY <1>7, <3>1, CounterMove DEF CancelUnstarted, TypeOK, Stages
  <2>3. UNCHANGED jobs /\ jobs[id] \in JobRecord
    BY <1>7, <2>1 DEF CancelUnstarted, TypeOK
  <2>. QED
    BY <2>1, <2>2, <2>3, TaskMovePreserves DEF Stages, LiveStages
<1>8. ASSUME CancelWaiting(id) PROVE IInv'
  <2>1. TaskMove(id, "ended")
    <3>1. free' = free + Slots(task[id]) - Slots("ended")
      BY <1>8 DEF CancelWaiting, Slots, TypeOK
    <3>. QED
      BY <1>8, <3>1, CounterMove, LeaveQueueType DEF CancelWaiting, TypeOK, Stages
  <2>. QED
    BY <1>5, <1>8, <2>1 DEF CancelWaiting, FailureCodes
<1>9. ASSUME CancelGranted(id) PROVE IInv'
  <2>1. PICK limit \in {IF free + 1 = 0 THEN 0 ELSE 1, free + 1} :
            HandOver([task EXCEPT ![id] = "ended"], free + 1, limit)
    BY <1>9 DEF CancelGranted, WakeOthers
  <2>2. free \in Nat /\ limit \in 0..(free + 1)
    BY <2>1 DEF TypeOK
  <2>3. TaskMove(id, "ended")
    <3>1. free + 1 = free + Slots(task[id]) - Slots("ended")
      BY <1>9, <2>2 DEF CancelGranted, Slots
    <3>2. free + 1 \in Nat /\ 1 \in 0..(free + 1)
      BY DEF TypeOK
    <3>. QED
      BY <1>9, <2>1, <2>2, <3>1, <3>2, HandOverMove, LeaveQueueType
         DEF CancelGranted, Stages, LiveStages
  <2>. QED
    BY <1>5, <1>9, <2>3 DEF CancelGranted, FailureCodes
<1>10. ASSUME CancelSearching(id) PROVE IInv'
  <2>1. HandOver([task EXCEPT ![id] = "ended"], free + 1, 1)
    BY <1>10 DEF CancelSearching, Release
  <2>2. TaskMove(id, "ended")
    <3>1. free + 1 = free + Slots(task[id]) - Slots("ended")
      BY <1>10 DEF CancelSearching, Slots, TypeOK
    <3>2. free + 1 \in Nat /\ 1 \in 0..(free + 1)
      BY DEF TypeOK
    <3>. QED
      BY <1>10, <2>1, <3>1, <3>2, HandOverMove DEF CancelSearching, TypeOK, Stages, LiveStages
  <2>. QED
    BY <1>5, <1>10, <2>2 DEF CancelSearching, FailureCodes
<1>. QED
  BY <1>1, <1>2, <1>3, <1>4, <1>6, <1>7, <1>8, <1>9, <1>10 DEF TaskStep

\* submit: the store stays within its capacity, evicting or not, and the new
\* record is the next identifier's.
THEOREM SubmitIInv ==
    ASSUME IInv, ConstantsAssumption, Submit
    PROVE  IInv'
<1>. DEFINE id == issued + 1
            new == Record("queued", "none", "none")
<1>1. id \in JobIds /\ task[id] = "none" /\ id \notin DOMAIN jobs
  <2>1. id \in JobIds /\ id > issued
    BY ConstantsAssumption DEF Submit, IInv, TypeOK, JobIds, ConstantsAssumption
  <2>. QED
    BY <2>1 DEF IInv, FreshUnused, RecordFollowsTask
<1>2. new \in JobRecord
  BY RecordType DEF IInv, ActiveStatuses
<1>3. PICK gone \in SUBSET JobIds :
        /\ jobs' = Put(Without(Purged, gone), id, new)
        /\ \A other \in gone : other \in DOMAIN Purged /\ IsTerminal(jobs[other])
        /\ Cardinality(DOMAIN Purged \ gone) < MaxEntries
  <2>1. DOMAIN Purged \subseteq DOMAIN jobs /\ \A other \in DOMAIN Purged : Purged[other] = jobs[other]
    BY PurgedKeepsActive DEF IInv
  <2>2. IsFiniteSet(DOMAIN jobs) /\ Cardinality(DOMAIN jobs) \in Nat
    BY KeptFinite DEF IInv, TypeOK
  <2>3. IsFiniteSet(DOMAIN Purged) /\ Cardinality(DOMAIN Purged) \in Nat
    BY <2>1, KeptFinite DEF IInv, TypeOK
  <2>4. Cardinality(DOMAIN Purged) =< MaxEntries
    BY <2>1, <2>2, <2>3, FS_Subset, ConstantsAssumption
       DEF IInv, WithinCapacity, ConstantsAssumption
  <2>5. CASE HasRoom(Purged)
    <3>1. jobs' = Put(Purged, id, new)
      BY <2>5 DEF Submit, Create
    <3>2. Without(Purged, {}) = Purged /\ DOMAIN Purged \ {} = DOMAIN Purged
      BY DEF Purged, Without
    <3>. QED
      BY <3>1, <3>2, <2>5 DEF HasRoom
  <2>6. CASE ~HasRoom(Purged)
    <3>1. PICK victim \in OldestTerminal(Purged) :
            jobs' = Put(Without(Purged, {victim}), id, new)
      BY <2>6 DEF Submit, Create
    <3>2. victim \in DOMAIN Purged /\ IsTerminal(jobs[victim]) /\ victim \in JobIds
      BY <2>1 DEF OldestTerminal, IInv, TypeOK
    <3>3. Cardinality(DOMAIN Purged \ {victim}) = Cardinality(DOMAIN Purged) - 1
      BY <2>3, <3>2, FS_RemoveElement
    <3>4. Cardinality(DOMAIN Purged \ {victim}) < MaxEntries
      BY <2>3, <2>4, <3>3, ConstantsAssumption DEF ConstantsAssumption
    <3>. QED
      BY <3>1, <3>2, <3>4
  <2>. QED
    BY <2>5, <2>6
<1>4. DOMAIN jobs' = (DOMAIN Purged \ gone) \cup {id}
  BY <1>3 DEF Put, Without
<1>5. jobs'[id] = new /\ \A other \in DOMAIN jobs' \ {id} :
                            other \in DOMAIN jobs /\ jobs'[other] = jobs[other]
  BY <1>3, <1>4, PurgedKeepsActive DEF Put, Without, IInv
<1>6. \A other \in DOMAIN jobs : ~IsTerminal(jobs[other]) => other \in DOMAIN jobs'
  BY <1>3, <1>4, PurgedKeepsActive DEF IInv
<1>7. TypeOK'
  <2>1. DOMAIN jobs' \subseteq JobIds /\ \A other \in DOMAIN jobs' : jobs'[other] \in JobRecord
    BY <1>1, <1>2, <1>4, <1>5, PurgedKeepsActive DEF IInv, TypeOK
  <2>2. issued' \in 0..MaxJobs /\ task' \in [JobIds -> Stages]
    BY <1>1, ConstantsAssumption DEF IInv, TypeOK, Submit, Stages, ConstantsAssumption
  <2>. QED
    BY <2>1, <2>2 DEF IInv, TypeOK, Submit, JobIds
<1>8. FreshUnused'
  BY <1>1 DEF IInv, FreshUnused, Submit, TypeOK, JobIds
<1>9. ClosingCancelsAll' /\ NothingRunsAfterClose'
  BY DEF Submit, ClosingCancelsAll, NothingRunsAfterClose
<1>10. RecordFollowsTask'
  <2>. SUFFICES ASSUME NEW other \in JobIds
                PROVE  /\ task'[other] \in {"created", "waiting", "granted", "unstarted"} =>
                             other \in DOMAIN jobs' /\ jobs'[other].status = "queued"
                       /\ task'[other] = "searching" =>
                             other \in DOMAIN jobs' /\ jobs'[other].status = "running"
                       /\ task'[other] = "ended" =>
                             (other \in DOMAIN jobs' => IsTerminal(jobs'[other]))
                       /\ task'[other] = "none" => other \notin DOMAIN jobs'
    BY DEF RecordFollowsTask, IsTerminal
  <2>1. CASE other = id
    BY <2>1, <1>1, <1>4, <1>5 DEF Submit, IInv, TypeOK, Record
  <2>2. CASE other # id
    <3>1. task'[other] = task[other]
      BY <2>2 DEF Submit, IInv, TypeOK
    <3>2. other \in DOMAIN jobs' => other \in DOMAIN jobs /\ jobs'[other] = jobs[other]
      BY <2>2, <1>5
    <3>3. other \in DOMAIN jobs /\ jobs[other].status \in ActiveStatuses
             => other \in DOMAIN jobs'
      BY <1>6 DEF IsTerminal, TerminalStatuses, ActiveStatuses
    <3>. QED
      BY <3>1, <3>2, <3>3 DEF IInv, RecordFollowsTask, ActiveStatuses, IsTerminal
  <2>. QED
    BY <2>1, <2>2
<1>11. SlotsConserved'
  <2>1. SlotHolders' = SlotHolders
    BY <1>1 DEF SlotHolders, Submit, IInv, TypeOK
  <2>. QED
    BY <2>1 DEF IInv, SlotsConserved, Submit
<1>12. WithinCapacity'
  <2>1. IsFiniteSet(DOMAIN Purged \ gone) /\ Cardinality(DOMAIN Purged \ gone) \in Nat
    BY PurgedKeepsActive, KeptFinite DEF IInv, TypeOK
  <2>. DEFINE kept == DOMAIN Purged \ gone
  <2>2. Cardinality(DOMAIN jobs') =< Cardinality(DOMAIN Purged \ gone) + 1
    <3>1. Cardinality(kept \cup {id})
            = IF id \in kept THEN Cardinality(kept) ELSE Cardinality(kept) + 1
      BY <2>1, FS_AddElement
    <3>. HIDE DEF kept
    <3>2. Cardinality(kept \cup {id}) =< Cardinality(kept) + 1
      BY <2>1, <3>1 DEF kept
    <3>. QED
      BY <1>4, <3>2 DEF kept
  <2>3. Cardinality(DOMAIN jobs') \in Nat
    <3>1. DOMAIN jobs' \subseteq JobIds
      BY <1>7 DEF TypeOK, JobIds
    <3>. QED
      BY <3>1, KeptFinite DEF IInv
  <2>. QED
    BY <1>3, <2>1, <2>2, <2>3, ConstantsAssumption DEF WithinCapacity, ConstantsAssumption
<1>. QED
  BY <1>7, <1>8, <1>9, <1>10, <1>11, <1>12 DEF IInv

\* Steps that at most purge, and move only the clock or the life cycle.
LEMMA PurgePreserves ==
    ASSUME IInv, ConstantsAssumption,
           jobs' = Purged \/ UNCHANGED jobs,
           UNCHANGED <<issued, task, waiters, free>>,
           now' \in 0..Horizon, cancelled' \subseteq JobIds,
           lifecycle' \in {"open", "closing", "closed"},
           ClosingCancelsAll', NothingRunsAfterClose'
    PROVE  IInv'
<1>1. /\ DOMAIN jobs' \subseteq DOMAIN jobs
      /\ \A id \in DOMAIN jobs' : jobs'[id] = jobs[id]
      /\ \A id \in DOMAIN jobs : ~IsTerminal(jobs[id]) => id \in DOMAIN jobs'
  BY PurgedKeepsActive DEF IInv
<1>2. TypeOK'
  BY <1>1 DEF IInv, TypeOK
<1>3. FreshUnused' /\ SlotsConserved'
  BY DEF IInv, FreshUnused, SlotsConserved, SlotHolders
<1>4. RecordFollowsTask'
  <2>. SUFFICES ASSUME NEW id \in JobIds
                PROVE  /\ task[id] \in {"created", "waiting", "granted", "unstarted"} =>
                             id \in DOMAIN jobs' /\ jobs'[id].status = "queued"
                       /\ task[id] = "searching" =>
                             id \in DOMAIN jobs' /\ jobs'[id].status = "running"
                       /\ task[id] = "ended" =>
                             (id \in DOMAIN jobs' => IsTerminal(jobs'[id]))
                       /\ task[id] = "none" => id \notin DOMAIN jobs'
    BY DEF RecordFollowsTask, IsTerminal
  <2>. QED
    BY <1>1 DEF IInv, RecordFollowsTask, IsTerminal, TerminalStatuses
<1>5. WithinCapacity'
  <2>1. IsFiniteSet(DOMAIN jobs) /\ Cardinality(DOMAIN jobs) \in Nat
    BY KeptFinite DEF IInv, TypeOK
  <2>2. Cardinality(DOMAIN jobs') =< Cardinality(DOMAIN jobs) /\ Cardinality(DOMAIN jobs') \in Nat
    BY <1>1, <2>1, FS_Subset, KeptFinite DEF IInv, TypeOK
  <2>. QED
    BY <2>1, <2>2, ConstantsAssumption DEF IInv, WithinCapacity, ConstantsAssumption
<1>. QED
  BY <1>2, <1>3, <1>4, <1>5 DEF IInv

\* Every step of the system preserves the invariant.
THEOREM NextIInv ==
    ASSUME IInv, ConstantsAssumption, [Next]_vars
    PROVE  IInv'
<1>1. CASE Submit
  BY <1>1, SubmitIInv
<1>2. CASE SubmitRefused \/ Poll
  BY <1>2, PurgePreserves
     DEF SubmitRefused, Poll, IInv, TypeOK, ClosingCancelsAll, NothingRunsAfterClose
<1>3. CASE \E id \in JobIds : TaskStep(id)
  BY <1>3, TaskStepIInv
<1>4. CASE Close
  BY <1>4, PurgePreserves
     DEF Close, IInv, TypeOK, ClosingCancelsAll, NothingRunsAfterClose
<1>5. CASE CloseReturns
  BY <1>5, PurgePreserves
     DEF CloseReturns, IInv, TypeOK, ClosingCancelsAll, NothingRunsAfterClose
<1>6. CASE Tick
  BY <1>6, PurgePreserves, ConstantsAssumption
     DEF Tick, IInv, TypeOK, ClosingCancelsAll, NothingRunsAfterClose, ConstantsAssumption
<1>7. CASE UNCHANGED vars
  BY <1>7, PurgePreserves
     DEF vars, IInv, TypeOK, ClosingCancelsAll, NothingRunsAfterClose
<1>. QED
  BY <1>1, <1>2, <1>3, <1>4, <1>5, <1>6, <1>7 DEF Next

\* The invariant holds in every reachable state of the service and its store.
THEOREM InvariantHolds == Spec => []IInv
<1>1. Init => IInv
  BY InitIInv, ConstantsAssumption
<1>2. IInv /\ [Next]_vars => IInv'
  BY NextIInv, ConstantsAssumption
<1>. QED
  BY <1>1, <1>2, PTL DEF Spec

-----------------------------------------------------------------------------
(* First come, first served *)

\* The deque holds the jobs that wait for a slot or were handed one and have
\* not resumed, in the order of their submission.
LineSorted ==
    \A i, j \in DOMAIN waiters : i < j => waiters[i] < waiters[j]

InLine(id) == \E i \in DOMAIN waiters : waiters[i] = id

LineMembers ==
    \A id \in JobIds : InLine(id) <=> task[id] \in {"waiting", "granted"}

\* Only aclose cancels tasks, so while the service is open none is cancelled.
OpenUncancelled ==
    lifecycle = "open" => cancelled = {} /\ \A id \in JobIds : task[id] # "unstarted"

Completed(id) == id \in DOMAIN jobs /\ jobs[id].status = "completed"

\* Of two jobs the younger is never further on its way to a result.
Before(older, younger) ==
    /\ task[older] = "created" => task[younger] \in {"none", "created"}
    /\ task[older] = "unstarted" => task[younger] \in {"none", "created", "unstarted"}
    /\ task[older] = "waiting" => task[younger] \notin {"granted", "searching"}
    /\ task[older] = "granted" => task[younger] # "searching"
    /\ task[older] \in {"created", "waiting", "granted", "unstarted"} => ~Completed(younger)

StagesInOrder ==
    \A older, younger \in JobIds : older < younger => Before(older, younger)

LineInv ==
    /\ LineSorted
    /\ LineMembers
    /\ OpenUncancelled
    /\ StagesInOrder
    /\ NoIdleSlot

\* A live task is cancelled if and only if the service is closing, and then
\* nobody in the deque can be handed a slot.
LEMMA OpenOrCancelled ==
    ASSUME IInv, OpenUncancelled, NEW id \in JobIds, task[id] \in LiveStages
    PROVE  /\ id \notin cancelled =>
                 /\ lifecycle = "open"
                 /\ cancelled = {}
                 /\ \A other \in JobIds : task[other] # "unstarted"
           /\ id \in cancelled => PendingWaiters = {}
BY DEF IInv, ClosingCancelsAll, OpenUncancelled, PendingWaiters, PendingWaiter, LiveStages

\* The deque is a sequence of jobs.
LEMMA LineType ==
    ASSUME TypeOK
    PROVE  /\ Len(waiters) \in Nat
           /\ DOMAIN waiters = 1..Len(waiters)
           /\ \A i \in 1..Len(waiters) : waiters[i] \in JobIds
<1>1. waiters \in Seq(JobIds)
  BY DEF TypeOK
<1>. QED
  BY <1>1, LenProperties, ElementOfSeq

\* A handover skips nobody: of two pending waiters the older is handed a slot
\* if the younger is, and slots stay free only when nobody is left waiting.
LEMMA HandOverInOrder ==
    ASSUME TypeOK, ConstantsAssumption, LineSorted, LineMembers,
           NEW stage \in [JobIds -> Stages], NEW value \in Nat, NEW limit \in 0..value,
           limit = 0 => value = 0,
           HandOver(stage, value, limit)
    PROVE  /\ \A older, younger \in PendingWaiters :
                 older < younger /\ stage[younger] # "granted" /\ task'[younger] = "granted"
                    => task'[older] = "granted"
           /\ free' > 0 =>
                 \/ \A id \in PendingWaiters : task'[id] = "granted"
                 \/ \E id \in JobIds : task'[id] = "granted"
<1>1. PICK next \in SUBSET PendingWaiters :
        /\ FirstInLine(next)
        /\ Cardinality(next) =< limit
        /\ next # PendingWaiters => Cardinality(next) = limit
        /\ free' = value - Cardinality(next)
        /\ task' = [id \in JobIds |-> IF id \in next THEN "granted" ELSE stage[id]]
  BY DEF HandOver
<1>2. PendingWaiters \subseteq JobIds
  BY DEF PendingWaiters
<1>3. Len(waiters) \in Nat /\ DOMAIN waiters = 1..Len(waiters)
  BY LineType
<1>4. ASSUME NEW older \in PendingWaiters, NEW younger \in PendingWaiters,
             older < younger, stage[younger] # "granted", task'[younger] = "granted"
      PROVE  task'[older] = "granted"
  <2>1. younger \in next
    BY <1>1, <1>2, <1>4
  <2>2. InLine(older) /\ InLine(younger)
    BY <1>2 DEF LineMembers, PendingWaiters, PendingWaiter
  <2>3. PICK i, j \in DOMAIN waiters : waiters[i] = older /\ waiters[j] = younger
    BY <2>2 DEF InLine
  <2>4. older \in JobIds /\ younger \in JobIds /\ older \in Int /\ younger \in Int
    BY <1>2 DEF JobIds
  <2>5. ~(j =< i)
    BY <1>3, <1>4, <2>3, <2>4 DEF LineSorted
  <2>6. i \in 1..(j - 1)
    BY <1>3, <2>3, <2>5
  <2>7. older \in next
    BY <1>1, <2>1, <2>3, <2>6 DEF FirstInLine
  <2>. QED
    BY <1>1, <1>2, <2>7
<1>5. ASSUME free' > 0, NEW id \in PendingWaiters, task'[id] # "granted"
      PROVE  \E other \in JobIds : task'[other] = "granted"
  <2>1. next # PendingWaiters
    BY <1>1, <1>2, <1>5
  <2>2. next # {}
    <3>1. limit # 0
      BY <1>1, <1>5, <2>1
    <3>. QED
      BY <1>1, <2>1, <3>1, FS_EmptySet
  <2>. QED
    BY <1>1, <1>2, <2>2
<1>. QED
  BY <1>4, <1>5

\* Who leaves the deque leaves the others in it, in their order.
LEMMA LeavingKeepsLine ==
    ASSUME TypeOK, LineSorted, NEW id \in JobIds, LeaveQueue(id)
    PROVE  /\ LineSorted'
           /\ InLine(id)
           /\ \A other : InLine(other)' <=> InLine(other) /\ other # id
<1>. DEFINE len == Len(waiters)
<1>1. len \in Nat /\ DOMAIN waiters = 1..len /\ \A k \in 1..len : waiters[k] \in JobIds
  BY LineType
<1>2. PICK i \in 1..len :
        /\ waiters[i] = id
        /\ waiters' = SubSeq(waiters, 1, i - 1) \o SubSeq(waiters, i + 1, len)
  BY <1>1 DEF LeaveQueue
<1>. HIDE DEF len
<1>. DEFINE front == SubSeq(waiters, 1, i - 1)
            back == SubSeq(waiters, i + 1, len)
<1>3. waiters \in Seq(JobIds) /\ len = Len(waiters)
  BY DEF TypeOK, len
<1>4. /\ front \in Seq(JobIds)
      /\ Len(front) = i - 1
      /\ \A k \in 1..(i - 1) : front[k] = waiters[k]
  BY <1>1, <1>2, <1>3, SubSeqProperties
<1>5. /\ back \in Seq(JobIds)
      /\ Len(back) = len - i
      /\ \A k \in 1..(len - i) : back[k] = waiters[k + i]
  <2>1. i + 1 \in Int /\ len \in Int /\ \A k \in (i + 1)..len : waiters[k] \in JobIds
    BY <1>1, <1>2
  <2>2. /\ back \in Seq(JobIds)
        /\ Len(back) = IF i + 1 =< len THEN len - (i + 1) + 1 ELSE 0
        /\ \A k \in 1..(len - (i + 1) + 1) : back[k] = waiters[(i + 1) + k - 1]
    BY <2>1, SubSeqProperties
  <2>3. \A k \in 1..(len - i) : (i + 1) + k - 1 = k + i /\ k \in 1..(len - (i + 1) + 1)
    BY <1>1, <1>2
  <2>. QED
    BY <2>1, <2>2, <2>3
<1>6. waiters' = front \o back
  BY <1>2
<1>. HIDE DEF front, back
<1>7. /\ front \o back \in Seq(JobIds)
      /\ Len(front \o back) = Len(front) + Len(back)
      /\ \A k \in 1..(Len(front) + Len(back)) :
            (front \o back)[k] = IF k =< Len(front) THEN front[k] ELSE back[k - Len(front)]
  BY <1>4, <1>5, ConcatProperties
<1>8. Len(front) + Len(back) = len - 1
  BY <1>1, <1>2, <1>4, <1>5
<1>9. ASSUME NEW k \in 1..(len - 1), k < i
      PROVE  waiters'[k] = waiters[k]
  <2>1. k \in 1..(i - 1) /\ k =< Len(front)
    BY <1>1, <1>2, <1>4, <1>9
  <2>. QED
    BY <1>4, <1>6, <1>7, <1>8, <2>1
<1>10. ASSUME NEW k \in 1..(len - 1), ~(k < i)
       PROVE  waiters'[k] = waiters[k + 1]
  <2>1. /\ ~(k =< Len(front))
        /\ k - Len(front) = k - i + 1
        /\ k - i + 1 \in 1..(len - i)
        /\ (k - i + 1) + i = k + 1
    BY <1>1, <1>2, <1>4, <1>10
  <2>2. waiters'[k] = back[k - i + 1]
    BY <1>6, <1>7, <1>8, <2>1
  <2>. QED
    BY <1>5, <2>1, <2>2
<1>11. DOMAIN waiters' = 1..(len - 1)
  BY <1>6, <1>7, <1>8, LenProperties
<1>12. JobIds \subseteq Int
  BY DEF JobIds
<1>13. \A j, k \in 1..len : j < k => waiters[j] < waiters[k]
  BY <1>1 DEF LineSorted
<1>14. LineSorted'
  <2>. SUFFICES ASSUME NEW j \in 1..(len - 1), NEW k \in 1..(len - 1), j < k
                PROVE  waiters'[j] < waiters'[k]
    BY <1>11 DEF LineSorted
  <2>1. /\ j \in 1..len /\ k \in 1..len /\ j + 1 \in 1..len /\ k + 1 \in 1..len
        /\ j < k + 1 /\ j + 1 < k + 1
    BY <1>1
  <2>2. /\ waiters[j] < waiters[k]
        /\ waiters[j] < waiters[k + 1]
        /\ waiters[j + 1] < waiters[k + 1]
    BY <1>13, <2>1
  <2>3. CASE k < i
    BY <1>1, <1>2, <1>9, <2>2, <2>3
  <2>4. CASE ~(k < i) /\ j < i
    BY <1>9, <1>10, <2>2, <2>4
  <2>5. CASE ~(j < i)
    BY <1>1, <1>2, <1>10, <2>2, <2>5
  <2>. QED
    BY <2>3, <2>4, <2>5
<1>15. \A j \in 1..len : waiters[j] = id => j = i
  BY <1>1, <1>2, <1>12, <1>13
<1>16. ASSUME NEW other
       PROVE  InLine(other)' <=> InLine(other) /\ other # id
  <2>1. ASSUME NEW k \in 1..(len - 1), waiters'[k] = other
        PROVE  InLine(other) /\ other # id
    <3>1. k \in 1..len /\ k + 1 \in 1..len
      BY <1>1
    <3>2. CASE k < i
      BY <1>1, <1>2, <1>9, <1>15, <2>1, <3>1, <3>2 DEF InLine
    <3>3. CASE ~(k < i)
      <4>1. k + 1 # i
        BY <1>1, <1>2, <3>3
      <4>. QED
        BY <1>1, <1>10, <1>15, <2>1, <3>1, <3>3, <4>1 DEF InLine
    <3>. QED
      BY <3>2, <3>3
  <2>2. ASSUME NEW j \in 1..len, waiters[j] = other, other # id
        PROVE  \E k \in 1..(len - 1) : waiters'[k] = other
    <3>1. CASE j < i
      <4>1. j \in 1..(len - 1)
        BY <1>1, <1>2, <3>1
      <4>. QED
        BY <1>9, <2>2, <3>1, <4>1
    <3>2. CASE j > i
      <4>1. j - 1 \in 1..(len - 1) /\ ~(j - 1 < i) /\ (j - 1) + 1 = j
        BY <1>1, <1>2, <3>2
      <4>. QED
        BY <1>10, <2>2, <4>1
    <3>. QED
      BY <1>1, <1>2, <2>2, <3>1, <3>2
  <2>. QED
    BY <1>1, <1>11, <2>1, <2>2 DEF InLine
<1>. QED
  BY <1>1, <1>2, <1>14, <1>16 DEF InLine

\* A record that is settled completed is the record of a task that ended.
LEMMA CompletedEnded ==
    ASSUME IInv, NEW id \in JobIds, Completed(id)
    PROVE  task[id] = "ended"
BY DEF IInv, TypeOK, RecordFollowsTask, Completed, Stages

\* A transition completes no record but the one it is about.
LEMMA TransitionCompletes ==
    ASSUME TypeOK, NEW id \in JobIds, NEW from, NEW record,
           jobs' = Transition(id, from, record)
    PROVE  /\ \A other \in JobIds \ {id} : Completed(other)' => Completed(other)
           /\ record.status # "completed" /\ Completed(id)' => Completed(id)
BY PurgedKeepsActive, TransitionEffect DEF Completed

\* The order of any two jobs is kept if the others change no more than that
\* pending waiters are handed slots, older ones before younger ones.
LEMMA OrderKept ==
    ASSUME IInv, OpenUncancelled, StagesInOrder, NEW id \in JobIds,
           \A other \in JobIds \ {id} :
              \/ task'[other] = task[other]
              \/ other \in PendingWaiters /\ task'[other] = "granted",
           \A older, younger \in PendingWaiters \ {id} :
              older < younger /\ task'[younger] = "granted" => task'[older] = "granted",
           \A other \in JobIds \ {id} : Completed(other)' => Completed(other),
           \A older \in JobIds : older < id => Before(older, id)',
           \A younger \in JobIds : id < younger => Before(id, younger)'
    PROVE  StagesInOrder'
<1>. SUFFICES ASSUME NEW older \in JobIds \ {id}, NEW younger \in JobIds \ {id}, older < younger
              PROVE  Before(older, younger)'
  BY DEF StagesInOrder
<1>1. Before(older, younger)
  BY DEF StagesInOrder
<1>2. /\ \/ task'[older] = task[older]
         \/ task[older] = "waiting" /\ task'[older] = "granted"
      /\ \/ task'[younger] = task[younger]
         \/ task[younger] = "waiting" /\ task'[younger] = "granted"
  BY DEF PendingWaiters, PendingWaiter
<1>3. Completed(younger)' => Completed(younger)
  OBVIOUS
<1>4. ASSUME task'[older] = "waiting"
      PROVE  task'[younger] # "granted"
  <2>1. SUFFICES ASSUME task'[younger] = "granted"
                 PROVE  FALSE
    OBVIOUS
  <2>2. task[older] = "waiting" /\ task[younger] = "waiting" /\ younger \in PendingWaiters
    BY <1>1, <1>2, <1>4, <2>1 DEF Before
  <2>3. older \in PendingWaiters
    BY <2>2, OpenOrCancelled DEF PendingWaiters, PendingWaiter, LiveStages
  <2>. QED
    BY <1>4, <2>1, <2>2, <2>3
<1>. QED
  BY <1>1, <1>2, <1>3, <1>4 DEF Before

\* A task that gives a slot up, or resumes with the one it was handed, and
\* passes on what is free.
LEMMA HandOverKeeps ==
    ASSUME IInv, LineInv, ConstantsAssumption,
           NEW id \in JobIds, task[id] \in {"granted", "searching"},
           NEW stage \in {"searching", "ended"},
           NEW value \in Nat, NEW limit \in 0..value, limit = 0 => value = 0,
           HandOver([task EXCEPT ![id] = stage], value, limit),
           UNCHANGED <<cancelled, lifecycle>>,
           IF task[id] = "granted" THEN LeaveQueue(id) ELSE UNCHANGED waiters,
           \A other \in JobIds \ {id} : Completed(other)' => Completed(other),
           stage = "searching" \/ Completed(id)' =>
              \A older \in JobIds : older < id => task[older] \notin {"waiting", "granted"}
    PROVE  LineInv'
<1>. DEFINE next == [task EXCEPT ![id] = stage]
<1>1. /\ TypeOK /\ LineSorted /\ LineMembers /\ OpenUncancelled /\ StagesInOrder
      /\ next \in [JobIds -> Stages] /\ next[id] = stage
      /\ \A other \in JobIds \ {id} : next[other] = task[other]
  BY DEF IInv, TypeOK, LineInv, Stages
<1>2. HandOver(next, value, limit)
  OBVIOUS
<1>3. id \notin PendingWaiters /\ \A other \in PendingWaiters : next[other] = "waiting"
  BY <1>1 DEF PendingWaiters, PendingWaiter
<1>. HIDE DEF next
<1>4. \A other \in JobIds :
         \/ task'[other] = next[other]
         \/ other \in PendingWaiters /\ task'[other] = "granted"
  BY <1>1, <1>2, <1>3, HandOverEffect
<1>5. /\ task'[id] = stage
      /\ \A other \in JobIds \ {id} :
            \/ task'[other] = task[other]
            \/ other \in PendingWaiters /\ task[other] = "waiting" /\ task'[other] = "granted"
  BY <1>1, <1>3, <1>4
<1>6. /\ \A older, younger \in PendingWaiters :
            older < younger /\ next[younger] # "granted" /\ task'[younger] = "granted"
               => task'[older] = "granted"
      /\ free' > 0 => \/ \A other \in PendingWaiters : task'[other] = "granted"
                      \/ \E other \in JobIds : task'[other] = "granted"
  BY <1>1, <1>2, HandOverInOrder
<1>7. LineSorted' /\ LineMembers'
  <2>1. LineSorted' /\ \A other \in JobIds : InLine(other)' <=> InLine(other) /\ other # id
    <3>1. CASE task[id] = "granted"
      BY <1>1, <3>1, LeavingKeepsLine
    <3>2. CASE task[id] = "searching"
      <4>1. waiters' = waiters
        BY <3>2
      <4>2. ~InLine(id)
        BY <1>1, <3>2 DEF LineMembers
      <4>. QED
        BY <1>1, <4>1, <4>2 DEF LineSorted, InLine
    <3>. QED
      BY <3>1, <3>2
  <2>. QED
    BY <1>1, <1>5, <2>1 DEF LineMembers
<1>8. OpenUncancelled'
  BY <1>1, <1>5 DEF OpenUncancelled
<1>9. StagesInOrder'
  <2>1. ASSUME NEW older \in JobIds, older < id
        PROVE  Before(older, id)'
    <3>1. Before(older, id) /\ older # id
      BY <1>1, <2>1 DEF StagesInOrder, JobIds
    <3>2. task[older] \notin {"created", "unstarted"}
      BY <3>1 DEF Before
    <3>3. \/ task'[older] = task[older]
          \/ task[older] = "waiting" /\ task'[older] = "granted"
      BY <1>5, <3>1
    <3>. QED
      BY <1>5, <2>1, <3>2, <3>3 DEF Before
  <2>2. ASSUME NEW younger \in JobIds
        PROVE  Before(id, younger)'
    BY <1>5 DEF Before
  <2>. QED
    BY <1>1, <1>3, <1>5, <1>6, <2>1, <2>2, OrderKept
<1>10. NoIdleSlot'
  <2>. SUFFICES ASSUME free' > 0, NEW waiter \in JobIds,
                       task'[waiter] = "waiting", waiter \notin cancelled
                PROVE  \E other \in JobIds : task'[other] = "granted"
    BY DEF NoIdleSlot, PendingWaiters, PendingWaiter
  <2>1. waiter \in PendingWaiters
    BY <1>5 DEF PendingWaiters, PendingWaiter
  <2>. QED
    BY <1>6, <2>1
<1>. QED
  BY <1>7, <1>8, <1>9, <1>10 DEF LineInv

\* A step of a job's own task keeps the order.
LEMMA TaskStepLine ==
    ASSUME IInv, LineInv, ConstantsAssumption, NEW id \in JobIds, TaskStep(id)
    PROVE  LineInv'
<1>. USE DEF LineInv
<1>1. TypeOK /\ JobIds \subseteq Int /\ free \in Nat
  BY DEF IInv, TypeOK, JobIds
<1>2. /\ Len(waiters) \in Nat
      /\ DOMAIN waiters = 1..Len(waiters)
      /\ \A i \in DOMAIN waiters : waiters[i] \in JobIds
  BY <1>1, LineType
<1>3. \A other \in JobIds : other < id => Before(other, id) /\ other # id
  BY <1>1 DEF StagesInOrder
<1>4. \A other \in JobIds : id < other => Before(id, other) /\ other # id
  BY <1>1 DEF StagesInOrder
<1>5. \A other \in JobIds : other # id => other < id \/ id < other
  BY <1>1
<1>6. task[id] \in LiveStages /\ id \notin cancelled
         => /\ lifecycle = "open"
            /\ cancelled = {}
            /\ \A other \in JobIds : task[other] # "unstarted"
  BY OpenOrCancelled
<1>7. ASSUME StartAtOnce(id) PROVE LineInv'
  <2>1. /\ task' = [task EXCEPT ![id] = "searching"]
        /\ task[id] = "created" /\ id \notin cancelled
        /\ ~Locked
        /\ jobs' = MarkRunning(id)
        /\ UNCHANGED <<cancelled, waiters, lifecycle>>
    BY <1>7 DEF StartAtOnce, FirstCreated
  <2>2. /\ cancelled = {} /\ lifecycle = "open"
        /\ \A other \in JobIds : task[other] # "unstarted"
    BY <1>6, <2>1 DEF LiveStages
  <2>3. DOMAIN waiters = {}
    BY <2>1, <2>2 DEF Locked
  <2>4. \A other \in JobIds : task[other] \notin {"waiting", "granted"}
    BY <2>3 DEF LineMembers, InLine
  <2>5. \A other \in JobIds : other < id => task[other] # "created"
    BY <1>1, <1>7 DEF StartAtOnce, FirstCreated
  <2>6. \A other \in JobIds \ {id} : Completed(other)' => Completed(other)
    BY <1>1, <2>1, TransitionCompletes DEF MarkRunning
  <2>7. task'[id] = "searching" /\ \A other \in JobIds \ {id} : task'[other] = task[other]
    BY <1>1, <2>1 DEF TypeOK
  <2>8. LineSorted' /\ LineMembers'
    BY <2>1, <2>3, <2>4, <2>7 DEF LineSorted, LineMembers, InLine
  <2>9. OpenUncancelled'
    BY <2>1, <2>2, <2>7 DEF OpenUncancelled
  <2>10. StagesInOrder'
    <3>1. ASSUME NEW older \in JobIds, older < id
          PROVE  Before(older, id)'
      BY <1>3, <2>2, <2>4, <2>5, <2>7, <3>1 DEF Before
    <3>2. ASSUME NEW younger \in JobIds
          PROVE  Before(id, younger)'
      BY <2>7 DEF Before
    <3>3. PendingWaiters = {}
      BY <2>4 DEF PendingWaiters, PendingWaiter
    <3>. QED
      BY <2>6, <2>7, <3>1, <3>2, <3>3, OrderKept
  <2>11. NoIdleSlot'
    BY <2>4, <2>7 DEF NoIdleSlot, PendingWaiters, PendingWaiter
  <2>. QED
    BY <2>8, <2>9, <2>10, <2>11
<1>8. ASSUME StartWaiting(id) PROVE LineInv'
  <2>1. /\ task' = [task EXCEPT ![id] = "waiting"]
        /\ task[id] = "created" /\ id \notin cancelled
        /\ Locked
        /\ waiters' = Append(waiters, id)
        /\ UNCHANGED <<jobs, cancelled, free, lifecycle>>
    BY <1>8 DEF StartWaiting, FirstCreated
  <2>2. /\ cancelled = {} /\ lifecycle = "open"
        /\ \A other \in JobIds : task[other] # "unstarted"
    BY <1>6, <2>1 DEF LiveStages
  <2>3. task'[id] = "waiting" /\ \A other \in JobIds \ {id} : task'[other] = task[other]
    BY <1>1, <2>1 DEF TypeOK
  <2>4. \A i \in DOMAIN waiters : task[waiters[i]] \in {"waiting", "granted"} /\ waiters[i] < id
    <3>1. ASSUME NEW i \in DOMAIN waiters
          PROVE  task[waiters[i]] \in {"waiting", "granted"} /\ waiters[i] < id
      <4>1. waiters[i] \in JobIds /\ task[waiters[i]] \in {"waiting", "granted"}
        BY <1>2 DEF LineMembers, InLine
      <4>2. ~(id < waiters[i])
        BY <1>4, <2>1, <4>1 DEF Before
      <4>3. waiters[i] # id
        BY <2>1, <4>1
      <4>. QED
        BY <1>5, <4>1, <4>2, <4>3
    <3>. QED
      BY <3>1
  <2>5. /\ DOMAIN waiters' = 1..(Len(waiters) + 1)
        /\ \A i \in DOMAIN waiters : waiters'[i] = waiters[i]
        /\ waiters'[Len(waiters) + 1] = id
    <3>1. waiters \in Seq(JobIds)
      BY <1>1 DEF TypeOK
    <3>. QED
      BY <1>2, <2>1, <3>1, AppendProperties
  <2>6. LineSorted'
    <3>. SUFFICES ASSUME NEW i \in 1..(Len(waiters) + 1), NEW j \in 1..(Len(waiters) + 1), i < j
                  PROVE  waiters'[i] < waiters'[j]
      BY <2>5 DEF LineSorted
    <3>1. i \in DOMAIN waiters /\ (j \in DOMAIN waiters \/ j = Len(waiters) + 1)
      BY <1>2
    <3>. QED
      BY <2>4, <2>5, <3>1 DEF LineSorted
  <2>7. LineMembers'
    <3>1. InLine(id)'
      BY <1>2, <2>5 DEF InLine
    <3>2. ASSUME NEW other \in JobIds, other # id
          PROVE  InLine(other)' <=> InLine(other)
      BY <1>2, <2>5, <3>2 DEF InLine
    <3>. QED
      BY <2>3, <3>1, <3>2 DEF LineMembers
  <2>8. OpenUncancelled'
    BY <2>1, <2>2, <2>3 DEF OpenUncancelled
  <2>9. \A other \in JobIds : Completed(other)' => Completed(other)
    BY <2>1 DEF Completed
  <2>10. StagesInOrder'
    <3>1. ASSUME NEW older \in JobIds, older < id
          PROVE  Before(older, id)'
      <4>1. task[older] # "created"
        BY <1>1, <1>8, <3>1 DEF StartWaiting, FirstCreated
      <4>. QED
        BY <1>3, <2>2, <2>3, <2>9, <3>1, <4>1 DEF Before
    <3>2. ASSUME NEW younger \in JobIds, id < younger
          PROVE  Before(id, younger)'
      BY <1>4, <2>1, <2>3, <2>9, <3>2 DEF Before
    <3>3. \A other \in PendingWaiters \ {id} : task'[other] # "granted"
      BY <2>3 DEF PendingWaiters, PendingWaiter
    <3>. QED
      BY <2>3, <2>9, <3>1, <3>2, <3>3, OrderKept
  <2>11. NoIdleSlot'
    <3>. SUFFICES ASSUME free > 0
                  PROVE  \E other \in JobIds : task'[other] = "granted"
      BY <2>1 DEF NoIdleSlot
    <3>1. PICK i \in DOMAIN waiters : task[waiters[i]] # "waiting" \/ waiters[i] \notin cancelled
      BY <1>1, <2>1 DEF Locked
    <3>2. waiters[i] \in JobIds /\ (task[waiters[i]] = "granted" \/ waiters[i] \in PendingWaiters)
      BY <1>2, <2>4, <3>1 DEF PendingWaiters, PendingWaiter
    <3>3. PICK other \in JobIds : task[other] = "granted"
      BY <3>2 DEF NoIdleSlot
    <3>. QED
      BY <2>1, <2>3, <3>3
  <2>. QED
    BY <2>6, <2>7, <2>8, <2>10, <2>11
<1>9. ASSUME Resume(id) PROVE LineInv'
  <2>1. /\ task[id] = "granted" /\ id \notin cancelled
        /\ LeaveQueue(id)
        /\ jobs' = MarkRunning(id)
        /\ UNCHANGED <<cancelled, lifecycle>>
    BY <1>9 DEF Resume
  <2>2. PICK limit \in {IF free = 0 THEN 0 ELSE 1, free} :
            HandOver([task EXCEPT ![id] = "searching"], free, limit)
    BY <1>9 DEF Resume, WakeOthers
  <2>3. limit \in 0..free /\ (limit = 0 => free = 0)
    BY <1>1, <2>2
  <2>4. \A other \in JobIds \ {id} : Completed(other)' => Completed(other)
    BY <1>1, <2>1, TransitionCompletes DEF MarkRunning
  <2>5. ASSUME NEW older \in JobIds, older < id
        PROVE  task[older] \notin {"waiting", "granted"}
    <3>1. task[older] # "waiting"
      BY <1>3, <2>1, <2>5 DEF Before
    <3>2. ASSUME task[older] = "granted"
          PROVE  FALSE
      <4>1. PICK i \in DOMAIN waiters :
              waiters[i] = id /\ \A j \in 1..(i - 1) : task[waiters[j]] # "granted"
        BY <1>9 DEF Resume
      <4>2. PICK j \in DOMAIN waiters : waiters[j] = older
        BY <3>2 DEF LineMembers, InLine
      <4>3. ~(i =< j)
        BY <1>1, <1>2, <2>5, <4>1, <4>2 DEF LineSorted
      <4>4. j \in 1..(i - 1)
        BY <1>2, <4>1, <4>2, <4>3
      <4>. QED
        BY <3>2, <4>1, <4>2, <4>4
    <3>. QED
      BY <3>1, <3>2
  <2>. QED
    BY <1>1, <2>1, <2>2, <2>3, <2>4, <2>5, HandOverKeeps
<1>10. ASSUME task[id] = "searching", Release([task EXCEPT ![id] = "ended"]),
              UNCHANGED <<cancelled, waiters, lifecycle>>,
              \A other \in JobIds \ {id} : Completed(other)' => Completed(other)
       PROVE  LineInv'
  <2>1. HandOver([task EXCEPT ![id] = "ended"], free + 1, 1)
    BY <1>10 DEF Release
  <2>2. free + 1 \in Nat /\ 1 \in 0..(free + 1)
    BY <1>1
  <2>3. \A older \in JobIds : older < id => task[older] \notin {"waiting", "granted"}
    BY <1>3, <1>10 DEF Before
  <2>4. task[id] \in {"granted", "searching"} /\ task[id] # "granted"
    BY <1>10
  <2>5. IF task[id] = "granted" THEN LeaveQueue(id) ELSE UNCHANGED waiters
    BY <1>10, <2>4
  <2>. DEFINE value == free + 1
  <2>6. value \in Nat /\ HandOver([task EXCEPT ![id] = "ended"], value, 1) /\ 1 \in 0..value
    BY <2>1, <2>2
  <2>7. /\ UNCHANGED <<cancelled, lifecycle>>
        /\ \A other \in JobIds \ {id} : Completed(other)' => Completed(other)
    BY <1>10
  <2>8. \E limit \in 0..value :
           limit # 0 /\ HandOver([task EXCEPT ![id] = "ended"], value, limit)
    BY <2>6
  <2>. HIDE DEF value
  <2>. QED
    BY <2>3, <2>4, <2>5, <2>6, <2>7, <2>8, HandOverKeeps
<1>11. ASSUME SearchReturns(id) PROVE LineInv'
  <2>1. \A other \in JobIds \ {id} : Completed(other)' => Completed(other)
    BY <1>1, <1>11, TransitionCompletes DEF SearchReturns, MarkCompleted
  <2>. QED
    BY <1>10, <1>11, <2>1 DEF SearchReturns
<1>12. ASSUME NEW code \in FailureCodes, jobs' = MarkFailed(id, code)
       PROVE  /\ \A other \in JobIds \ {id} : Completed(other)' => Completed(other)
              /\ Completed(id)' => Completed(id)
  BY <1>1, <1>12, TransitionCompletes DEF MarkFailed, Record
<1>13. ASSUME SearchRaises(id) PROVE LineInv'
  <2>1. \A other \in JobIds \ {id} : Completed(other)' => Completed(other)
    BY <1>12, <1>13 DEF SearchRaises, FailureCodes
  <2>. QED
    BY <1>10, <1>13, <2>1 DEF SearchRaises
<1>14. ASSUME CancelSearching(id) PROVE LineInv'
  <2>1. \A other \in JobIds \ {id} : Completed(other)' => Completed(other)
    BY <1>12, <1>14 DEF CancelSearching, FailureCodes
  <2>. QED
    BY <1>10, <1>14, <2>1 DEF CancelSearching
<1>15. ASSUME CancelGranted(id) PROVE LineInv'
  <2>1. /\ task[id] = "granted"
        /\ LeaveQueue(id)
        /\ jobs' = MarkFailed(id, "search_cancelled")
        /\ UNCHANGED <<cancelled, lifecycle>>
    BY <1>15 DEF CancelGranted
  <2>2. PICK limit \in {IF free + 1 = 0 THEN 0 ELSE 1, free + 1} :
            HandOver([task EXCEPT ![id] = "ended"], free + 1, limit)
    BY <1>15 DEF CancelGranted, WakeOthers
  <2>3. free + 1 \in Nat /\ limit \in 0..(free + 1) /\ limit # 0
    BY <1>1, <2>2
  <2>4. /\ \A other \in JobIds \ {id} : Completed(other)' => Completed(other)
        /\ ~Completed(id)'
    BY <1>12, <2>1, CompletedEnded DEF FailureCodes
  <2>. QED
    BY <2>1, <2>2, <2>3, <2>4, HandOverKeeps
<1>16. ASSUME CancelUnstarted(id) PROVE LineInv'
  <2>1. /\ task' = [task EXCEPT ![id] = "unstarted"]
        /\ task[id] = "created" /\ id \in cancelled
        /\ UNCHANGED <<jobs, cancelled, waiters, free, lifecycle>>
    BY <1>16 DEF CancelUnstarted, FirstCreated
  <2>2. task'[id] = "unstarted" /\ \A other \in JobIds \ {id} : task'[other] = task[other]
    BY <1>1, <2>1 DEF TypeOK
  <2>3. LineSorted' /\ LineMembers'
    BY <2>1, <2>2 DEF LineSorted, LineMembers, InLine
  <2>4. OpenUncancelled'
    BY <2>1 DEF OpenUncancelled
  <2>5. \A other \in JobIds : Completed(other)' => Completed(other)
    BY <2>1 DEF Completed
  <2>6. StagesInOrder'
    <3>1. ASSUME NEW older \in JobIds, older < id
          PROVE  Before(older, id)'
      <4>1. task[older] # "created"
        BY <1>1, <1>16, <3>1 DEF CancelUnstarted, FirstCreated
      <4>. QED
        BY <1>3, <2>2, <2>5, <3>1, <4>1 DEF Before
    <3>2. ASSUME NEW younger \in JobIds, id < younger
          PROVE  Before(id, younger)'
      BY <1>4, <2>1, <2>2, <2>5, <3>2 DEF Before
    <3>3. \A other \in PendingWaiters \ {id} : task'[other] # "granted"
      BY <2>2 DEF PendingWaiters, PendingWaiter
    <3>. QED
      BY <2>2, <2>5, <3>1, <3>2, <3>3, OrderKept
  <2>7. NoIdleSlot'
    BY <2>1, <2>2 DEF NoIdleSlot, PendingWaiters, PendingWaiter
  <2>. QED
    BY <2>3, <2>4, <2>6, <2>7
<1>17. ASSUME CancelWaiting(id) PROVE LineInv'
  <2>1. /\ task' = [task EXCEPT ![id] = "ended"]
        /\ task[id] = "waiting" /\ id \in cancelled
        /\ LeaveQueue(id)
        /\ jobs' = MarkFailed(id, "search_cancelled")
        /\ UNCHANGED <<cancelled, free, lifecycle>>
    BY <1>17 DEF CancelWaiting
  <2>2. task'[id] = "ended" /\ \A other \in JobIds \ {id} : task'[other] = task[other]
    BY <1>1, <2>1 DEF TypeOK
  <2>3. LineSorted' /\ \A other \in JobIds : InLine(other)' <=> InLine(other) /\ other # id
    BY <1>1, <2>1, LeavingKeepsLine
  <2>4. LineMembers'
    BY <2>2, <2>3 DEF LineMembers
  <2>5. OpenUncancelled'
    BY <2>1 DEF OpenUncancelled
  <2>6. /\ \A other \in JobIds \ {id} : Completed(other)' => Completed(other)
        /\ ~Completed(id)'
    BY <1>12, <2>1, CompletedEnded DEF FailureCodes
  <2>7. StagesInOrder'
    <3>1. ASSUME NEW older \in JobIds, older < id
          PROVE  Before(older, id)'
      BY <1>3, <2>1, <2>2, <2>6, <3>1 DEF Before
    <3>2. ASSUME NEW younger \in JobIds
          PROVE  Before(id, younger)'
      BY <2>2 DEF Before
    <3>3. \A other \in PendingWaiters \ {id} : task'[other] # "granted"
      BY <2>2 DEF PendingWaiters, PendingWaiter
    <3>. QED
      BY <2>2, <2>6, <3>1, <3>2, <3>3, OrderKept
  <2>8. NoIdleSlot'
    BY <2>1, <2>2 DEF NoIdleSlot, PendingWaiters, PendingWaiter
  <2>. QED
    BY <2>3, <2>4, <2>5, <2>7, <2>8
<1>. QED
  BY <1>7, <1>8, <1>9, <1>11, <1>13, <1>14, <1>15, <1>16, <1>17 DEF TaskStep

\* The other steps: the newest job starts out behind all others, and the rest
\* moves no task.
LEMMA NextLine ==
    ASSUME IInv, LineInv, ConstantsAssumption, [Next]_vars
    PROVE  LineInv'
<1>. USE DEF LineInv
<1>1. TypeOK
  BY DEF IInv
<1>2. ASSUME UNCHANGED <<task, waiters, free>>,
             \A id \in JobIds : Completed(id)' => Completed(id),
             OpenUncancelled', cancelled \subseteq cancelled'
      PROVE  LineInv'
  <2>1. LineSorted' /\ LineMembers'
    BY <1>2 DEF LineSorted, LineMembers, InLine
  <2>2. StagesInOrder'
    BY <1>2 DEF StagesInOrder, Before
  <2>3. NoIdleSlot'
    BY <1>2 DEF NoIdleSlot, PendingWaiters, PendingWaiter
  <2>. QED
    BY <1>2, <2>1, <2>2, <2>3
<1>3. CASE Submit
  <2>. PICK id \in JobIds :
          /\ id = issued + 1
          /\ id > issued /\ \A other \in JobIds : id < other => other > issued
    BY <1>1, <1>3, ConstantsAssumption DEF Submit, TypeOK, JobIds, ConstantsAssumption
  <2>1. task[id] = "none" /\ \A other \in JobIds : id < other => task[other] = "none"
    BY DEF IInv, FreshUnused
  <2>2. /\ task' = [task EXCEPT ![id] = "created"]
        /\ lifecycle = "open"
        /\ UNCHANGED <<cancelled, waiters, free, lifecycle>>
    BY <1>3 DEF Submit
  <2>3. task'[id] = "created" /\ \A other \in JobIds \ {id} : task'[other] = task[other]
    BY <1>1, <2>1, <2>2 DEF TypeOK
  <2>4. \A other \in JobIds : Completed(other)' => Completed(other)
    <3>1. PICK gone : jobs' = Put(Without(Purged, gone), id, Record("queued", "none", "none"))
      <4>1. Without(Purged, {}) = Purged
        BY DEF Purged, Without
      <4>. QED
        BY <1>3, <4>1 DEF Submit, Create
    <3>. QED
      BY <1>1, <3>1, PurgedKeepsActive DEF Put, Without, Completed, Record
  <2>5. LineSorted' /\ LineMembers'
    BY <2>1, <2>2, <2>3 DEF LineSorted, LineMembers, InLine
  <2>6. OpenUncancelled'
    BY <2>2, <2>3 DEF OpenUncancelled
  <2>7. StagesInOrder'
    <3>1. ASSUME NEW older \in JobIds, older < id
          PROVE  Before(older, id)'
      <4>1. older # id /\ ~Completed(id)
        BY <2>1, <3>1, <1>1, CompletedEnded DEF JobIds
      <4>2. task'[older] # "unstarted"
        BY <2>2, <2>3, <4>1 DEF OpenUncancelled
      <4>. QED
        BY <2>3, <2>4, <4>1, <4>2 DEF Before
    <3>2. ASSUME NEW younger \in JobIds, id < younger
          PROVE  Before(id, younger)'
      <4>1. younger # id /\ ~Completed(younger)
        BY <2>1, <3>2, <1>1, CompletedEnded DEF JobIds
      <4>. QED
        BY <2>1, <2>3, <2>4, <3>2, <4>1 DEF Before
    <3>3. \A other \in PendingWaiters \ {id} : task'[other] # "granted"
      BY <2>3 DEF PendingWaiters, PendingWaiter
    <3>. QED
      BY <2>1, <2>3, <2>4, <3>1, <3>2, <3>3, OrderKept
  <2>8. NoIdleSlot'
    BY <2>1, <2>2, <2>3 DEF NoIdleSlot, PendingWaiters, PendingWaiter
  <2>. QED
    BY <2>5, <2>6, <2>7, <2>8
<1>4. CASE SubmitRefused \/ Poll
  <2>1. \A id \in JobIds : Completed(id)' => Completed(id)
    BY <1>1, <1>4, PurgedKeepsActive DEF SubmitRefused, Poll, Completed
  <2>. QED
    BY <1>2, <1>4, <2>1 DEF SubmitRefused, Poll, OpenUncancelled
<1>5. CASE \E id \in JobIds : TaskStep(id)
  BY <1>5, TaskStepLine
<1>6. CASE Close
  <2>1. cancelled = {} /\ UNCHANGED <<jobs, task, waiters, free>> /\ lifecycle' = "closing"
    BY <1>6 DEF Close, OpenUncancelled
  <2>. QED
    BY <1>2, <2>1 DEF OpenUncancelled, Completed
<1>7. CASE CloseReturns
  BY <1>2, <1>7 DEF CloseReturns, OpenUncancelled, Completed
<1>8. CASE Tick \/ UNCHANGED vars
  BY <1>2, <1>8 DEF Tick, vars, OpenUncancelled, Completed
<1>. QED
  BY <1>3, <1>4, <1>5, <1>6, <1>7, <1>8 DEF Next

\* An empty service is in order.
LEMMA InitLine == ConstantsAssumption /\ Init => LineInv
<1>. SUFFICES ASSUME Init PROVE LineInv
  OBVIOUS
<1>1. DOMAIN waiters = {}
  BY DEF Init
<1>2. \A id \in JobIds : task[id] = "none"
  BY DEF Init
<1>. QED
  BY <1>1, <1>2 DEF Init, LineInv, LineSorted, LineMembers, InLine, OpenUncancelled,
     StagesInOrder, Before, NoIdleSlot, PendingWaiters, PendingWaiter

\* The order holds in every reachable state.
THEOREM LineInvariance == Spec => [](IInv /\ LineInv)
<1>1. Init => IInv /\ LineInv
  BY InitIInv, InitLine, ConstantsAssumption
<1>2. IInv /\ LineInv /\ [Next]_vars => (IInv /\ LineInv)'
  BY NextIInv, NextLine, ConstantsAssumption
<1>. QED
  BY <1>1, <1>2, PTL DEF Spec

-----------------------------------------------------------------------------
(* The theorems a reader wants *)

\* The variables keep their types.
THEOREM TypeCorrect == Spec => []TypeOK
BY InvariantHolds, PTL DEF IInv

\* A record is always exactly as far as its task: the transitions of a task
\* find the record where they expect it, and no finished search is lost.
THEOREM RecordsFollowTasks == Spec => []RecordFollowsTask
BY InvariantHolds, PTL DEF IInv

\* No path through a job, cancelled or not, leaks or invents a slot.
THEOREM NoSlotIsLost == Spec => []SlotsConserved
BY InvariantHolds, PTL DEF IInv

\* The store never outgrows its capacity.
THEOREM StoreIsBounded == Spec => []WithinCapacity
BY InvariantHolds, PTL DEF IInv

\* After aclose returned no job's task is left.
THEOREM CloseIsFinal == Spec => []NothingRunsAfterClose
BY InvariantHolds, PTL DEF IInv

\* A free slot that a job waits for is about to be passed on: no wakeup is
\* lost, whatever is cancelled and in whatever order jobs end.
THEOREM SlotsDoNotIdle == Spec => []NoIdleSlot
BY LineInvariance, PTL DEF LineInv

\* Jobs are served in the order of their submission.
THEOREM FirstComeFirstServed == Spec => []StartsInOrder
<1>1. IInv /\ LineInv => StartsInOrder
  <2>. SUFFICES ASSUME IInv, LineInv,
                       NEW older \in DOMAIN jobs, NEW younger \in DOMAIN jobs,
                       older < younger, jobs[older].status = "queued"
                PROVE  jobs[younger].status \notin {"running", "completed"}
    BY DEF StartsInOrder
  <2>1. older \in JobIds /\ younger \in JobIds /\ task \in [JobIds -> Stages]
    BY DEF IInv, TypeOK
  <2>2. task[older] \in {"created", "waiting", "granted", "unstarted"}
    BY <2>1 DEF IInv, RecordFollowsTask, Stages, IsTerminal, TerminalStatuses
  <2>3. Before(older, younger)
    BY <2>1 DEF LineInv, StagesInOrder
  <2>4. jobs[younger].status = "running" => task[younger] = "searching"
    BY <2>1 DEF IInv, RecordFollowsTask, Stages, IsTerminal, TerminalStatuses
  <2>. QED
    BY <2>2, <2>3, <2>4 DEF Before, Completed
<1>. QED
  BY <1>1, LineInvariance, PTL

-----------------------------------------------------------------------------
(* What a step may do to the store, and from it: records leave in order,   *)
(* settled records are final, and the service implements the life cycle     *)
(* promised to its clients (SearchJobLifecycle).                            *)

\* What a record says, by status: SearchJobStatusResponse refuses the rest.
WellFormed(record) ==
    \/ /\ record.status \in ActiveStatuses
       /\ record.result = "none"
       /\ record.error = "none"
    \/ /\ record.status = "completed"
       /\ record.result = "offers"
       /\ record.error = "none"
    \/ /\ record.status = "failed"
       /\ record.result = "none"
       /\ record.error \in FailureCodes

RecordsWellFormed == \A id \in DOMAIN jobs : WellFormed(jobs[id])

-----------------------------------------------------------------------------
(* Every step does one of four things to the store. *)

Purges == jobs' \in {jobs, Purged}

\* The record of one job moves on: from an active state to a later one.
MovesOn(id, from, record) ==
    /\ from \subseteq ActiveStatuses
    /\ jobs' = Transition(id, from, record)
    /\ record.expires = now + Ttl
    /\ WellFormed(record)
    /\ record.status # "queued"
    /\ record.status = "running" => from = {"queued"}
    /\ record.status = "completed" => from = {"running"}

\* A new record, for which gone made room.
Admits(gone, record) ==
    /\ jobs' = Put(Without(Purged, gone), issued + 1, record)
    /\ issued' = issued + 1
    /\ issued + 1 \in JobIds
    /\ record = Record("queued", "none", "none")
    /\ gone \subseteq OldestTerminal(Purged)
    /\ gone # {} => ~HasRoom(Purged)
    /\ \A one, other \in gone : one = other

StoreEffect ==
    \/ /\ Purges
       /\ issued' = issued
       /\ \/ now' = now
          \/ now' = now + 1 /\ jobs' = jobs
    \/ /\ now' = now
       /\ issued' = issued
       /\ \E id \in JobIds, from \in SUBSET ActiveStatuses, record \in JobRecord :
             MovesOn(id, from, record)
    \/ /\ now' = now
       /\ \E gone \in SUBSET JobIds, record \in JobRecord : Admits(gone, record)

\* A failure of any code is a move from an active state.
LEMMA MarkFailedMoves ==
    ASSUME IInv, ConstantsAssumption, NEW id \in JobIds, NEW code \in FailureCodes,
           jobs' = MarkFailed(id, code)
    PROVE  MovesOn(id, ActiveStatuses, Record("failed", "none", code))
BY DEF MovesOn, MarkFailed, WellFormed, Record, ActiveStatuses

\* The step of a task purges, or moves the record of its job on.
LEMMA TaskStepEffect ==
    ASSUME IInv, ConstantsAssumption, NEW id \in JobIds, TaskStep(id)
    PROVE  StoreEffect
<1>1. now' = now /\ issued' = issued
  BY DEF TaskStep, StartAtOnce, StartWaiting, Resume, SearchReturns, SearchRaises,
         CancelUnstarted, CancelWaiting, CancelGranted, CancelSearching
<1>2. TypeOK
  BY DEF IInv
<1>3. CASE StartAtOnce(id) \/ Resume(id)
  <2>1. MovesOn(id, {"queued"}, Record("running", "none", "none"))
    BY <1>3 DEF StartAtOnce, Resume, MarkRunning, MovesOn, WellFormed, Record, ActiveStatuses
  <2>2. Record("running", "none", "none") \in JobRecord
    BY <1>2, RecordType DEF ActiveStatuses
  <2>. QED
    BY <1>1, <2>1, <2>2 DEF StoreEffect, ActiveStatuses
<1>4. CASE SearchReturns(id)
  <2>1. MovesOn(id, {"running"}, Record("completed", "offers", "none"))
    BY <1>4 DEF SearchReturns, MarkCompleted, MovesOn, WellFormed, Record, ActiveStatuses
  <2>2. Record("completed", "offers", "none") \in JobRecord
    BY <1>2, RecordType DEF TerminalStatuses
  <2>. QED
    BY <1>1, <2>1, <2>2 DEF StoreEffect, ActiveStatuses
<1>5. CASE StartWaiting(id) \/ CancelUnstarted(id)
  BY <1>1, <1>5 DEF StartWaiting, CancelUnstarted, StoreEffect, Purges
<1>6. CASE SearchRaises(id) \/ CancelWaiting(id) \/ CancelGranted(id) \/ CancelSearching(id)
  <2>1. PICK code \in FailureCodes : jobs' = MarkFailed(id, code)
    BY <1>6 DEF SearchRaises, CancelWaiting, CancelGranted, CancelSearching, FailureCodes
  <2>2. MovesOn(id, ActiveStatuses, Record("failed", "none", code))
    BY <2>1, MarkFailedMoves
  <2>3. Record("failed", "none", code) \in JobRecord
    BY <1>2, RecordType DEF TerminalStatuses
  <2>. QED
    BY <1>1, <2>2, <2>3 DEF StoreEffect
<1>. QED
  BY <1>3, <1>4, <1>5, <1>6 DEF TaskStep

\* Every step has such an effect.
LEMMA StepEffect ==
    ASSUME IInv, ConstantsAssumption, [Next]_vars
    PROVE  StoreEffect
<1>1. CASE Submit
  <2>1. TypeOK
    BY DEF IInv
  <2>2. Record("queued", "none", "none") \in JobRecord
    BY <2>1, RecordType DEF ActiveStatuses
  <2>3. issued + 1 \in JobIds /\ now' = now /\ issued' = issued + 1
    BY <1>1, <2>1, ConstantsAssumption DEF Submit, TypeOK, JobIds, ConstantsAssumption
  <2>4. CASE HasRoom(Purged)
    <3>1. jobs' = Put(Purged, issued + 1, Record("queued", "none", "none"))
      BY <1>1, <2>4 DEF Submit, Create
    <3>2. Without(Purged, {}) = Purged
      BY DEF Purged, Without
    <3>3. Admits({}, Record("queued", "none", "none"))
      BY <2>3, <3>1, <3>2 DEF Admits
    <3>. QED
      BY <2>2, <2>3, <3>3 DEF StoreEffect
  <2>5. CASE ~HasRoom(Purged)
    <3>1. PICK victim \in OldestTerminal(Purged) :
            jobs' = Put(Without(Purged, {victim}), issued + 1, Record("queued", "none", "none"))
      BY <1>1, <2>5 DEF Submit, Create
    <3>2. victim \in JobIds
      BY <2>1, PurgedKeepsActive DEF OldestTerminal, TypeOK
    <3>3. Admits({victim}, Record("queued", "none", "none"))
      BY <2>3, <2>5, <3>1 DEF Admits
    <3>. QED
      BY <2>2, <2>3, <3>2, <3>3 DEF StoreEffect
  <2>. QED
    BY <2>4, <2>5
<1>2. CASE SubmitRefused \/ Poll \/ Close \/ CloseReturns \/ Tick
  BY <1>2 DEF SubmitRefused, Poll, Close, CloseReturns, Tick, StoreEffect, Purges
<1>3. CASE \E id \in JobIds : TaskStep(id)
  BY <1>3, TaskStepEffect
<1>4. CASE UNCHANGED vars
  BY <1>4 DEF vars, StoreEffect, Purges
<1>. QED
  BY <1>1, <1>2, <1>3, <1>4 DEF Next

-----------------------------------------------------------------------------
(* Records leave in order, settled records are final. *)

\* A record is dropped only when it expired, or when it is the oldest settled
\* one of a full store (the eviction of _make_capacity_available).
THEOREM DropsInOrder == Spec => RecordsLeaveInOrder
<1>. DEFINE Leaves == \A id \in DOMAIN jobs \ DOMAIN jobs' :
                         \/ Expired(jobs[id])
                         \/ /\ id \in OldestTerminal(Purged)
                            /\ ~HasRoom(Purged)
<1>1. ASSUME IInv, ConstantsAssumption, [Next]_vars PROVE Leaves
  <2>1. StoreEffect
    BY <1>1, StepEffect
  <2>2. TypeOK
    BY <1>1 DEF IInv
  <2>3. \A id \in DOMAIN jobs : ~Expired(jobs[id]) => id \in DOMAIN Purged
    BY <2>2, PurgedKeepsActive
  <2>4. CASE Purges
    BY <2>3, <2>4 DEF Purges
  <2>5. CASE \E id \in JobIds, from \in SUBSET ActiveStatuses, record \in JobRecord :
                MovesOn(id, from, record)
    BY <2>2, <2>3, <2>5, TransitionEffect DEF MovesOn
  <2>6. CASE \E gone \in SUBSET JobIds, record \in JobRecord : Admits(gone, record)
    BY <2>3, <2>6 DEF Admits, Put, Without
  <2>. QED
    BY <2>1, <2>4, <2>5, <2>6 DEF StoreEffect
<1>2. IInv /\ [Next]_vars => [Leaves]_vars
  BY <1>1, ConstantsAssumption
<1>. QED
  BY <1>2, InvariantHolds, PTL DEF Spec, RecordsLeaveInOrder

\* No step changes a settled record: no late mark_failed, and no poll.
THEOREM SettledIsFinal == Spec => TerminalRecordIsFinal
<1>. DEFINE Keeps == \A id \in DOMAIN jobs \cap DOMAIN jobs' :
                        IsTerminal(jobs[id]) => jobs'[id] = jobs[id]
<1>1. ASSUME IInv, ConstantsAssumption, [Next]_vars PROVE Keeps
  <2>1. StoreEffect
    BY <1>1, StepEffect
  <2>2. TypeOK
    BY <1>1 DEF IInv
  <2>3. CASE Purges
    BY <2>2, <2>3, PurgedKeepsActive DEF Purges
  <2>4. CASE \E id \in JobIds, from \in SUBSET ActiveStatuses, record \in JobRecord :
                MovesOn(id, from, record)
    <3>1. PICK id \in JobIds, from \in SUBSET ActiveStatuses, record \in JobRecord :
             MovesOn(id, from, record)
      BY <2>4
    <3>2. DOMAIN jobs' = DOMAIN Purged /\ \A other \in DOMAIN Purged \ {id} : jobs'[other] = jobs[other]
      BY <2>2, <3>1, TransitionEffect DEF MovesOn
    <3>3. id \in DOMAIN Purged /\ IsTerminal(jobs[id]) => jobs'[id] = jobs[id]
      BY <2>2, <3>1, TransitionEffect
         DEF MovesOn, IsTerminal, ActiveStatuses, TerminalStatuses
    <3>. QED
      BY <3>2, <3>3
  <2>5. CASE \E gone \in SUBSET JobIds, record \in JobRecord : Admits(gone, record)
    <3>1. issued + 1 \in JobIds => issued + 1 \notin DOMAIN jobs
      BY <1>1 DEF IInv, TypeOK, FreshUnused, RecordFollowsTask
    <3>. QED
      BY <2>2, <2>5, <3>1, PurgedKeepsActive DEF Admits, Put, Without
  <2>. QED
    BY <2>1, <2>3, <2>4, <2>5 DEF StoreEffect
<1>2. IInv /\ [Next]_vars => [Keeps]_vars
  BY <1>1, ConstantsAssumption
<1>. QED
  BY <1>2, InvariantHolds, PTL DEF Spec, TerminalRecordIsFinal

-----------------------------------------------------------------------------
(* Records are well formed: no answer is both a result and an error. *)

\* In every reachable state a record says what its status allows.
THEOREM RecordsAreWellFormed == Spec => []RecordsWellFormed
<1>1. Init => RecordsWellFormed
  BY DEF Init, RecordsWellFormed
<1>2. ASSUME IInv, RecordsWellFormed, ConstantsAssumption, [Next]_vars
      PROVE  RecordsWellFormed'
  <2>1. StoreEffect
    BY <1>2, StepEffect
  <2>2. TypeOK
    BY <1>2 DEF IInv
  <2>3. CASE Purges
    BY <1>2, <2>2, <2>3, PurgedKeepsActive DEF Purges, RecordsWellFormed, WellFormed
  <2>4. CASE \E id \in JobIds, from \in SUBSET ActiveStatuses, record \in JobRecord :
                MovesOn(id, from, record)
    <3>1. PICK id \in JobIds, from \in SUBSET ActiveStatuses, record \in JobRecord :
             MovesOn(id, from, record)
      BY <2>4
    <3>2. /\ DOMAIN jobs' = DOMAIN Purged
          /\ \A other \in DOMAIN Purged : jobs'[other] = jobs[other] \/ jobs'[other] = record
      BY <2>2, <3>1, TransitionEffect DEF MovesOn
    <3>. QED
      BY <1>2, <2>2, <3>1, <3>2, PurgedKeepsActive DEF MovesOn, RecordsWellFormed, WellFormed
  <2>5. CASE \E gone \in SUBSET JobIds, record \in JobRecord : Admits(gone, record)
    <3>1. PICK gone \in SUBSET JobIds, record \in JobRecord : Admits(gone, record)
      BY <2>5
    <3>2. \A id \in DOMAIN jobs' :
             \/ id \in DOMAIN jobs /\ jobs'[id] = jobs[id]
             \/ jobs'[id] = record
      BY <2>2, <3>1, PurgedKeepsActive DEF Admits, Put, Without
    <3>3. WellFormed(record)
      BY <3>1 DEF Admits, WellFormed, Record, ActiveStatuses
    <3>. QED
      BY <1>2, <3>2, <3>3 DEF RecordsWellFormed, WellFormed
  <2>. QED
    BY <2>1, <2>3, <2>4, <2>5 DEF StoreEffect
<1>3. IInv /\ RecordsWellFormed /\ [Next]_vars => RecordsWellFormed'
  BY <1>2, ConstantsAssumption
<1>. QED
  BY <1>1, <1>3, InvariantHolds, PTL DEF Spec

-----------------------------------------------------------------------------
(* The service implements the life cycle. *)

answers == [id \in JobIds |-> Answer(id)]

\* What is known of a kept record: its identifier was issued, and it is well
\* formed and typed.
Known(id) ==
    /\ id \in JobIds
    /\ id =< issued
    /\ jobs[id] \in JobRecord
    /\ WellFormed(jobs[id])

\* A kept record is that of an issued identifier.
LEMMA KeptKnown ==
    ASSUME IInv, RecordsWellFormed, NEW id \in DOMAIN jobs
    PROVE  Known(id)
BY DEF IInv, TypeOK, FreshUnused, RecordFollowsTask, RecordsWellFormed, JobIds, Known

\* A record dropped by a purge was no answer before it either.
LEMMA PurgeUnseen ==
    ASSUME TypeOK, now' = now, issued' = issued, NEW id \in JobIds,
           id \in DOMAIN jobs' <=> id \in DOMAIN Purged,
           id \in DOMAIN Purged => jobs'[id] = jobs[id]
    PROVE  Answer(id)' = Answer(id)
BY PurgedKeepsActive DEF Answer, Expired, IsTerminal

\* Purging and the clock: settled answers are forgotten.
LEMMA PurgeRefines ==
    ASSUME IInv, RecordsWellFormed, ConstantsAssumption, Purges, issued' = issued,
           \/ now' = now
           \/ now' = now + 1 /\ jobs' = jobs
    PROVE  Lifecycle!Next \/ answers' = answers
<1>1. TypeOK
  BY DEF IInv
<1>2. CASE now' = now
  <2>1. \A id \in JobIds : Answer(id)' = Answer(id)
    BY <1>1, <1>2, PurgedKeepsActive, PurgeUnseen DEF Purges, Answer, Expired
  <2>. QED
    BY <2>1 DEF answers
<1>3. CASE now' = now + 1 /\ jobs' = jobs
  <2>. DEFINE expired == {id \in DOMAIN jobs : ~Expired(jobs[id]) /\ Expired(jobs[id])'}
  <2>1. expired \in SUBSET JobIds
    BY <1>1 DEF TypeOK
  <2>2. \A id \in expired : answers[id] \in Lifecycle!SettledAnswers
    <3>. SUFFICES ASSUME NEW id \in expired
                  PROVE  Answer(id) \in Lifecycle!SettledAnswers
      BY <2>1 DEF answers
    <3>1. Known(id) /\ IsTerminal(jobs[id])
      BY <1>3, KeptKnown DEF Expired, IsTerminal
    <3>. QED
      BY <3>1 DEF Known, WellFormed, Answer, IsTerminal, TerminalStatuses, ActiveStatuses,
                  FailureCodes, Lifecycle!SettledAnswers, Lifecycle!Completed, Lifecycle!Failed,
                  Lifecycle!FailureCodes
  <2>3. \A id \in JobIds :
           Answer(id)' = IF id \in expired THEN Lifecycle!Gone ELSE Answer(id)
    <3>. SUFFICES ASSUME NEW id \in JobIds
                  PROVE  Answer(id)' = IF id \in expired THEN Lifecycle!Gone ELSE Answer(id)
      OBVIOUS
    <3>1. id \in DOMAIN jobs => id =< issued /\ jobs[id].expires \in Nat
      BY KeptKnown DEF Known, JobRecord
    <3>2. now \in Nat
      BY <1>1, ConstantsAssumption DEF TypeOK, ConstantsAssumption
    <3>. QED
      BY <1>3, <3>1, <3>2 DEF Answer, Expired, IsTerminal, Lifecycle!Gone, Lifecycle!Pending
  <2>4. answers' = [id \in JobIds |-> IF id \in expired THEN Lifecycle!Gone ELSE answers[id]]
    BY <2>3 DEF answers
  <2>5. Lifecycle!Forget
    BY <2>1, <2>2, <2>4 DEF Lifecycle!Forget, answers
  <2>. QED
    BY <2>5 DEF Lifecycle!Next
<1>. QED
  BY <1>2, <1>3

\* A record that moves on: the job starts, completes or fails.
LEMMA MoveRefines ==
    ASSUME IInv, RecordsWellFormed, ConstantsAssumption,
           NEW id \in JobIds, NEW from \in SUBSET ActiveStatuses, NEW record \in JobRecord,
           MovesOn(id, from, record), now' = now, issued' = issued
    PROVE  Lifecycle!Next \/ answers' = answers
<1>1. TypeOK
  BY DEF IInv
<1>2. /\ DOMAIN jobs' = DOMAIN Purged
      /\ \A other \in DOMAIN Purged \ {id} : jobs'[other] = jobs[other]
      /\ id \in DOMAIN Purged /\ jobs[id].status \in from => jobs'[id] = record
      /\ id \in DOMAIN Purged /\ jobs[id].status \notin from => jobs'[id] = jobs[id]
  BY <1>1, TransitionEffect DEF MovesOn
<1>3. \A other \in JobIds \ {id} : Answer(other)' = Answer(other)
  BY <1>1, <1>2, PurgeUnseen
<1>4. CASE ~(id \in DOMAIN Purged /\ jobs[id].status \in from)
  <2>1. Answer(id)' = Answer(id)
    BY <1>1, <1>2, <1>4, PurgeUnseen
  <2>. QED
    BY <1>3, <2>1 DEF answers
<1>5. CASE id \in DOMAIN Purged /\ jobs[id].status \in from
  <2>1. id \in DOMAIN jobs /\ Known(id) /\ jobs[id].status \in ActiveStatuses
    BY <1>1, <1>5, PurgedKeepsActive, KeptKnown
  <2>2. answers[id] = Lifecycle!Pending(jobs[id].status)
    BY <2>1 DEF answers, Answer, Expired, IsTerminal, TerminalStatuses, ActiveStatuses, Known,
                WellFormed, Lifecycle!Pending
  <2>3. Answer(id)' = [status |-> record.status, result |-> record.result, error |-> record.error]
    <3>1. id \in DOMAIN jobs' /\ jobs'[id] = record
      BY <1>2, <1>5
    <3>2. ~(record.expires =< now)
      BY <1>1, ConstantsAssumption DEF MovesOn, TypeOK, ConstantsAssumption
    <3>. QED
      BY <3>1, <3>2 DEF Answer, Expired
  <2>4. answers' = [answers EXCEPT ![id] = Answer(id)']
    BY <1>3 DEF answers
  <2>5. CASE record.status = "running"
    <3>1. jobs[id].status = "queued" /\ record.result = "none" /\ record.error = "none"
      BY <1>5, <2>5 DEF MovesOn, WellFormed, ActiveStatuses
    <3>2. answers' = [answers EXCEPT ![id] = Lifecycle!Pending("running")]
      BY <2>3, <2>4, <2>5, <3>1 DEF Lifecycle!Pending
    <3>3. Lifecycle!Start(id)
      BY <2>2, <3>1, <3>2 DEF Lifecycle!Start, answers
    <3>. QED
      BY <3>3 DEF Lifecycle!Next
  <2>6. CASE record.status = "completed"
    <3>1. jobs[id].status = "running" /\ record.result = "offers" /\ record.error = "none"
      BY <1>5, <2>6 DEF MovesOn, WellFormed, ActiveStatuses
    <3>2. answers' = [answers EXCEPT ![id] = Lifecycle!Completed]
      BY <2>3, <2>4, <2>6, <3>1 DEF Lifecycle!Completed
    <3>3. Lifecycle!Complete(id)
      BY <2>2, <3>1, <3>2 DEF Lifecycle!Complete, answers
    <3>. QED
      BY <3>3 DEF Lifecycle!Next
  <2>7. CASE record.status = "failed"
    <3>1. answers[id] \in Lifecycle!ActiveAnswers
      BY <2>1, <2>2 DEF ActiveStatuses, Lifecycle!ActiveAnswers
    <3>2. record.result = "none" /\ record.error \in Lifecycle!FailureCodes
      BY <2>7 DEF MovesOn, WellFormed, ActiveStatuses, FailureCodes, Lifecycle!FailureCodes
    <3>3. answers' = [answers EXCEPT ![id] = Lifecycle!Failed(record.error)]
      BY <2>3, <2>4, <2>7, <3>2 DEF Lifecycle!Failed
    <3>4. Lifecycle!Fail(id)
      BY <3>1, <3>2, <3>3 DEF Lifecycle!Fail, answers
    <3>. QED
      BY <3>4 DEF Lifecycle!Next
  <2>. QED
    BY <2>5, <2>6, <2>7 DEF MovesOn, WellFormed, ActiveStatuses
<1>. QED
  BY <1>4, <1>5

\* A new record: a job is accepted, and at most one settled answer is dropped.
LEMMA AdmissionRefines ==
    ASSUME IInv, RecordsWellFormed, ConstantsAssumption,
           NEW gone \in SUBSET JobIds, NEW record \in JobRecord,
           Admits(gone, record), now' = now
    PROVE  Lifecycle!Next
<1>. DEFINE id == issued + 1
<1>1. TypeOK
  BY DEF IInv
<1>2. id \in JobIds /\ id \notin DOMAIN jobs /\ ~(id =< issued)
  BY <1>1 DEF Admits, IInv, TypeOK, FreshUnused, RecordFollowsTask
<1>3. /\ DOMAIN jobs' = (DOMAIN Purged \ gone) \cup {id}
      /\ jobs'[id] = Record("queued", "none", "none")
      /\ \A other \in DOMAIN Purged \ gone : other # id => jobs'[other] = jobs[other]
  BY <1>1, PurgedKeepsActive DEF Admits, Put, Without
<1>4. gone \subseteq DOMAIN Purged /\ \A other \in gone : IsTerminal(jobs[other])
  BY <1>1, PurgedKeepsActive DEF Admits, OldestTerminal
<1>5. \A other \in gone : other \in DOMAIN jobs /\ ~Expired(jobs[other])
  BY <1>4 DEF Purged, Without
<1>6. answers[id] = Lifecycle!Absent
  BY <1>2 DEF answers, Answer, Lifecycle!Absent, Lifecycle!Pending
<1>7. \A other \in gone : answers[other] \in Lifecycle!SettledAnswers
  <2>. SUFFICES ASSUME NEW other \in gone
                PROVE  Answer(other) \in Lifecycle!SettledAnswers
    BY DEF answers
  <2>1. Known(other)
    BY <1>5, KeptKnown
  <2>. QED
    BY <1>4, <1>5, <2>1
       DEF Known, WellFormed, Answer, IsTerminal, TerminalStatuses, ActiveStatuses,
           FailureCodes, Lifecycle!SettledAnswers, Lifecycle!Completed, Lifecycle!Failed,
           Lifecycle!FailureCodes
<1>8. \A other \in JobIds :
         Answer(other)' = IF other = id THEN Lifecycle!Pending("queued")
                          ELSE IF other \in gone THEN Lifecycle!Gone
                          ELSE Answer(other)
  <2>. SUFFICES ASSUME NEW other \in JobIds
                PROVE  Answer(other)' = IF other = id THEN Lifecycle!Pending("queued")
                                        ELSE IF other \in gone THEN Lifecycle!Gone
                                        ELSE Answer(other)
    OBVIOUS
  <2>1. CASE other = id
    BY <1>3, <2>1 DEF Answer, Expired, IsTerminal, TerminalStatuses, Record, Lifecycle!Pending
  <2>2. CASE other # id
    <3>1. (other =< issued') <=> (other =< issued)
      BY <1>1, <2>2 DEF Admits, TypeOK, JobIds
    <3>2. CASE other \in gone
      <4>1. other =< issued /\ other \notin DOMAIN jobs'
        BY <1>3, <1>5, <2>2, <3>2, KeptKnown DEF Known
      <4>. QED
        BY <2>2, <3>1, <3>2, <4>1 DEF Answer, Lifecycle!Gone, Lifecycle!Pending
    <3>3. CASE other \notin gone
      <4>1. other \in DOMAIN jobs' <=> other \in DOMAIN Purged
        BY <1>3, <2>2, <3>3
      <4>2. other \in DOMAIN Purged => jobs'[other] = jobs[other]
        BY <1>3, <2>2, <3>3
      <4>3. other \in DOMAIN jobs /\ other \notin DOMAIN Purged => Expired(jobs[other])
        BY <1>1, PurgedKeepsActive
      <4>4. other \in DOMAIN Purged => other \in DOMAIN jobs
        BY <1>1, PurgedKeepsActive
      <4>. QED
        BY <2>2, <3>1, <3>3, <4>1, <4>2, <4>3, <4>4 DEF Answer, Expired, IsTerminal
    <3>. QED
      BY <3>2, <3>3
  <2>. QED
    BY <2>1, <2>2
<1>9. answers' = [other \in JobIds |-> IF other = id THEN Lifecycle!Pending("queued")
                                       ELSE IF other \in gone THEN Lifecycle!Gone
                                       ELSE answers[other]]
  BY <1>8 DEF answers
<1>10. gone \in {{}} \cup {{other} : other \in JobIds}
  BY DEF Admits
<1>11. Lifecycle!Accept(id)
  BY <1>6, <1>7, <1>9, <1>10 DEF Lifecycle!Accept, answers
<1>. QED
  BY <1>2, <1>11 DEF Lifecycle!Next

\* Every behaviour of the service, seen through what polls are answered, is a
\* behaviour of the life cycle its clients were promised.
THEOREM ServiceImplementsLifecycle == Spec => ImplementsLifecycle
<1>1. Init => Lifecycle!Init
  BY DEF Init, Lifecycle!Init, Answer, Lifecycle!Absent, Lifecycle!Pending, JobIds
<1>2. ASSUME IInv, RecordsWellFormed, ConstantsAssumption, [Next]_vars
      PROVE  Lifecycle!Next \/ answers' = answers
  <2>1. StoreEffect
    BY <1>2, StepEffect
  <2>2. CASE Purges /\ issued' = issued /\ (now' = now \/ (now' = now + 1 /\ jobs' = jobs))
    BY <1>2, <2>2, PurgeRefines
  <2>3. CASE /\ now' = now
             /\ issued' = issued
             /\ \E id \in JobIds, from \in SUBSET ActiveStatuses, record \in JobRecord :
                   MovesOn(id, from, record)
    BY <1>2, <2>3, MoveRefines
  <2>4. CASE /\ now' = now
             /\ \E gone \in SUBSET JobIds, record \in JobRecord : Admits(gone, record)
    BY <1>2, <2>4, AdmissionRefines
  <2>. QED
    BY <2>1, <2>2, <2>3, <2>4 DEF StoreEffect
<1>3. IInv /\ RecordsWellFormed /\ [Next]_vars => [Lifecycle!Next]_answers
  BY <1>2, ConstantsAssumption
<1>. QED
  BY <1>1, <1>3, InvariantHolds, RecordsAreWellFormed, PTL
     DEF Spec, ImplementsLifecycle, Lifecycle!Spec, answers
=============================================================================
