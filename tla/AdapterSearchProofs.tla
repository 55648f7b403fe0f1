------------------------ MODULE AdapterSearchProofs ------------------------
(***************************************************************************)
(* Theorems about AdapterSearch, for every finite set of requests, every   *)
(* assignment of keys and every cache: the waiter count is exact, shared   *)
(* work survives its waiters one by one, no key is searched twice at once  *)
(* or for nobody, and the cache holds nothing that everybody interested    *)
(* was cancelled before getting.                                           *)
(*                                                                         *)
(* The argument has two layers.  Nothing about the flights depends on what *)
(* the cache holds, so the first invariant, IInv, says nothing of the      *)
(* cache, nor of the flight of a request that was served from it.  The     *)
(* second, CacheInv, is about the cache and rests on the first: that a     *)
(* load still has somebody waiting is why its result may be kept.          *)
(*                                                                         *)
(* With both, every step is one that SharedSearch allows, or is not seen   *)
(* there: the shared searches implement it.                                *)
(***************************************************************************)
EXTENDS AdapterSearch, FiniteSetTheorems, SequenceTheorems, TLAPS

Interest == {"waiting", "cancelling"}

\* The types the argument needs.
Shape ==
    /\ request = [r \in Requests |-> [stage |-> request[r].stage, flight |-> request[r].flight]]
    /\ \A r \in Requests : request[r].stage \in Interest => request[r].flight \in Requests
    /\ flight \in [Requests -> [stage : FlightStages, waiters : Nat, cancel : BOOLEAN]]
    /\ inFlight = [k \in DOMAIN inFlight |-> inFlight[k]]
    /\ \A k \in DOMAIN inFlight : inFlight[k] \in Requests
    /\ callbacks \subseteq Requests

\* A registered flight is of its key, has started and was not told to stop.
RegisteredUsable ==
    \A k \in DOMAIN inFlight :
        /\ KeyOf[inFlight[k]] = k
        /\ flight[inFlight[k]].stage # "none"
        /\ ~flight[inFlight[k]].cancel

\* A request waits for a flight of its own key, which has started.
WaitsForItsKey ==
    \A r \in Requests : request[r].stage \in Interest =>
        /\ KeyOf[request[r].flight] = KeyOf[r]
        /\ flight[request[r].flight].stage # "none"

\* The flight named after a request starts with it, not before.
NewUnstarted == \A r \in Requests : request[r].stage = "new" => flight[r].stage = "none"

CallbacksDone == \A f \in callbacks : Done(f)

IInv ==
    /\ Shape
    /\ RegisteredUsable
    /\ WaitsForItsKey
    /\ NewUnstarted
    /\ CallbacksDone
    /\ WaiterCountExact
    /\ SharedWorkSurvives
    /\ OneLoadPerKey
    /\ NoAbandonedLoad

-----------------------------------------------------------------------------
(* Counting who is interested in a flight *)

\* The interested are finitely many.
LEMMA InterestedFinite ==
    ASSUME ConstantsAssumption, NEW f
    PROVE  IsFiniteSet(Interested(f)) /\ Cardinality(Interested(f)) \in Nat
<1>1. Interested(f) \subseteq Requests
  BY DEF Interested
<1>. QED
  BY <1>1, FS_Subset, FS_CardinalityType DEF ConstantsAssumption

\* Who enters a flight is interested in it from then on, and in no other.
LEMMA EnterEffect ==
    ASSUME Shape, NEW r \in Requests, NEW stage, NEW f, Enters(r, stage, f)
    PROVE  /\ request' = [q \in Requests |-> [stage |-> request'[q].stage, flight |-> request'[q].flight]]
           /\ request'[r].stage = stage
           /\ request'[r].flight = f
           /\ \A q \in Requests \ {r} : request'[q] = request[q]
<1>1. request'[r] = [stage |-> stage, flight |-> f]
  BY DEF Shape, Enters
<1>2. \A q \in Requests \ {r} : request'[q] = request[q]
  BY DEF Shape, Enters
<1>3. request' = [q \in Requests |-> [stage |-> request'[q].stage, flight |-> request'[q].flight]]
  BY DEF Shape, Enters
<1>. QED
  BY <1>1, <1>2, <1>3

\* One request more.
LEMMA JoinCounts ==
    ASSUME Shape, WaiterCountExact, ConstantsAssumption,
           NEW r \in Requests, request[r].stage \notin Interest, NEW f \in Requests,
           Enters(r, "waiting", f)
    PROVE  /\ Interested(f)' = Interested(f) \cup {r}
           /\ Cardinality(Interested(f)') = flight[f].waiters + 1
           /\ \A g \in Requests \ {f} : Interested(g)' = Interested(g)
<1>0. /\ request'[r].stage = "waiting" /\ request'[r].flight = f
      /\ \A q \in Requests \ {r} : request'[q] = request[q]
  BY EnterEffect
<1>1. Interested(f)' = Interested(f) \cup {r} /\ r \notin Interested(f)
  BY <1>0 DEF Interested, Interest
<1>2. \A g \in Requests \ {f} : Interested(g)' = Interested(g)
  BY <1>0 DEF Interested, Interest
<1>3. Cardinality(Interested(f) \cup {r}) = Cardinality(Interested(f)) + 1
  BY <1>1, InterestedFinite, FS_AddElement
<1>. QED
  BY <1>1, <1>2, <1>3 DEF WaiterCountExact

\* One request less.
LEMMA LeaveCounts ==
    ASSUME Shape, WaiterCountExact, ConstantsAssumption,
           NEW r \in Requests, request[r].stage \in Interest,
           NEW stage, stage \notin Interest,
           NEW f \in Requests, request[r].flight = f, Enters(r, stage, f)
    PROVE  /\ Interested(f)' = Interested(f) \ {r}
           /\ flight[f].waiters >= 1
           /\ Cardinality(Interested(f)') = flight[f].waiters - 1
           /\ flight[f].waiters = 1 <=> Interested(f)' = {}
           /\ \A g \in Requests \ {f} : Interested(g)' = Interested(g)
<1>0. /\ request'[r].stage = stage /\ request'[r].flight = f
      /\ \A q \in Requests \ {r} : request'[q] = request[q]
  BY EnterEffect
<1>2. Interested(f)' = Interested(f) \ {r} /\ r \in Interested(f)
  BY <1>0 DEF Interested, Interest
<1>3. \A g \in Requests \ {f} : Interested(g)' = Interested(g)
  BY <1>0 DEF Interested, Interest
<1>4. IsFiniteSet(Interested(f)) /\ Cardinality(Interested(f)) \in Nat
  BY InterestedFinite
<1>5. Cardinality(Interested(f) \ {r}) = Cardinality(Interested(f)) - 1
  BY <1>2, <1>4, FS_RemoveElement
<1>6. IsFiniteSet(Interested(f) \ {r}) /\ Cardinality(Interested(f) \ {r}) \in Nat
  BY <1>4, FS_Subset, FS_CardinalityType
<1>7. Cardinality(Interested(f) \ {r}) = 0 <=> Interested(f) \ {r} = {}
  BY <1>6, FS_EmptySet
<1>8. flight[f].waiters = Cardinality(Interested(f))
  BY DEF WaiterCountExact
<1>9. /\ flight[f].waiters >= 1
      /\ flight[f].waiters = 1 <=> Interested(f) \ {r} = {}
      /\ Cardinality(Interested(f) \ {r}) = flight[f].waiters - 1
  BY <1>4, <1>5, <1>6, <1>7, <1>8
<1>. QED
  BY <1>2, <1>3, <1>9

-----------------------------------------------------------------------------
(* One lemma per operation: the invariant is preserved *)

LEMMA InitEstablishes == ConstantsAssumption /\ Init => IInv
<1>. SUFFICES ASSUME ConstantsAssumption, Init PROVE IInv
  OBVIOUS
<1>1. Shape
  BY DEF Init, Shape, Interest, FlightStages
<1>2. RegisteredUsable /\ WaitsForItsKey /\ NewUnstarted /\ CallbacksDone
  BY DEF Init, RegisteredUsable, WaitsForItsKey, NewUnstarted, CallbacksDone, Interest
<1>3. \A f \in Requests : Interested(f) = {}
  BY DEF Init, Interested
<1>4. WaiterCountExact
  BY <1>3, FS_EmptySet DEF Init, WaiterCountExact
<1>5. SharedWorkSurvives /\ OneLoadPerKey /\ NoAbandonedLoad
  BY DEF Init, SharedWorkSurvives, OneLoadPerKey, NoAbandonedLoad, LiveLoads
<1>. QED
  BY <1>1, <1>2, <1>4, <1>5 DEF IInv

\* A request that is answered at once: no flight notices.
LEMMA AnsweredAtOnce ==
    ASSUME IInv, NEW r \in Requests, request[r].stage = "new",
           NEW stage, stage \in {"served", "failed", "cancelled"}, NEW f,
           Enters(r, stage, f), UNCHANGED <<flight, inFlight, callbacks>>
    PROVE  IInv'
<1>1. /\ request' = [q \in Requests |-> [stage |-> request'[q].stage, flight |-> request'[q].flight]]
      /\ request'[r].stage = stage
      /\ \A q \in Requests \ {r} : request'[q] = request[q]
  BY EnterEffect DEF IInv
<1>2. \A g \in Requests : Interested(g)' = Interested(g)
  BY <1>1 DEF Interested
<1>3. Shape'
  BY <1>1 DEF IInv, Shape, Interest
<1>4. RegisteredUsable' /\ CallbacksDone'
  BY DEF IInv, RegisteredUsable, CallbacksDone, Done
<1>5. WaitsForItsKey' /\ NewUnstarted'
  BY <1>1 DEF IInv, WaitsForItsKey, NewUnstarted, Interest
<1>6. WaiterCountExact' /\ SharedWorkSurvives'
  BY <1>2 DEF IInv, WaiterCountExact, SharedWorkSurvives
<1>7. LiveLoads' = LiveLoads
  BY DEF LiveLoads
<1>8. OneLoadPerKey' /\ NoAbandonedLoad'
  BY <1>2, <1>7 DEF IInv, OneLoadPerKey, NoAbandonedLoad, LiveLoads
<1>. QED
  BY <1>3, <1>4, <1>5, <1>6, <1>8 DEF IInv

\* A waiter whose cancellation is requested is as interested as before.
LEMMA CancelPreserves ==
    ASSUME IInv, NEW r \in Requests, Cancel(r)
    PROVE  IInv'
<1>1. /\ request' = [q \in Requests |-> [stage |-> request'[q].stage, flight |-> request'[q].flight]]
      /\ request'[r].stage = "cancelling"
      /\ request'[r].flight = request[r].flight
      /\ request[r].stage = "waiting"
      /\ \A q \in Requests \ {r} : request'[q] = request[q]
      /\ UNCHANGED <<flight, inFlight, callbacks>>
  BY DEF Cancel, IInv, Shape
<1>2. \A g \in Requests : Interested(g)' = Interested(g)
  BY <1>1 DEF Interested
<1>3. Shape'
  BY <1>1 DEF IInv, Shape, Interest
<1>4. RegisteredUsable' /\ CallbacksDone'
  BY <1>1 DEF IInv, RegisteredUsable, CallbacksDone, Done
<1>5. WaitsForItsKey' /\ NewUnstarted'
  BY <1>1 DEF IInv, WaitsForItsKey, NewUnstarted, Interest
<1>6. WaiterCountExact' /\ SharedWorkSurvives'
  BY <1>1, <1>2 DEF IInv, WaiterCountExact, SharedWorkSurvives
<1>7. LiveLoads' = LiveLoads
  BY <1>1 DEF LiveLoads
<1>8. OneLoadPerKey' /\ NoAbandonedLoad'
  BY <1>1, <1>2, <1>7 DEF IInv, OneLoadPerKey, NoAbandonedLoad, LiveLoads
<1>. QED
  BY <1>3, <1>4, <1>5, <1>6, <1>8 DEF IInv

\* Joining: the flight counts one more, who is interested in it.
LEMMA JoinPreserves ==
    ASSUME IInv, ConstantsAssumption, NEW r \in Requests, SearchJoin(r)
    PROVE  IInv'
<1>0. PICK f \in Requests : f = inFlight[KeyOf[r]]
  BY DEF SearchJoin, IInv, Shape
<1>1. /\ KeyOf[r] \in DOMAIN inFlight
      /\ request[r].stage = "new"
      /\ ~Done(f)
      /\ Enters(r, "waiting", f)
      /\ flight' = [flight EXCEPT ![f].waiters = @ + 1]
      /\ UNCHANGED <<inFlight, callbacks>>
  BY <1>0 DEF SearchJoin, CacheMiss
<1>2. KeyOf[f] = KeyOf[r] /\ flight[f].stage # "none" /\ ~flight[f].cancel
  BY <1>0, <1>1 DEF IInv, RegisteredUsable
<1>3. /\ request' = [q \in Requests |-> [stage |-> request'[q].stage, flight |-> request'[q].flight]]
      /\ request'[r].stage = "waiting"
      /\ request'[r].flight = f
      /\ \A q \in Requests \ {r} : request'[q] = request[q]
  BY <1>1, EnterEffect DEF IInv
<1>4. /\ Interested(f)' = Interested(f) \cup {r}
      /\ Cardinality(Interested(f)') = flight[f].waiters + 1
      /\ \A g \in Requests \ {f} : Interested(g)' = Interested(g)
  BY <1>1, JoinCounts DEF IInv, Interest
<1>5. /\ flight' \in [Requests -> [stage : FlightStages, waiters : Nat, cancel : BOOLEAN]]
      /\ flight'[f].waiters = flight[f].waiters + 1
      /\ \A g \in Requests \ {f} : flight'[g] = flight[g]
      /\ \A g \in Requests : flight'[g].stage = flight[g].stage /\ flight'[g].cancel = flight[g].cancel
  BY <1>1 DEF IInv, Shape
<1>6. Shape'
  <2>1. \A q \in Requests : request'[q].stage \in Interest => request'[q].flight \in Requests
    BY <1>3 DEF IInv, Shape, Interest
  <2>2. request' = [q \in Requests |-> [stage |-> request'[q].stage, flight |-> request'[q].flight]]
    BY <1>3
  <2>. QED
    BY <1>1, <1>5, <2>1, <2>2 DEF IInv, Shape
<1>7. RegisteredUsable' /\ CallbacksDone'
  BY <1>1, <1>5 DEF IInv, Shape, RegisteredUsable, CallbacksDone, Done
<1>8. WaitsForItsKey'
  BY <1>1, <1>2, <1>3, <1>5 DEF IInv, Shape, WaitsForItsKey, Interest
<1>9. NewUnstarted'
  BY <1>3, <1>5 DEF IInv, NewUnstarted
<1>10. WaiterCountExact'
  BY <1>4, <1>5 DEF IInv, WaiterCountExact
<1>11. SharedWorkSurvives'
  BY <1>1, <1>2, <1>4, <1>5 DEF IInv, SharedWorkSurvives
<1>12. LiveLoads' = LiveLoads
  BY <1>5 DEF LiveLoads
<1>13. OneLoadPerKey' /\ NoAbandonedLoad'
  BY <1>1, <1>4, <1>12 DEF IInv, OneLoadPerKey, NoAbandonedLoad, LiveLoads
<1>. QED
  BY <1>6, <1>7, <1>8, <1>9, <1>10, <1>11, <1>13 DEF IInv

\* Starting: the new flight has one waiter, and nobody was interested in it.
LEMMA StartPreserves ==
    ASSUME IInv, ConstantsAssumption, NEW r \in Requests, SearchStart(r)
    PROVE  IInv'
<1>1. /\ KeyOf[r] \notin DOMAIN inFlight
      /\ request[r].stage = "new"
      /\ Enters(r, "waiting", r)
      /\ flight' = [flight EXCEPT ![r] = [stage |-> "loading", waiters |-> 1, cancel |-> FALSE]]
      /\ inFlight' = [k \in DOMAIN inFlight \cup {KeyOf[r]} |->
                          IF k = KeyOf[r] THEN r ELSE inFlight[k]]
      /\ UNCHANGED callbacks
  BY DEF SearchStart, CacheMiss
<1>2. flight[r].stage = "none"
  BY <1>1 DEF IInv, NewUnstarted
<1>3. /\ request' = [q \in Requests |-> [stage |-> request'[q].stage, flight |-> request'[q].flight]]
      /\ request'[r].stage = "waiting"
      /\ request'[r].flight = r
      /\ \A q \in Requests \ {r} : request'[q] = request[q]
  BY <1>1, EnterEffect DEF IInv
<1>4. /\ Cardinality(Interested(r)') = flight[r].waiters + 1
      /\ Interested(r)' = Interested(r) \cup {r}
      /\ \A g \in Requests \ {r} : Interested(g)' = Interested(g)
  BY <1>1, JoinCounts DEF IInv, Interest
<1>5. Interested(r) = {}
  BY <1>2 DEF IInv, WaitsForItsKey, Interested, Interest
<1>6. flight[r].waiters = 0
  BY <1>5, FS_EmptySet DEF IInv, WaiterCountExact
<1>7. /\ flight' \in [Requests -> [stage : FlightStages, waiters : Nat, cancel : BOOLEAN]]
      /\ flight'[r] = [stage |-> "loading", waiters |-> 1, cancel |-> FALSE]
      /\ \A g \in Requests \ {r} : flight'[g] = flight[g]
  BY <1>1 DEF IInv, Shape, FlightStages
<1>8. /\ DOMAIN inFlight' = DOMAIN inFlight \cup {KeyOf[r]}
      /\ inFlight'[KeyOf[r]] = r
      /\ \A k \in DOMAIN inFlight : inFlight'[k] = inFlight[k] /\ k # KeyOf[r]
  BY <1>1
<1>9. Shape'
  <2>1. inFlight' = [k \in DOMAIN inFlight' |-> inFlight'[k]]
    BY <1>1
  <2>2. \A k \in DOMAIN inFlight' : inFlight'[k] \in Requests
    BY <1>8 DEF IInv, Shape
  <2>3. \A q \in Requests : request'[q].stage \in Interest => request'[q].flight \in Requests
    BY <1>3 DEF IInv, Shape
  <2>. QED
    BY <1>1, <1>3, <1>7, <2>1, <2>2, <2>3 DEF IInv, Shape
<1>10. RegisteredUsable'
  <2>. SUFFICES ASSUME NEW k \in DOMAIN inFlight'
                PROVE  /\ KeyOf[inFlight'[k]] = k
                       /\ flight'[inFlight'[k]].stage # "none"
                       /\ ~flight'[inFlight'[k]].cancel
    BY DEF RegisteredUsable
  <2>1. CASE k = KeyOf[r]
    BY <2>1, <1>7, <1>8
  <2>2. CASE k \in DOMAIN inFlight
    <3>1. /\ inFlight'[k] = inFlight[k]
          /\ inFlight[k] \in Requests
          /\ KeyOf[inFlight[k]] = k
          /\ flight[inFlight[k]].stage # "none"
          /\ ~flight[inFlight[k]].cancel
      BY <2>2, <1>8 DEF IInv, Shape, RegisteredUsable
    <3>. QED
      BY <3>1, <1>2, <1>7
  <2>. QED
    BY <1>8, <2>1, <2>2
<1>11. WaitsForItsKey'
  BY <1>3, <1>7 DEF IInv, Shape, WaitsForItsKey, Interest
<1>12. NewUnstarted'
  BY <1>3, <1>7 DEF IInv, NewUnstarted
<1>13. CallbacksDone'
  <2>1. r \notin callbacks
    BY <1>2 DEF IInv, CallbacksDone, Done
  <2>. QED
    BY <1>1, <1>7, <2>1 DEF IInv, Shape, CallbacksDone, Done
<1>14. WaiterCountExact'
  <2>1. Cardinality(Interested(r)') = 1 /\ flight'[r].waiters = 1
    BY <1>4, <1>6, <1>7
  <2>2. \A g \in Requests \ {r} : flight'[g].waiters = Cardinality(Interested(g)')
    BY <1>4, <1>7 DEF IInv, WaiterCountExact
  <2>. QED
    BY <2>1, <2>2 DEF WaiterCountExact
<1>15. SharedWorkSurvives'
  BY <1>4, <1>7 DEF IInv, SharedWorkSurvives
<1>16. LiveLoads' = LiveLoads \cup {r}
  BY <1>7 DEF LiveLoads
<1>17. OneLoadPerKey'
  BY <1>8, <1>16 DEF IInv, OneLoadPerKey
<1>18. NoAbandonedLoad'
  BY <1>4, <1>16 DEF IInv, NoAbandonedLoad, LiveLoads
<1>. QED
  BY <1>9, <1>10, <1>11, <1>12, <1>13, <1>14, <1>15, <1>17, <1>18 DEF IInv

\* A waiter resumes with the outcome of a flight that is over.
LEMMA ResumePreserves ==
    ASSUME IInv, ConstantsAssumption, NEW r \in Requests, Resume(r)
    PROVE  IInv'
<1>0. PICK f \in Requests : f = request[r].flight
  BY DEF Resume, IInv, Shape, Interest
<1>1. PICK stage : /\ stage \in {"served", "failed"}
                   /\ Enters(r, stage, f)
  BY <1>0 DEF Resume
<1>2. /\ request[r].stage = "waiting"
      /\ Done(f)
      /\ flight' = [flight EXCEPT ![f].waiters = @ - 1]
      /\ UNCHANGED <<inFlight, callbacks>>
  BY <1>0 DEF Resume, Done
<1>3. /\ request' = [q \in Requests |-> [stage |-> request'[q].stage, flight |-> request'[q].flight]]
      /\ request'[r].stage = stage
      /\ \A q \in Requests \ {r} : request'[q] = request[q]
  BY <1>1, EnterEffect DEF IInv
<1>4. /\ Interested(f)' = Interested(f) \ {r}
      /\ flight[f].waiters >= 1
      /\ Cardinality(Interested(f)') = flight[f].waiters - 1
      /\ \A g \in Requests \ {f} : Interested(g)' = Interested(g)
  <2>1. Shape /\ WaiterCountExact
    BY DEF IInv
  <2>2. request[r].stage \in Interest /\ stage \notin Interest
    BY <1>1, <1>2 DEF Interest
  <2>. QED
    BY <1>0, <1>1, <2>1, <2>2, LeaveCounts
<1>5. /\ flight' \in [Requests -> [stage : FlightStages, waiters : Nat, cancel : BOOLEAN]]
      /\ flight'[f].waiters = flight[f].waiters - 1
      /\ \A g \in Requests \ {f} : flight'[g] = flight[g]
      /\ \A g \in Requests : flight'[g].stage = flight[g].stage /\ flight'[g].cancel = flight[g].cancel
  BY <1>2, <1>4 DEF IInv, Shape
<1>6. Shape'
  <2>1. \A q \in Requests : request'[q].stage \in Interest => request'[q].flight \in Requests
    BY <1>1, <1>3 DEF IInv, Shape, Interest
  <2>2. request' = [q \in Requests |-> [stage |-> request'[q].stage, flight |-> request'[q].flight]]
    BY <1>3
  <2>. QED
    BY <1>2, <1>5, <2>1, <2>2 DEF IInv, Shape
<1>7. RegisteredUsable' /\ CallbacksDone'
  BY <1>2, <1>5 DEF IInv, Shape, RegisteredUsable, CallbacksDone, Done
<1>8. WaitsForItsKey'
  BY <1>1, <1>3, <1>5 DEF IInv, Shape, WaitsForItsKey, Interest
<1>9. NewUnstarted'
  BY <1>1, <1>3, <1>5 DEF IInv, NewUnstarted
<1>10. WaiterCountExact'
  BY <1>4, <1>5 DEF IInv, WaiterCountExact
<1>11. SharedWorkSurvives'
  BY <1>4, <1>5 DEF IInv, SharedWorkSurvives
<1>12. LiveLoads' = LiveLoads /\ f \notin LiveLoads
  BY <1>2, <1>5 DEF LiveLoads, Done
<1>13. OneLoadPerKey' /\ NoAbandonedLoad'
  BY <1>2, <1>4, <1>12 DEF IInv, OneLoadPerKey, NoAbandonedLoad, LiveLoads
<1>. QED
  BY <1>6, <1>7, <1>8, <1>9, <1>10, <1>11, <1>13 DEF IInv

\* A cancelled waiter leaves.  The count says whether it is the last one, so
\* the flight is told to stop exactly when nobody is left.
LEMMA LeavePreserves ==
    ASSUME IInv, ConstantsAssumption, NEW r \in Requests, ResumeCancelled(r)
    PROVE  IInv'
<1>0. request[r].stage \in Interest
  BY DEF ResumeCancelled, Interest
<1>1. PICK f \in Requests : f = request[r].flight
  BY <1>0 DEF IInv, Shape
<1>2. PICK abandon \in BOOLEAN : abandon <=> (flight[f].waiters = 1 /\ ~Done(f))
  OBVIOUS
<1>3. /\ Enters(r, "cancelled", f)
      /\ flight' = [flight EXCEPT ![f].waiters = @ - 1, ![f].cancel = @ \/ abandon]
      /\ UNCHANGED callbacks
  BY <1>1, <1>2 DEF ResumeCancelled
<1>4. inFlight' = IF abandon /\ KeyOf[r] \in DOMAIN inFlight /\ inFlight[KeyOf[r]] = f
                  THEN [other \in DOMAIN inFlight \ {KeyOf[r]} |-> inFlight[other]]
                  ELSE inFlight
  BY <1>1, <1>2 DEF ResumeCancelled
<1>5. /\ request' = [q \in Requests |-> [stage |-> request'[q].stage, flight |-> request'[q].flight]]
      /\ request'[r].stage = "cancelled"
      /\ \A q \in Requests \ {r} : request'[q] = request[q]
  BY <1>3, EnterEffect DEF IInv
<1>6. /\ Interested(f)' = Interested(f) \ {r}
      /\ flight[f].waiters >= 1
      /\ Cardinality(Interested(f)') = flight[f].waiters - 1
      /\ flight[f].waiters = 1 <=> Interested(f)' = {}
      /\ \A g \in Requests \ {f} : Interested(g)' = Interested(g)
  <2>1. Shape /\ WaiterCountExact /\ "cancelled" \notin Interest
    BY DEF IInv, Interest
  <2>. QED
    BY <1>0, <1>1, <1>3, <2>1, LeaveCounts
<1>7. /\ flight' \in [Requests -> [stage : FlightStages, waiters : Nat, cancel : BOOLEAN]]
      /\ flight'[f].waiters = flight[f].waiters - 1
      /\ flight'[f].cancel <=> (flight[f].cancel \/ abandon)
      /\ \A g \in Requests \ {f} : flight'[g] = flight[g]
      /\ \A g \in Requests : flight'[g].stage = flight[g].stage
  <2>1. /\ flight \in [Requests -> [stage : FlightStages, waiters : Nat, cancel : BOOLEAN]]
        /\ flight[f].waiters - 1 \in Nat
    BY <1>6 DEF IInv, Shape
  <2>2. PICK counted : counted = [flight EXCEPT ![f].waiters = @ - 1]
    OBVIOUS
  <2>3. /\ counted \in [Requests -> [stage : FlightStages, waiters : Nat, cancel : BOOLEAN]]
        /\ counted[f].waiters = flight[f].waiters - 1
        /\ counted[f].cancel = flight[f].cancel
        /\ \A g \in Requests \ {f} : counted[g] = flight[g]
        /\ \A g \in Requests : counted[g].stage = flight[g].stage
    BY <2>1, <2>2
  <2>4. flight' = [counted EXCEPT ![f].cancel = @ \/ abandon]
    BY <1>3, <2>2
  <2>. QED
    BY <2>3, <2>4
<1>8. /\ inFlight' = [k \in DOMAIN inFlight' |-> inFlight'[k]]
      /\ DOMAIN inFlight' \subseteq DOMAIN inFlight
      /\ \A k \in DOMAIN inFlight' : inFlight'[k] = inFlight[k]
      /\ \A k \in DOMAIN inFlight : k \in DOMAIN inFlight' \/ (abandon /\ inFlight[k] = f)
      /\ abandon /\ KeyOf[r] \in DOMAIN inFlight' => inFlight'[KeyOf[r]] # f
  BY <1>4 DEF IInv, Shape
<1>9. Shape'
  <2>1. \A q \in Requests : request'[q].stage \in Interest => request'[q].flight \in Requests
    BY <1>5 DEF IInv, Shape, Interest
  <2>2. request' = [q \in Requests |-> [stage |-> request'[q].stage, flight |-> request'[q].flight]]
    BY <1>5
  <2>. QED
    BY <1>3, <1>7, <1>8, <2>1, <2>2 DEF IInv, Shape
<1>10. RegisteredUsable'
  <2>. SUFFICES ASSUME NEW k \in DOMAIN inFlight'
                PROVE  /\ KeyOf[inFlight'[k]] = k
                       /\ flight'[inFlight'[k]].stage # "none"
                       /\ ~flight'[inFlight'[k]].cancel
    BY DEF RegisteredUsable
  <2>1. /\ inFlight'[k] = inFlight[k]
        /\ inFlight[k] \in Requests
        /\ KeyOf[inFlight[k]] = k
        /\ flight[inFlight[k]].stage # "none"
        /\ ~flight[inFlight[k]].cancel
    BY <1>8 DEF IInv, Shape, RegisteredUsable
  <2>2. CASE inFlight[k] # f
    BY <2>1, <2>2, <1>7
  <2>3. CASE inFlight[k] = f
    <3>1. KeyOf[f] = KeyOf[r]
      BY <1>0, <1>1 DEF IInv, WaitsForItsKey
    <3>2. ~abandon
      BY <2>1, <2>3, <3>1, <1>8
    <3>. QED
      BY <2>1, <2>3, <3>2, <1>7
  <2>. QED
    BY <2>2, <2>3
<1>11. WaitsForItsKey'
  BY <1>5, <1>7 DEF IInv, Shape, WaitsForItsKey, Interest
<1>12. NewUnstarted'
  BY <1>5, <1>7 DEF IInv, NewUnstarted
<1>13. CallbacksDone'
  BY <1>3, <1>7 DEF IInv, Shape, CallbacksDone, Done
<1>14. WaiterCountExact'
  BY <1>6, <1>7 DEF IInv, WaiterCountExact
<1>15. SharedWorkSurvives'
  <2>1. abandon => Interested(f)' = {}
    BY <1>2, <1>6
  <2>2. flight[f].cancel => Interested(f)' = {}
    BY <1>6 DEF IInv, SharedWorkSurvives
  <2>3. \A g \in Requests \ {f} : flight'[g].cancel => Interested(g)' = {}
    BY <1>6, <1>7 DEF IInv, SharedWorkSurvives
  <2>. QED
    BY <1>7, <2>1, <2>2, <2>3 DEF SharedWorkSurvives
<1>16. /\ LiveLoads' \subseteq LiveLoads
       /\ f \in LiveLoads' => ~abandon
  BY <1>7 DEF LiveLoads
<1>17. OneLoadPerKey'
  BY <1>8, <1>16 DEF IInv, OneLoadPerKey
<1>18. NoAbandonedLoad'
  <2>1. f \in LiveLoads' => ~Done(f)
    BY <1>7 DEF LiveLoads, Done
  <2>2. f \in LiveLoads' => Interested(f)' # {}
    BY <1>2, <1>6, <1>16, <2>1
  <2>3. \A g \in LiveLoads' \ {f} : g \in Requests /\ Interested(g)' # {}
    BY <1>6, <1>16 DEF IInv, NoAbandonedLoad, LiveLoads
  <2>. QED
    BY <2>2, <2>3 DEF NoAbandonedLoad
<1>. QED
  BY <1>9, <1>10, <1>11, <1>12, <1>13, <1>14, <1>15, <1>17, <1>18 DEF IInv

\* A load ends, one way or another; its callback is still to run.
LEMMA EndsPreserves ==
    ASSUME IInv, NEW f \in Requests,
           NEW stage, stage \in {"loaded", "failed", "cancelled"}, Ends(f, stage),
           UNCHANGED <<request, inFlight>>
    PROVE  IInv'
<1>1. /\ flight[f].stage = "loading"
      /\ flight' = [flight EXCEPT ![f].stage = stage]
      /\ callbacks' = callbacks \cup {f}
  BY DEF Ends
<1>2. /\ flight' \in [Requests -> [stage : FlightStages, waiters : Nat, cancel : BOOLEAN]]
      /\ flight'[f].stage = stage
      /\ \A g \in Requests \ {f} : flight'[g] = flight[g]
      /\ \A g \in Requests : flight'[g].waiters = flight[g].waiters /\ flight'[g].cancel = flight[g].cancel
  BY <1>1 DEF IInv, Shape, FlightStages
<1>3. \A g \in Requests : Interested(g)' = Interested(g)
  BY DEF Interested
<1>4. Shape'
  BY <1>1, <1>2 DEF IInv, Shape
<1>5. RegisteredUsable' /\ WaitsForItsKey'
  BY <1>2 DEF IInv, Shape, RegisteredUsable, WaitsForItsKey
<1>6. NewUnstarted'
  BY <1>1, <1>2 DEF IInv, NewUnstarted
<1>7. CallbacksDone'
  BY <1>1, <1>2 DEF IInv, Shape, CallbacksDone, Done
<1>8. WaiterCountExact' /\ SharedWorkSurvives'
  BY <1>2, <1>3 DEF IInv, WaiterCountExact, SharedWorkSurvives
<1>9. LiveLoads' = LiveLoads \ {f}
  BY <1>2 DEF LiveLoads
<1>10. OneLoadPerKey' /\ NoAbandonedLoad'
  BY <1>3, <1>9 DEF IInv, OneLoadPerKey, NoAbandonedLoad, LiveLoads
<1>. QED
  BY <1>4, <1>5, <1>6, <1>7, <1>8, <1>10 DEF IInv

\* The callback of a flight that is over unregisters that flight or nothing,
\* so a live one keeps its entry.
LEMMA FinishedPreserves ==
    ASSUME IInv, NEW f \in Requests, Finished(f)
    PROVE  IInv'
<1>1. /\ f \in callbacks
      /\ callbacks' = callbacks \ {f}
      /\ inFlight' = [k \in {key \in DOMAIN inFlight : ~(key = KeyOf[f] /\ inFlight[key] = f)}
                          |-> inFlight[k]]
      /\ UNCHANGED <<request, flight>>
  BY DEF Finished
<1>2. /\ inFlight' = [k \in DOMAIN inFlight' |-> inFlight'[k]]
      /\ DOMAIN inFlight' \subseteq DOMAIN inFlight
      /\ \A k \in DOMAIN inFlight' : inFlight'[k] = inFlight[k]
      /\ \A k \in DOMAIN inFlight : k \in DOMAIN inFlight' \/ inFlight[k] = f
  BY <1>1
<1>3. \A g \in Requests : Interested(g)' = Interested(g)
  BY <1>1 DEF Interested
<1>4. Shape'
  BY <1>1, <1>2 DEF IInv, Shape
<1>5. RegisteredUsable' /\ WaitsForItsKey' /\ NewUnstarted' /\ CallbacksDone'
  BY <1>1, <1>2 DEF IInv, RegisteredUsable, WaitsForItsKey, NewUnstarted, CallbacksDone, Done
<1>6. WaiterCountExact' /\ SharedWorkSurvives'
  BY <1>1, <1>3 DEF IInv, WaiterCountExact, SharedWorkSurvives
<1>7. LiveLoads' = LiveLoads /\ f \notin LiveLoads
  BY <1>1 DEF IInv, CallbacksDone, Done, LiveLoads
<1>8. OneLoadPerKey'
  BY <1>2, <1>7 DEF IInv, OneLoadPerKey
<1>9. NoAbandonedLoad'
  BY <1>3, <1>7 DEF IInv, NoAbandonedLoad, LiveLoads
<1>. QED
  BY <1>4, <1>5, <1>6, <1>8, <1>9 DEF IInv

LEMMA StutterPreserves ==
    ASSUME IInv, UNCHANGED <<request, flight, inFlight, callbacks>>
    PROVE  IInv'
<1>1. \A g \in Requests : Interested(g)' = Interested(g)
  BY DEF Interested
<1>2. Shape' /\ RegisteredUsable' /\ WaitsForItsKey' /\ NewUnstarted' /\ CallbacksDone'
  BY DEF IInv, Shape, RegisteredUsable, WaitsForItsKey, NewUnstarted, CallbacksDone, Done
<1>3. WaiterCountExact' /\ SharedWorkSurvives'
  BY <1>1 DEF IInv, WaiterCountExact, SharedWorkSurvives
<1>4. LiveLoads' = LiveLoads
  BY DEF LiveLoads
<1>5. OneLoadPerKey' /\ NoAbandonedLoad'
  BY <1>1, <1>4 DEF IInv, OneLoadPerKey, NoAbandonedLoad, LiveLoads
<1>. QED
  BY <1>2, <1>3, <1>5 DEF IInv

-----------------------------------------------------------------------------
(* The theorems about the flights *)

\* The invariant above holds throughout.
THEOREM InvariantHolds == Spec => []IInv
<1>1. ConstantsAssumption
  BY ConstantsAssumption
<1>2. Init => IInv
  BY <1>1, InitEstablishes
<1>3. IInv /\ [Next]_vars => IInv'
  <2>. SUFFICES ASSUME IInv, [Next]_vars PROVE IInv'
    OBVIOUS
  <2>1. ASSUME NEW r \in Requests, Search(r) PROVE IInv'
    <3>1. CASE SearchHit(r)
      <4>1. PICK f : Enters(r, "served", f)
        BY <3>1 DEF SearchHit
      <4>. QED
        BY <3>1, <4>1, AnsweredAtOnce DEF SearchHit
    <3>2. CASE SearchJoin(r)
      BY <3>2, <1>1, JoinPreserves
    <3>3. CASE SearchJoinDone(r)
      <4>1. PICK f, stage : /\ stage \in {"served", "failed", "cancelled"}
                            /\ Enters(r, stage, f)
        BY <3>3 DEF SearchJoinDone, Done
      <4>2. request[r].stage = "new" /\ UNCHANGED <<flight, inFlight, callbacks>>
        BY <3>3 DEF SearchJoinDone, CacheMiss
      <4>. QED
        BY <4>1, <4>2, AnsweredAtOnce
    <3>4. CASE SearchStart(r)
      BY <3>4, <1>1, StartPreserves
    <3>. QED
      BY <2>1, <3>1, <3>2, <3>3, <3>4 DEF Search
  <2>2. ASSUME NEW r \in Requests, Cancel(r) PROVE IInv'
    BY <2>2, CancelPreserves
  <2>3. ASSUME NEW r \in Requests, Resume(r) PROVE IInv'
    BY <2>3, <1>1, ResumePreserves
  <2>4. ASSUME NEW r \in Requests, ResumeCancelled(r) PROVE IInv'
    BY <2>4, <1>1, LeavePreserves
  <2>5. ASSUME NEW r \in Requests, Load(r) PROVE IInv'
    <3>1. /\ UNCHANGED <<request, inFlight>>
          /\ Ends(r, "loaded") \/ Ends(r, "failed") \/ Ends(r, "cancelled")
      BY <2>5 DEF Load, LoadSucceeds, LoadFails, LoadCancelled
    <3>. QED
      BY <3>1, EndsPreserves
  <2>6. ASSUME NEW r \in Requests, Finished(r) PROVE IInv'
    BY <2>6, FinishedPreserves
  <2>7. CASE Tick
    BY <2>7, StutterPreserves DEF Tick
  <2>8. CASE UNCHANGED vars
    BY <2>8, StutterPreserves DEF vars
  <2>. QED
    BY <2>1, <2>2, <2>3, <2>4, <2>5, <2>6, <2>7, <2>8 DEF Next
<1>. QED
  BY <1>2, <1>3, PTL DEF Spec

\* The count on which _search_adapter decides to give a shared search up is
\* the number of requests that entered it and have not left.
THEOREM WaitersAreCounted == Spec => []WaiterCountExact
<1>1. IInv => WaiterCountExact
  BY DEF IInv
<1>. QED
  BY <1>1, InvariantHolds, PTL

\* A shared search that was told to stop has nobody waiting for it, so
\* cancelling one request never reaches another.
THEOREM CancellationIsNotShared == Spec => []SharedWorkSurvives
<1>1. IInv => SharedWorkSurvives
  BY DEF IInv
<1>. QED
  BY <1>1, InvariantHolds, PTL

\* Two searches of one key never run at once, but for one that was told to
\* stop; late callbacks never unregister a newer search.
THEOREM KeysAreSearchedOnce == Spec => []OneLoadPerKey
<1>1. IInv => OneLoadPerKey
  BY DEF IInv
<1>. QED
  BY <1>1, InvariantHolds, PTL

\* A search nobody waits for has been told to stop.
THEOREM LoadsHaveWaiters == Spec => []NoAbandonedLoad
<1>1. IInv => NoAbandonedLoad
  BY DEF IInv
<1>. QED
  BY <1>1, InvariantHolds, PTL

-----------------------------------------------------------------------------
(* The cache *)

\* A result f is in the cache, under the key k.
Cached(k, f) == \E i \in DOMAIN cache : cache[i].key = k /\ cache[i].value = f

\* Somebody was given the result of the flight f, or has yet to leave it.
Wanted(f) ==
    \E r \in Requests :
        request[r].flight = f /\ request[r].stage \in {"waiting", "cancelling", "served"}

\* What is cached is the result of a flight of that key which has loaded, so
\* that no later failure or cancellation can take its last request away.
CachedIsWanted ==
    \A k \in Keys, f \in Requests : Cached(k, f) =>
        /\ KeyOf[f] = k
        /\ flight[f].stage = "loaded"
        /\ Wanted(f)

CacheInv == TypeOK /\ CachedIsWanted

KeysOnce(entries) ==
    \A i, j \in DOMAIN entries : entries[i].key = entries[j].key => i = j

\* Entries of a cache in some order, each key once.
Entries(entries) ==
    /\ entries \in Seq(CacheEntry)
    /\ KeysOnce(entries)

\* The places of a sequence are numbers.
LEMMA EntriesType ==
    ASSUME NEW entries, Entries(entries)
    PROVE  /\ Len(entries) \in Nat
           /\ DOMAIN entries = 1..Len(entries)
           /\ \A i \in 1..Len(entries) : entries[i] \in CacheEntry
<1>1. entries \in Seq(CacheEntry)
  BY DEF Entries
<1>. QED
  BY <1>1, LenProperties, ElementOfSeq

\* Which of the places in K the place i is.
Rank(i, K) == Cardinality({j \in 1..i : j \in K})

\* Every rank occurs among finitely many places.
LEMMA PlaceOfRank ==
    ASSUME NEW len \in Nat, NEW K \in SUBSET (1..len)
    PROVE  /\ Cardinality(K) \in Nat
           /\ Cardinality(K) =< len
           /\ K # 1..len => Cardinality(K) < len
           /\ \A n \in 1..Cardinality(K) : \E j \in K : Rank(j, K) = n
<1>. DEFINE below(j) == {k \in 1..j : k \in K}
            rank == [j \in K |-> Cardinality(below(j))]
<1>1. /\ IsFiniteSet(K) /\ Cardinality(K) \in Nat
      /\ Cardinality(K) =< len
      /\ K # 1..len => Cardinality(K) < len
  <2>1. IsFiniteSet(1..len) /\ Cardinality(1..len) = len
    BY FS_Interval
  <2>2. IsFiniteSet(K) /\ Cardinality(K) =< len /\ (K # 1..len => Cardinality(K) # len)
    BY <2>1, FS_Subset
  <2>3. Cardinality(K) \in Nat
    BY <2>2, FS_CardinalityType
  <2>. QED
    BY <2>2, <2>3
<1>2. ASSUME NEW j \in K
      PROVE  IsFiniteSet(below(j)) /\ Cardinality(below(j)) \in 1..Cardinality(K)
  <2>1. below(j) \in SUBSET K /\ j \in below(j)
    OBVIOUS
  <2>2. IsFiniteSet(below(j)) /\ Cardinality(below(j)) =< Cardinality(K)
    BY <1>1, <2>1, FS_Subset
  <2>3. Cardinality(below(j)) \in Nat /\ Cardinality(below(j)) # 0
    BY <2>1, <2>2, FS_CardinalityType, FS_EmptySet
  <2>. QED
    BY <1>1, <2>2, <2>3
<1>3. ASSUME NEW i \in K, NEW j \in K, i < j
      PROVE  rank[i] # rank[j]
  <2>1. below(i) \in SUBSET below(j) /\ j \in below(j) /\ j \notin below(i)
    BY <1>3
  <2>2. below(i) # below(j) /\ IsFiniteSet(below(j))
    BY <1>2, <2>1
  <2>3. Cardinality(below(i)) # Cardinality(below(j))
    BY <2>1, <2>2, FS_Subset
  <2>. QED
    BY <2>3
<1>4. rank \in [K -> 1..Cardinality(K)]
  BY <1>2
<1>5. \A i, j \in K : rank[i] = rank[j] => i = j
  <2>. HIDE DEF rank
  <2>. QED
    BY <1>3
<1>6. \A n \in 1..Cardinality(K) : \E j \in K : rank[j] = n
  <2>1. IsFiniteSet(1..Cardinality(K)) /\ Cardinality(1..Cardinality(K)) = Cardinality(K)
    BY <1>1, FS_Interval
  <2>. HIDE DEF rank
  <2>2. rank \in Injection(K, 1..Cardinality(K))
    BY <1>4, <1>5 DEF Injection, IsInjective
  <2>3. rank \in Surjection(K, 1..Cardinality(K))
    BY <2>1, <2>2, FS_Injection
  <2>. QED
    BY <2>3 DEF Surjection
<1>. QED
  BY <1>1, <1>6 DEF Rank

\* Only some of the entries: fewer, in a cache of its own right.
LEMMA OnlyEffect ==
    ASSUME Entries(cache), NEW places \in SUBSET DOMAIN cache
    PROVE  /\ Entries(Only(places))
           /\ Len(Only(places)) =< Len(cache)
           /\ places # DOMAIN cache => Len(Only(places)) < Len(cache)
           /\ \A n \in DOMAIN Only(places) : \E i \in places : Only(places)[n] = cache[i]
<1>. DEFINE size == Cardinality(places)
            at == [n \in 1..size |-> CHOOSE i \in places : Rank(i, places) = n]
<1>1. Len(cache) \in Nat /\ DOMAIN cache = 1..Len(cache)
      /\ \A i \in 1..Len(cache) : cache[i] \in CacheEntry
  BY EntriesType
<1>2. /\ size \in Nat /\ size =< Len(cache)
      /\ places # DOMAIN cache => size < Len(cache)
      /\ \A n \in 1..size : \E i \in places : Rank(i, places) = n
  <2>1. places \in SUBSET (1..Len(cache)) /\ Len(cache) \in Nat
    BY <1>1
  <2>. QED
    BY <1>1, <2>1, PlaceOfRank
<1>3. \A n \in 1..size : at[n] \in places /\ Rank(at[n], places) = n
  BY <1>2
<1>4. Only(places) = [n \in 1..size |-> cache[at[n]]]
  BY DEF Only, Rank
<1>. HIDE DEF at, size
<1>5. \A m, n \in 1..size : at[m] = at[n] => m = n
  BY <1>3
<1>6. /\ DOMAIN Only(places) = 1..size
      /\ \A n \in 1..size : Only(places)[n] = cache[at[n]] /\ at[n] \in DOMAIN cache
  BY <1>3, <1>4
<1>7. Only(places) \in Seq(CacheEntry) /\ Len(Only(places)) = size
  <2>1. Only(places) \in [1..size -> CacheEntry]
    BY <1>1, <1>4, <1>6
  <2>. QED
    BY <1>2, <2>1, SeqDef, LenProperties
<1>8. KeysOnce(Only(places))
  BY <1>5, <1>6 DEF KeysOnce, Entries
<1>. QED
  BY <1>2, <1>3, <1>6, <1>7, <1>8 DEF Entries

\* One more entry, of a key that is not there.
LEMMA AppendEffect ==
    ASSUME NEW entries, Entries(entries), NEW entry \in CacheEntry,
           \A n \in DOMAIN entries : entries[n].key # entry.key
    PROVE  /\ Entries(Append(entries, entry))
           /\ Len(Append(entries, entry)) = Len(entries) + 1
           /\ \A n \in DOMAIN Append(entries, entry) :
                 \/ Append(entries, entry)[n] = entry
                 \/ \E i \in DOMAIN entries : Append(entries, entry)[n] = entries[i]
<1>. DEFINE more == Append(entries, entry)
            len == Len(entries)
<1>1. len \in Nat /\ DOMAIN entries = 1..len
  BY EntriesType
<1>2. entries \in Seq(CacheEntry)
  BY DEF Entries
<1>3. /\ more \in Seq(CacheEntry)
      /\ Len(more) = len + 1
      /\ \A n \in 1..len : more[n] = entries[n]
      /\ more[len + 1] = entry
  BY <1>2, AppendProperties
<1>4. DOMAIN more = 1..(len + 1)
  BY <1>3, LenProperties
<1>. HIDE DEF more, len
<1>5. \A n \in 1..(len + 1) : n \in 1..len \/ n = len + 1
  BY <1>1
<1>6. KeysOnce(more)
  BY <1>1, <1>3, <1>4, <1>5 DEF KeysOnce, Entries
<1>7. \A n \in DOMAIN more : more[n] = entry \/ \E i \in DOMAIN entries : more[n] = entries[i]
  BY <1>1, <1>3, <1>4, <1>5
<1>. QED
  BY <1>3, <1>6, <1>7 DEF Entries, more, len

\* The first entry is dropped.
LEMMA TailEffect ==
    ASSUME NEW entries, Entries(entries), Len(entries) > 0
    PROVE  /\ Entries(Tail(entries))
           /\ Len(Tail(entries)) = Len(entries) - 1
           /\ \A n \in DOMAIN Tail(entries) : \E i \in DOMAIN entries : Tail(entries)[n] = entries[i]
<1>. DEFINE len == Len(entries)
            rest == Tail(entries)
<1>1. len \in Nat /\ DOMAIN entries = 1..len /\ entries # <<>>
  BY EntriesType
<1>2. entries \in Seq(CacheEntry)
  BY DEF Entries
<1>3. /\ rest \in Seq(CacheEntry)
      /\ Len(rest) = len - 1
      /\ \A n \in 1..(len - 1) : rest[n] = entries[n + 1]
  BY <1>1, <1>2, HeadTailProperties
<1>4. DOMAIN rest = 1..(len - 1)
  BY <1>3, LenProperties
<1>. HIDE DEF rest, len
<1>5. \A n \in 1..(len - 1) : n + 1 \in 1..len
  BY <1>1
<1>6. \A i, j \in 1..len : entries[i].key = entries[j].key => i = j
  BY <1>1 DEF Entries, KeysOnce
<1>7. KeysOnce(rest)
  <2>. SUFFICES ASSUME NEW m \in 1..(len - 1), NEW n \in 1..(len - 1), rest[m].key = rest[n].key
                PROVE  m = n
    BY <1>4 DEF KeysOnce
  <2>1. m + 1 = n + 1
    BY <1>3, <1>5, <1>6
  <2>. QED
    BY <1>1, <2>1
<1>. QED
  BY <1>1, <1>3, <1>4, <1>5, <1>7 DEF Entries, rest, len

\* What a key is given up with: its entry goes, the others stay.
LEMMA ForgetEffect ==
    ASSUME CacheTypeOK, ConstantsAssumption, NEW k
    PROVE  /\ Entries(WithoutKey(k))
           /\ Len(WithoutKey(k)) =< MaxCacheEntries
           /\ (\E i \in DOMAIN cache : cache[i].key = k) => Len(WithoutKey(k)) < MaxCacheEntries
           /\ \A n \in DOMAIN WithoutKey(k) :
                 \E i \in DOMAIN cache : WithoutKey(k)[n] = cache[i] /\ cache[i].key # k
<1>. DEFINE places == {i \in DOMAIN cache : cache[i].key # k}
<1>1. Entries(cache) /\ Len(cache) =< MaxCacheEntries
  BY DEF CacheTypeOK, Entries, KeysOnce
<1>2. /\ Entries(Only(places))
      /\ Len(Only(places)) =< Len(cache)
      /\ places # DOMAIN cache => Len(Only(places)) < Len(cache)
      /\ \A n \in DOMAIN Only(places) : \E i \in places : Only(places)[n] = cache[i]
  BY <1>1, OnlyEffect
<1>3. Len(cache) \in Nat /\ Len(Only(places)) \in Nat /\ MaxCacheEntries \in Nat
  BY <1>1, <1>2, EntriesType DEF ConstantsAssumption
<1>4. (\E i \in DOMAIN cache : cache[i].key = k) => places # DOMAIN cache
  OBVIOUS
<1>5. Only(places) = WithoutKey(k)
  BY DEF WithoutKey
<1>6. \A i \in places : i \in DOMAIN cache /\ cache[i].key # k
  OBVIOUS
<1>. HIDE DEF places
<1>. QED
  BY <1>1, <1>2, <1>3, <1>4, <1>5, <1>6

\* A hit moves its entry to the end.
LEMMA HitEffect ==
    ASSUME CacheTypeOK, ConstantsAssumption, NEW k, NEW i \in FreshEntries(k),
           cache' = Append(WithoutKey(k), cache[i])
    PROVE  /\ CacheTypeOK'
           /\ \A n \in DOMAIN cache' : \E j \in DOMAIN cache : cache'[n] = cache[j]
<1>1. i \in DOMAIN cache /\ cache[i].key = k
  BY DEF FreshEntries
<1>2. cache[i] \in CacheEntry
  BY <1>1, EntriesType DEF CacheTypeOK, Entries, KeysOnce
<1>3. /\ Entries(WithoutKey(k))
      /\ Len(WithoutKey(k)) < MaxCacheEntries
      /\ \A n \in DOMAIN WithoutKey(k) :
            \E j \in DOMAIN cache : WithoutKey(k)[n] = cache[j] /\ cache[j].key # k
  BY <1>1, ForgetEffect
<1>4. Len(WithoutKey(k)) \in Nat /\ MaxCacheEntries \in Nat
  BY <1>3, EntriesType DEF ConstantsAssumption
<1>5. /\ Entries(cache')
      /\ Len(cache') = Len(WithoutKey(k)) + 1
      /\ \A n \in DOMAIN cache' :
            \/ cache'[n] = cache[i]
            \/ \E j \in DOMAIN WithoutKey(k) : cache'[n] = WithoutKey(k)[j]
  BY <1>1, <1>2, <1>3, AppendEffect
<1>6. Len(cache') =< MaxCacheEntries
  BY <1>3, <1>4, <1>5
<1>7. \A n \in DOMAIN cache' : \E j \in DOMAIN cache : cache'[n] = cache[j]
  BY <1>1, <1>3, <1>5
<1>. QED
  BY <1>5, <1>6, <1>7 DEF CacheTypeOK, Entries, KeysOnce

\* A new result is the last entry, and the cache never outgrows its limit.
LEMMA SetEffect ==
    ASSUME CacheTypeOK, ConstantsAssumption, now \in Nat,
           NEW k \in Keys, NEW f \in Requests, cache' = CacheSet(k, f)
    PROVE  /\ CacheTypeOK'
           /\ \A n \in DOMAIN cache' :
                 \/ cache'[n].key = k /\ cache'[n].value = f
                 \/ \E j \in DOMAIN cache : cache'[n] = cache[j]
<1>. DEFINE places == {i \in DOMAIN cache : cache[i].key # k /\ cache[i].expires > now}
            kept == Only(places)
            entry == [key |-> k, value |-> f, expires |-> now + CacheTtl]
            new == Append(kept, entry)
<1>1. Entries(cache) /\ Len(cache) =< MaxCacheEntries
  BY DEF CacheTypeOK, Entries, KeysOnce
<1>2. /\ Entries(kept)
      /\ Len(kept) =< Len(cache)
      /\ \A n \in DOMAIN kept : \E i \in places : kept[n] = cache[i]
  BY <1>1, OnlyEffect
<1>3. Len(cache) \in Nat /\ Len(kept) \in Nat /\ MaxCacheEntries \in Nat \ {0}
  BY <1>1, <1>2, EntriesType DEF ConstantsAssumption
<1>4. entry \in CacheEntry /\ entry.key = k /\ entry.value = f
  BY DEF CacheEntry, ConstantsAssumption
<1>5. \A i \in places : i \in DOMAIN cache /\ cache[i].key # k
  OBVIOUS
<1>6. cache' = IF Len(new) > MaxCacheEntries THEN Tail(new) ELSE new
  BY DEF CacheSet
<1>. HIDE DEF places, kept, entry
<1>7. /\ Entries(new)
      /\ Len(new) = Len(kept) + 1
      /\ \A n \in DOMAIN new : new[n] = entry \/ \E i \in DOMAIN kept : new[n] = kept[i]
  BY <1>2, <1>4, <1>5, AppendEffect
<1>. HIDE DEF new
<1>8. \A n \in DOMAIN new : new[n] = entry \/ \E j \in DOMAIN cache : new[n] = cache[j]
  BY <1>2, <1>5, <1>7
<1>9. CASE Len(new) > MaxCacheEntries
  <2>0. Len(new) > 0 /\ cache' = Tail(new)
    BY <1>3, <1>6, <1>7, <1>9
  <2>1. /\ Entries(cache')
        /\ Len(cache') = Len(new) - 1
        /\ \A n \in DOMAIN cache' : \E i \in DOMAIN new : cache'[n] = new[i]
    BY <1>7, <2>0, TailEffect
  <2>2. Len(cache') =< MaxCacheEntries
    BY <1>1, <1>2, <1>3, <1>7, <2>1
  <2>. QED
    BY <1>4, <1>8, <2>1, <2>2 DEF CacheTypeOK, Entries, KeysOnce
<1>10. CASE ~(Len(new) > MaxCacheEntries)
  <2>1. cache' = new /\ Len(cache') =< MaxCacheEntries
    BY <1>3, <1>6, <1>7, <1>10
  <2>. QED
    BY <1>4, <1>7, <1>8, <2>1 DEF CacheTypeOK, Entries, KeysOnce
<1>. QED
  BY <1>9, <1>10

-----------------------------------------------------------------------------
(* What is cached is wanted *)

\* What a cache of entries holds is keyed and named as its entries are.
LEMMA CachedTyped ==
    ASSUME CacheTypeOK, NEW i \in DOMAIN cache
    PROVE  cache[i] \in CacheEntry /\ cache[i].key \in Keys /\ cache[i].value \in Requests
           /\ Cached(cache[i].key, cache[i].value)
<1>1. cache[i] \in CacheEntry
  BY EntriesType DEF CacheTypeOK, Entries, KeysOnce
<1>. QED
  BY <1>1 DEF CacheEntry, Cached

\* The property follows: it is the invariant, entry by entry.
LEMMA CacheInvImplies ==
    ASSUME CacheInv
    PROVE  AbandonedResultNotCached
<1>. SUFFICES ASSUME NEW i \in DOMAIN cache
              PROVE  Wanted(cache[i].value)
  BY DEF AbandonedResultNotCached, Wanted
<1>. QED
  BY CachedTyped DEF CacheInv, TypeOK, CachedIsWanted

\* A step in which requests, keys and the clock keep to their ranges.
LEMMA FlightTypeStays ==
    ASSUME FlightTypeOK, IInv', now' \in 0..Horizon, DOMAIN inFlight' \subseteq Keys,
           \A q \in Requests :
              \/ request'[q] = request[q]
              \/ request'[q].stage \in RequestStages /\ request'[q].flight \in Requests
    PROVE  FlightTypeOK'
<1>1. \A q \in Requests : request'[q].stage \in RequestStages /\ request'[q].flight \in Requests
  BY DEF FlightTypeOK
<1>2. Shape'
  BY DEF IInv
<1>3. request' \in [Requests -> [stage : RequestStages, flight : Requests]]
  BY <1>1, <1>2 DEF Shape
<1>. QED
  BY <1>2, <1>3 DEF FlightTypeOK, Shape

\* A request that was of no account so far leaves everybody else wanted.
LEMMA NewcomerKeepsWanted ==
    ASSUME IInv, NEW r \in Requests, request[r].stage = "new",
           NEW stage, NEW g, Enters(r, stage, g), NEW f, Wanted(f)
    PROVE  Wanted(f)'
<1>1. \A q \in Requests \ {r} : request'[q] = request[q]
  BY EnterEffect DEF IInv
<1>. QED
  BY <1>1 DEF Wanted

\* A hit serves the request what is in the cache already.
LEMMA HitKeepsCache ==
    ASSUME IInv, CacheInv, IInv', ConstantsAssumption, NEW r \in Requests, SearchHit(r)
    PROVE  CacheInv'
<1>1. PICK i \in FreshEntries(KeyOf[r]) :
         /\ Enters(r, "served", cache[i].value)
         /\ cache' = Append(WithoutKey(KeyOf[r]), cache[i])
  BY DEF SearchHit
<1>2. i \in DOMAIN cache
  BY DEF FreshEntries
<1>3. CacheTypeOK
  BY DEF CacheInv, TypeOK
<1>4. cache[i].value \in Requests
  BY <1>2, <1>3, CachedTyped
<1>5. /\ CacheTypeOK'
      /\ \A n \in DOMAIN cache' : \E j \in DOMAIN cache : cache'[n] = cache[j]
  BY <1>1, <1>3, HitEffect
<1>6. /\ request[r].stage = "new"
      /\ UNCHANGED <<flight, inFlight, callbacks, now>>
  BY DEF SearchHit
<1>7. /\ request'[r].stage = "served" /\ request'[r].flight = cache[i].value
      /\ \A q \in Requests \ {r} : request'[q] = request[q]
  <2>1. PICK f : f = cache[i].value
    OBVIOUS
  <2>. QED
    BY <1>1, <2>1, EnterEffect DEF IInv
<1>8. FlightTypeOK'
  <2>1. \A q \in Requests :
           \/ request'[q] = request[q]
           \/ request'[q].stage \in RequestStages /\ request'[q].flight \in Requests
    BY <1>4, <1>7 DEF RequestStages
  <2>2. FlightTypeOK /\ now' \in 0..Horizon /\ DOMAIN inFlight' \subseteq Keys
    BY <1>6 DEF CacheInv, TypeOK, FlightTypeOK
  <2>. QED
    BY <2>1, <2>2, FlightTypeStays
<1>9. CachedIsWanted'
  <2>. SUFFICES ASSUME NEW k \in Keys, NEW f \in Requests, Cached(k, f)'
                PROVE  /\ KeyOf[f] = k
                       /\ flight'[f].stage = "loaded"
                       /\ Wanted(f)'
    BY DEF CachedIsWanted
  <2>1. Cached(k, f)
    BY <1>5 DEF Cached
  <2>2. KeyOf[f] = k /\ flight[f].stage = "loaded" /\ Wanted(f)
    BY <2>1 DEF CacheInv, CachedIsWanted
  <2>3. Wanted(f)'
    BY <1>6, <1>7, <2>2 DEF Wanted
  <2>. QED
    BY <1>6, <2>2, <2>3
<1>. QED
  BY <1>5, <1>8, <1>9 DEF CacheInv, TypeOK

\* What forgetting a key leaves.
LEMMA ForgetKeepsTyped ==
    ASSUME CacheTypeOK, ConstantsAssumption, NEW k, cache' = WithoutKey(k)
    PROVE  /\ CacheTypeOK'
           /\ \A key, f : Cached(key, f)' => Cached(key, f) /\ key # k
<1>1. /\ Entries(cache')
      /\ Len(cache') =< MaxCacheEntries
      /\ \A n \in DOMAIN cache' : \E i \in DOMAIN cache : cache'[n] = cache[i] /\ cache[i].key # k
  BY ForgetEffect
<1>2. CacheTypeOK'
  BY <1>1 DEF CacheTypeOK, Entries, KeysOnce
<1>3. \A key, f : Cached(key, f)' => Cached(key, f) /\ key # k
  BY <1>1 DEF Cached
<1>. QED
  BY <1>2, <1>3

\* A newcomer that finds nothing fresh takes nothing away from anybody: the
\* flight it starts had not loaded, so nothing of it was cached.
LEMMA MissKeepsCache ==
    ASSUME IInv, CacheInv, IInv', ConstantsAssumption, NEW r \in Requests,
           CacheMiss(r), NEW stage \in RequestStages, NEW g \in Requests, Enters(r, stage, g),
           UNCHANGED now, DOMAIN inFlight' \subseteq Keys,
           \A f \in Requests : flight[f].stage = "loaded" => flight'[f].stage = "loaded"
    PROVE  CacheInv'
<1>1. request[r].stage = "new" /\ cache' = WithoutKey(KeyOf[r])
  BY DEF CacheMiss
<1>2. /\ CacheTypeOK'
      /\ \A key, f : Cached(key, f)' => Cached(key, f)
  BY <1>1, ForgetKeepsTyped DEF CacheInv, TypeOK
<1>3. /\ request'[r].stage = stage /\ request'[r].flight = g
      /\ \A q \in Requests \ {r} : request'[q] = request[q]
  BY EnterEffect DEF IInv
<1>4. FlightTypeOK'
  <2>1. \A q \in Requests :
           \/ request'[q] = request[q]
           \/ request'[q].stage \in RequestStages /\ request'[q].flight \in Requests
    BY <1>3
  <2>2. FlightTypeOK /\ now' \in 0..Horizon
    BY DEF CacheInv, TypeOK, FlightTypeOK
  <2>. QED
    BY <2>1, <2>2, FlightTypeStays
<1>5. CachedIsWanted'
  <2>. SUFFICES ASSUME NEW k \in Keys, NEW f \in Requests, Cached(k, f)'
                PROVE  /\ KeyOf[f] = k
                       /\ flight'[f].stage = "loaded"
                       /\ Wanted(f)'
    BY DEF CachedIsWanted
  <2>1. KeyOf[f] = k /\ flight[f].stage = "loaded" /\ Wanted(f)
    BY <1>2 DEF CacheInv, CachedIsWanted
  <2>2. Wanted(f)'
    BY <1>1, <2>1, NewcomerKeepsWanted
  <2>. QED
    BY <2>1, <2>2
<1>. QED
  BY <1>2, <1>4, <1>5 DEF CacheInv, TypeOK

\* The three ways on from a miss.
LEMMA SearchKeepsCache ==
    ASSUME IInv, CacheInv, IInv', ConstantsAssumption, NEW r \in Requests, Search(r)
    PROVE  CacheInv'
<1>1. CASE SearchHit(r)
  BY <1>1, HitKeepsCache
<1>2. CASE SearchJoin(r)
  <2>1. PICK f \in Requests : f = inFlight[KeyOf[r]]
    BY <1>2 DEF SearchJoin, IInv, Shape
  <2>2. /\ CacheMiss(r)
        /\ Enters(r, "waiting", f) /\ "waiting" \in RequestStages
        /\ flight' = [flight EXCEPT ![f].waiters = @ + 1]
        /\ UNCHANGED <<inFlight, callbacks, now>>
    BY <1>2, <2>1 DEF SearchJoin, RequestStages
  <2>3. \A g \in Requests : flight[g].stage = "loaded" => flight'[g].stage = "loaded"
    BY <2>2 DEF IInv, Shape
  <2>4. DOMAIN inFlight' \subseteq Keys
    BY <2>2 DEF CacheInv, TypeOK, FlightTypeOK
  <2>. QED
    BY <2>2, <2>3, <2>4, MissKeepsCache
<1>3. CASE SearchJoinDone(r)
  <2>1. PICK f \in Requests : f = inFlight[KeyOf[r]]
    BY <1>3 DEF SearchJoinDone, IInv, Shape
  <2>2. PICK stage \in RequestStages : Enters(r, stage, f)
    BY <1>3, <2>1 DEF SearchJoinDone, Done, RequestStages
  <2>3. CacheMiss(r) /\ UNCHANGED <<flight, inFlight, callbacks, now>>
    BY <1>3 DEF SearchJoinDone
  <2>4. DOMAIN inFlight' \subseteq Keys
    BY <2>3 DEF CacheInv, TypeOK, FlightTypeOK
  <2>. QED
    BY <2>2, <2>3, <2>4, MissKeepsCache
<1>4. CASE SearchStart(r)
  <2>1. /\ CacheMiss(r)
        /\ Enters(r, "waiting", r) /\ "waiting" \in RequestStages
        /\ flight' = [flight EXCEPT ![r] = [stage |-> "loading", waiters |-> 1, cancel |-> FALSE]]
        /\ DOMAIN inFlight' = DOMAIN inFlight \cup {KeyOf[r]}
        /\ UNCHANGED <<callbacks, now>>
    BY <1>4 DEF SearchStart, RequestStages
  <2>2. flight[r].stage = "none"
    BY <2>1 DEF CacheMiss, IInv, NewUnstarted
  <2>3. \A g \in Requests : flight[g].stage = "loaded" => flight'[g].stage = "loaded"
    BY <2>1, <2>2 DEF IInv, Shape
  <2>4. DOMAIN inFlight' \subseteq Keys
    BY <2>1 DEF CacheInv, TypeOK, FlightTypeOK, ConstantsAssumption
  <2>. QED
    BY <2>1, <2>3, <2>4, MissKeepsCache
<1>. QED
  BY <1>1, <1>2, <1>3, <1>4 DEF Search

\* A step that leaves the cache alone and moves one request at most.
LEMMA MoveKeepsCache ==
    ASSUME CacheInv, IInv', UNCHANGED cache, now' \in 0..Horizon, DOMAIN inFlight' \subseteq Keys,
           \A q \in Requests :
              \/ request'[q] = request[q]
              \/ request'[q].stage \in RequestStages /\ request'[q].flight \in Requests,
           \A f \in Requests : flight[f].stage = "loaded" /\ Wanted(f) =>
              flight'[f].stage = "loaded" /\ Wanted(f)'
    PROVE  CacheInv'
<1>1. FlightTypeOK'
  BY FlightTypeStays DEF CacheInv, TypeOK
<1>2. CacheTypeOK'
  BY DEF CacheInv, TypeOK, CacheTypeOK
<1>3. \A k, f : Cached(k, f)' <=> Cached(k, f)
  BY DEF Cached
<1>4. CachedIsWanted'
  BY <1>3 DEF CacheInv, CachedIsWanted
<1>. QED
  BY <1>1, <1>2, <1>4 DEF CacheInv, TypeOK

\* A waiter whose cancellation is requested has still to leave.
LEMMA CancelKeepsCache ==
    ASSUME IInv, CacheInv, IInv', NEW r \in Requests, Cancel(r)
    PROVE  CacheInv'
<1>1. /\ request'[r].stage = "cancelling"
      /\ request'[r].flight = request[r].flight
      /\ request[r].stage = "waiting"
      /\ \A q \in Requests \ {r} : request'[q] = request[q]
      /\ UNCHANGED <<flight, inFlight, callbacks, cache, now>>
  BY DEF Cancel, IInv, Shape
<1>2. \A f \in Requests : Wanted(f) => Wanted(f)'
  BY <1>1 DEF Wanted
<1>3. \A q \in Requests :
         \/ request'[q] = request[q]
         \/ request'[q].stage \in RequestStages /\ request'[q].flight \in Requests
  BY <1>1 DEF RequestStages, CacheInv, TypeOK, FlightTypeOK
<1>4. now' \in 0..Horizon /\ DOMAIN inFlight' \subseteq Keys
  BY <1>1 DEF CacheInv, TypeOK, FlightTypeOK
<1>. QED
  BY <1>1, <1>2, <1>3, <1>4, MoveKeepsCache

\* A waiter that resumes has been given the result, if there is one.
LEMMA ResumeKeepsCache ==
    ASSUME IInv, CacheInv, IInv', NEW r \in Requests, Resume(r)
    PROVE  CacheInv'
<1>1. PICK f \in Requests : f = request[r].flight
  BY DEF CacheInv, TypeOK, FlightTypeOK
<1>2. PICK stage : /\ stage = IF flight[f].stage = "loaded" THEN "served" ELSE "failed"
                   /\ Enters(r, stage, f)
  BY <1>1 DEF Resume
<1>3. /\ flight' = [flight EXCEPT ![f].waiters = @ - 1]
      /\ UNCHANGED <<inFlight, callbacks, cache, now>>
  BY <1>1 DEF Resume
<1>4. /\ request'[r].stage = stage /\ request'[r].flight = f
      /\ \A q \in Requests \ {r} : request'[q] = request[q]
  BY <1>2, EnterEffect DEF IInv
<1>5. \A g \in Requests : flight'[g].stage = flight[g].stage
  BY <1>3 DEF IInv, Shape
<1>6. \A g \in Requests : flight[g].stage = "loaded" /\ Wanted(g) => Wanted(g)'
  BY <1>1, <1>2, <1>4 DEF Wanted
<1>7. \A q \in Requests :
         \/ request'[q] = request[q]
         \/ request'[q].stage \in RequestStages /\ request'[q].flight \in Requests
  BY <1>2, <1>4 DEF RequestStages
<1>8. now' \in 0..Horizon /\ DOMAIN inFlight' \subseteq Keys
  BY <1>3 DEF CacheInv, TypeOK, FlightTypeOK
<1>. QED
  BY <1>3, <1>5, <1>6, <1>7, <1>8, MoveKeepsCache

\* The last to leave takes the result of the flight with it; anybody else
\* leaves others who are interested in it.
LEMMA LeaveKeepsCache ==
    ASSUME IInv, CacheInv, IInv', ConstantsAssumption, NEW r \in Requests, ResumeCancelled(r)
    PROVE  CacheInv'
<1>1. PICK f \in Requests : f = request[r].flight
  BY DEF CacheInv, TypeOK, FlightTypeOK
<1>2. request[r].stage \in Interest /\ KeyOf[f] = KeyOf[r]
  BY <1>1 DEF ResumeCancelled, Interest, IInv, WaitsForItsKey
<1>3. /\ Enters(r, "cancelled", f)
      /\ cache' = IF flight[f].waiters = 1 THEN WithoutKey(KeyOf[r]) ELSE cache
      /\ UNCHANGED now
  BY <1>1 DEF ResumeCancelled
<1>4. PICK abandon : flight' = [flight EXCEPT ![f].waiters = @ - 1, ![f].cancel = @ \/ abandon]
  BY <1>1 DEF ResumeCancelled
<1>5. \A g \in Requests : flight'[g].stage = flight[g].stage
  <2>1. PICK counted : counted = [flight EXCEPT ![f].waiters = @ - 1]
    OBVIOUS
  <2>2. flight' = [counted EXCEPT ![f].cancel = @ \/ abandon]
    BY <1>4, <2>1
  <2>3. \A g \in Requests : counted[g].stage = flight[g].stage
    BY <2>1 DEF IInv, Shape
  <2>4. DOMAIN counted = Requests
    BY <2>1 DEF IInv, Shape
  <2>. QED
    BY <2>2, <2>3, <2>4
<1>6. /\ request'[r].stage = "cancelled" /\ request'[r].flight = f
      /\ \A q \in Requests \ {r} : request'[q] = request[q]
  BY <1>3, EnterEffect DEF IInv
<1>7. flight[f].waiters = 1 <=> Interested(f)' = {}
  <2>1. Shape /\ WaiterCountExact /\ "cancelled" \notin Interest
    BY DEF IInv, Interest
  <2>. QED
    BY <1>1, <1>2, <1>3, <2>1, LeaveCounts
<1>8. FlightTypeOK'
  <2>1. \A q \in Requests :
           \/ request'[q] = request[q]
           \/ request'[q].stage \in RequestStages /\ request'[q].flight \in Requests
    BY <1>6 DEF RequestStages
  <2>2. now' \in 0..Horizon /\ FlightTypeOK
    BY <1>3 DEF CacheInv, TypeOK, FlightTypeOK
  <2>3. DOMAIN inFlight' \subseteq DOMAIN inFlight
    BY DEF ResumeCancelled
  <2>4. DOMAIN inFlight' \subseteq Keys
    BY <2>2, <2>3 DEF FlightTypeOK
  <2>. QED
    BY <2>1, <2>2, <2>4, FlightTypeStays
<1>9. \A g \in Requests \ {f} : Wanted(g) => Wanted(g)'
  BY <1>1, <1>6 DEF Wanted
<1>10. CASE flight[f].waiters = 1
  <2>1. cache' = WithoutKey(KeyOf[r])
    BY <1>3, <1>10
  <2>2. /\ CacheTypeOK'
        /\ \A key, g : Cached(key, g)' => Cached(key, g) /\ key # KeyOf[r]
    BY <2>1, ForgetKeepsTyped DEF CacheInv, TypeOK
  <2>3. CachedIsWanted'
    BY <1>2, <1>5, <1>9, <2>2 DEF CacheInv, CachedIsWanted
  <2>. QED
    BY <1>8, <2>2, <2>3 DEF CacheInv, TypeOK
<1>11. CASE flight[f].waiters # 1
  <2>1. cache' = cache
    BY <1>3, <1>11
  <2>2. Wanted(f)'
    <3>1. PICK q \in Requests : q \in Interested(f)'
      BY <1>7, <1>11 DEF Interested
    <3>. QED
      BY <3>1 DEF Interested, Wanted
  <2>3. \A k, g : Cached(k, g)' <=> Cached(k, g)
    BY <2>1 DEF Cached
  <2>4. CachedIsWanted'
    BY <1>5, <1>9, <2>2, <2>3 DEF CacheInv, CachedIsWanted
  <2>5. CacheTypeOK'
    BY <2>1 DEF CacheInv, TypeOK, CacheTypeOK
  <2>. QED
    BY <1>8, <2>4, <2>5 DEF CacheInv, TypeOK
<1>. QED
  BY <1>10, <1>11

\* A load that succeeds has not been told to stop, so somebody waits for the
\* result that enters the cache.
LEMMA LoadKeepsCache ==
    ASSUME IInv, CacheInv, IInv', ConstantsAssumption, NEW f \in Requests, LoadSucceeds(f)
    PROVE  CacheInv'
<1>1. /\ ~flight[f].cancel
      /\ flight[f].stage = "loading"
      /\ flight' = [flight EXCEPT ![f].stage = "loaded"]
      /\ cache' = CacheSet(KeyOf[f], f)
      /\ UNCHANGED <<request, inFlight, now>>
  BY DEF LoadSucceeds, Ends
<1>2. /\ flight'[f].stage = "loaded"
      /\ \A g \in Requests \ {f} : flight'[g] = flight[g]
  BY <1>1 DEF IInv, Shape
<1>3. Wanted(f)
  <2>1. f \in LiveLoads
    BY <1>1 DEF LiveLoads
  <2>2. PICK q \in Requests : q \in Interested(f)
    BY <2>1 DEF IInv, NoAbandonedLoad, Interested
  <2>. QED
    BY <2>2 DEF Interested, Wanted
<1>4. \A g \in Requests : Wanted(g) => Wanted(g)'
  BY <1>1 DEF Wanted
<1>5. KeyOf[f] \in Keys /\ CacheTypeOK /\ now \in Nat
  BY DEF ConstantsAssumption, CacheInv, TypeOK, FlightTypeOK
<1>6. /\ CacheTypeOK'
      /\ \A n \in DOMAIN cache' :
            \/ cache'[n].key = KeyOf[f] /\ cache'[n].value = f
            \/ \E j \in DOMAIN cache : cache'[n] = cache[j]
  BY <1>1, <1>5, SetEffect
<1>7. \A k, g : Cached(k, g)' => Cached(k, g) \/ (k = KeyOf[f] /\ g = f)
  BY <1>6 DEF Cached
<1>8. FlightTypeOK'
  <2>1. \A q \in Requests : request'[q] = request[q]
    BY <1>1
  <2>2. FlightTypeOK /\ now' \in 0..Horizon /\ DOMAIN inFlight' \subseteq Keys
    BY <1>1 DEF CacheInv, TypeOK, FlightTypeOK
  <2>. QED
    BY <2>1, <2>2, FlightTypeStays
<1>9. CachedIsWanted'
  <2>. SUFFICES ASSUME NEW k \in Keys, NEW g \in Requests, Cached(k, g)'
                PROVE  /\ KeyOf[g] = k
                       /\ flight'[g].stage = "loaded"
                       /\ Wanted(g)'
    BY DEF CachedIsWanted
  <2>1. CASE k = KeyOf[f] /\ g = f
    BY <1>2, <1>3, <1>4, <2>1
  <2>2. CASE Cached(k, g)
    <3>1. KeyOf[g] = k /\ flight[g].stage = "loaded" /\ Wanted(g)
      BY <2>2 DEF CacheInv, CachedIsWanted
    <3>2. g # f
      BY <1>1, <3>1
    <3>. QED
      BY <1>2, <1>4, <3>1, <3>2
  <2>. QED
    BY <1>7, <2>1, <2>2
<1>. QED
  BY <1>6, <1>8, <1>9 DEF CacheInv, TypeOK

\* A step that touches neither the requests nor the cache, nor what a loaded
\* flight is.
LEMMA QuietKeepsCache ==
    ASSUME CacheInv, IInv', UNCHANGED <<request, cache>>, now' \in 0..Horizon,
           DOMAIN inFlight' \subseteq DOMAIN inFlight,
           \A f \in Requests : flight[f].stage = "loaded" => flight'[f].stage = "loaded"
    PROVE  CacheInv'
<1>1. \A f \in Requests : Wanted(f) => Wanted(f)'
  BY DEF Wanted
<1>2. \A q \in Requests : request'[q] = request[q]
  OBVIOUS
<1>3. DOMAIN inFlight' \subseteq Keys
  BY DEF CacheInv, TypeOK, FlightTypeOK
<1>. QED
  BY <1>1, <1>2, <1>3, MoveKeepsCache

\* The cache is typed, and what it holds is wanted, throughout.
THEOREM CacheInvariance == Spec => []CacheInv
<1>1. ConstantsAssumption
  BY ConstantsAssumption
<1>2. Init => CacheInv
  <2>. SUFFICES ASSUME Init PROVE CacheInv
    OBVIOUS
  <2>1. FlightTypeOK
    BY <1>1 DEF Init, FlightTypeOK, RequestStages, FlightStages, ConstantsAssumption
  <2>2. cache = <<>> /\ DOMAIN cache = {}
    BY DEF Init
  <2>3. CacheTypeOK
    BY <1>1, <2>2 DEF CacheTypeOK, ConstantsAssumption
  <2>4. CachedIsWanted
    BY <2>2 DEF CachedIsWanted, Cached
  <2>. QED
    BY <2>1, <2>3, <2>4 DEF CacheInv, TypeOK
<1>3. CacheInv /\ IInv /\ IInv' /\ [Next]_vars => CacheInv'
  <2>. SUFFICES ASSUME CacheInv, IInv, IInv', [Next]_vars PROVE CacheInv'
    OBVIOUS
  <2>0. now \in 0..Horizon
    BY DEF CacheInv, TypeOK, FlightTypeOK
  <2>1. ASSUME NEW r \in Requests, Search(r) PROVE CacheInv'
    BY <2>1, <1>1, SearchKeepsCache
  <2>2. ASSUME NEW r \in Requests, Cancel(r) PROVE CacheInv'
    BY <2>2, CancelKeepsCache
  <2>3. ASSUME NEW r \in Requests, Resume(r) PROVE CacheInv'
    BY <2>3, ResumeKeepsCache
  <2>4. ASSUME NEW r \in Requests, ResumeCancelled(r) PROVE CacheInv'
    BY <2>4, <1>1, LeaveKeepsCache
  <2>5. ASSUME NEW r \in Requests, LoadSucceeds(r) PROVE CacheInv'
    BY <2>5, <1>1, LoadKeepsCache
  <2>6. ASSUME NEW r \in Requests, LoadFails(r) \/ LoadCancelled(r) PROVE CacheInv'
    <3>1. /\ UNCHANGED <<request, inFlight, cache, now>>
          /\ flight[r].stage = "loading"
          /\ \E stage : flight' = [flight EXCEPT ![r].stage = stage]
      BY <2>6 DEF LoadFails, LoadCancelled, Ends
    <3>2. \A f \in Requests : flight[f].stage = "loaded" => flight'[f].stage = "loaded"
      BY <3>1 DEF IInv, Shape
    <3>. QED
      BY <2>0, <3>1, <3>2, QuietKeepsCache
  <2>7. ASSUME NEW r \in Requests, Finished(r) PROVE CacheInv'
    <3>1. UNCHANGED <<request, flight, cache, now>> /\ DOMAIN inFlight' \subseteq DOMAIN inFlight
      BY <2>7 DEF Finished
    <3>. QED
      BY <2>0, <3>1, QuietKeepsCache
  <2>8. CASE Tick
    <3>1. UNCHANGED <<request, flight, inFlight, cache>> /\ now' \in 0..Horizon
      BY <1>1, <2>0, <2>8 DEF Tick, ConstantsAssumption
    <3>. QED
      BY <3>1, QuietKeepsCache
  <2>9. CASE UNCHANGED vars
    BY <2>0, <2>9, QuietKeepsCache DEF vars
  <2>. QED
    BY <2>1, <2>2, <2>3, <2>4, <2>5, <2>6, <2>7, <2>8, <2>9 DEF Next, Load
<1>. QED
  BY <1>2, <1>3, InvariantHolds, PTL DEF Spec

\* Requests, flights and the in-flight table keep their types; the cache holds
\* each key once and never more than _max_entries results.
THEOREM TypeCorrect == Spec => []TypeOK
<1>1. CacheInv => TypeOK
  BY DEF CacheInv
<1>. QED
  BY <1>1, CacheInvariance, PTL

\* No result stays in the cache that every interested request was cancelled
\* before getting, however late the load completed.
THEOREM CacheIsOfTheInterested == Spec => []AbandonedResultNotCached
<1>1. CacheInv => AbandonedResultNotCached
  BY CacheInvImplies
<1>. QED
  BY <1>1, CacheInvariance, PTL

-----------------------------------------------------------------------------
(* That searches are shared as SharedSearch promises *)

\* A search that ended as cancelled was told to stop.
CancelledWereStopped ==
    \A f \in Requests : flight[f].stage = "cancelled" => flight[f].cancel

THEOREM StoppedFirst == Spec => []CancelledWereStopped
<1>1. Init => CancelledWereStopped
  BY DEF Init, CancelledWereStopped
<1>2. IInv /\ CancelledWereStopped /\ [Next]_vars => CancelledWereStopped'
  <2>. SUFFICES ASSUME IInv, CancelledWereStopped, [Next]_vars PROVE CancelledWereStopped'
    OBVIOUS
  <2>. USE DEF CancelledWereStopped, IInv, Shape
  <2>1. ASSUME NEW r \in Requests, Search(r) PROVE CancelledWereStopped'
    <3>1. CASE SearchHit(r)
      BY <3>1 DEF SearchHit
    <3>2. CASE SearchJoin(r)
      BY <3>2 DEF SearchJoin
    <3>3. CASE SearchJoinDone(r)
      BY <3>3 DEF SearchJoinDone
    <3>4. CASE SearchStart(r)
      BY <3>4 DEF SearchStart
    <3>. QED
      BY <2>1, <3>1, <3>2, <3>3, <3>4 DEF Search
  <2>2. ASSUME NEW r \in Requests, Cancel(r) PROVE CancelledWereStopped'
    BY <2>2 DEF Cancel
  <2>3. ASSUME NEW r \in Requests, Resume(r) PROVE CancelledWereStopped'
    BY <2>3 DEF Resume
  <2>4. ASSUME NEW r \in Requests, ResumeCancelled(r) PROVE CancelledWereStopped'
    BY <2>4 DEF ResumeCancelled
  <2>5. ASSUME NEW f \in Requests, Load(f) PROVE CancelledWereStopped'
    <3>1. CASE LoadSucceeds(f)
      BY <3>1 DEF LoadSucceeds, Ends
    <3>2. CASE LoadFails(f)
      BY <3>2 DEF LoadFails, Ends
    <3>3. CASE LoadCancelled(f)
      BY <3>3 DEF LoadCancelled, Ends
    <3>. QED
      BY <2>5, <3>1, <3>2, <3>3 DEF Load
  <2>6. ASSUME NEW f \in Requests, Finished(f) PROVE CancelledWereStopped'
    BY <2>6 DEF Finished
  <2>7. CASE Tick
    BY <2>7 DEF Tick
  <2>8. CASE UNCHANGED vars
    BY <2>8 DEF vars
  <2>. QED
    BY <2>1, <2>2, <2>3, <2>4, <2>5, <2>6, <2>7, <2>8 DEF Next
<1>. QED
  BY <1>1, <1>2, InvariantHolds, PTL DEF Spec

\* What the steps below start from.
SharingInv == IInv /\ CacheInv /\ CancelledWereStopped

\* How a request and a search look.
LEMMA SeenFacts ==
    ASSUME SharingInv
    PROVE  /\ \A r \in Requests :
                 /\ SeenRequests[r].search = request[r].flight
                 /\ request[r].flight \in Requests
                 /\ SeenRequests[r].stage = "new" <=> request[r].stage = "new"
                 /\ SeenRequests[r].stage = "waiting" <=> request[r].stage \in Interest
           /\ \A f \in Requests :
                 /\ SeenFlights[f] = "running" <=> flight[f].stage = "loading" /\ ~flight[f].cancel
                 /\ SeenFlights[f] = "loaded" <=> flight[f].stage = "loaded"
                 /\ SeenFlights[f] = "failed" <=> flight[f].stage = "failed"
<1>1. ASSUME NEW r \in Requests
      PROVE  /\ SeenRequests[r].search = request[r].flight
             /\ request[r].flight \in Requests
             /\ SeenRequests[r].stage = "new" <=> request[r].stage = "new"
             /\ SeenRequests[r].stage = "waiting" <=> request[r].stage \in Interest
  BY DEF SharingInv, CacheInv, TypeOK, FlightTypeOK, SeenRequests, Interest
<1>2. ASSUME NEW f \in Requests
      PROVE  /\ SeenFlights[f] = "running" <=> flight[f].stage = "loading" /\ ~flight[f].cancel
             /\ SeenFlights[f] = "loaded" <=> flight[f].stage = "loaded"
             /\ SeenFlights[f] = "failed" <=> flight[f].stage = "failed"
  BY DEF SharingInv, CacheInv, TypeOK, FlightTypeOK, FlightStages, SeenFlights, CancelledWereStopped
<1>. QED
  BY <1>1, <1>2

\* Who enters a stage is seen to.
LEMMA EnteringIsSeen ==
    ASSUME SharingInv, NEW r \in Requests, NEW stage, stage # "cancelling", NEW f,
           Enters(r, stage, f)
    PROVE  Shared!Becomes(r, stage, f)
<1>1. /\ request'[r].stage = stage /\ request'[r].flight = f
      /\ \A q \in Requests \ {r} : request'[q] = request[q]
  BY EnterEffect DEF SharingInv, IInv
<1>. QED
  BY <1>1 DEF Shared!Becomes, SeenRequests

\* Nothing becomes available but a result that has just been loaded and a search
\* that has just ended.
LEMMA AvailableStays ==
    ASSUME SharingInv, NEW new,
           \A n \in DOMAIN cache' :
              \/ cache'[n].value \in new
              \/ \E j \in DOMAIN cache : cache'[n] = cache[j],
           now' \in Nat, now' >= now,
           \A f \in Requests, k \in DOMAIN inFlight' : inFlight'[k] = f /\ Done(f)' =>
              \/ f \in new
              \/ Done(f) /\ \E l \in DOMAIN inFlight : inFlight[l] = f
    PROVE  Available' \subseteq Available \cup new
<1>. SUFFICES ASSUME NEW f \in Requests, f \in Available', f \notin new PROVE f \in Available
  BY DEF Available
<1>0. \/ \E n \in DOMAIN cache' : /\ cache'[n].key = KeyOf[f] /\ cache'[n].expires > now'
                                 /\ cache'[n].value = f
      \/ Done(f)' /\ \E k \in DOMAIN inFlight' : inFlight'[k] = f
  BY DEF Available, FreshEntries
<1>1. CASE \E n \in DOMAIN cache' : /\ cache'[n].key = KeyOf[f] /\ cache'[n].expires > now'
                                   /\ cache'[n].value = f
  <2>1. PICK n \in DOMAIN cache' : /\ cache'[n].key = KeyOf[f] /\ cache'[n].expires > now'
                                   /\ cache'[n].value = f
    BY <1>1
  <2>2. PICK j \in DOMAIN cache : cache'[n] = cache[j]
    BY <2>1
  <2>3. cache[j].expires \in Nat /\ now \in Nat
    BY CachedTyped DEF SharingInv, CacheInv, TypeOK, FlightTypeOK, CacheEntry
  <2>4. cache[j].expires > now
    BY <2>1, <2>2, <2>3
  <2>. QED
    BY <2>1, <2>2, <2>4 DEF Available, FreshEntries
<1>2. CASE Done(f)' /\ \E k \in DOMAIN inFlight' : inFlight'[k] = f
  BY <1>2 DEF Available
<1>. QED
  BY <1>0, <1>1, <1>2

\* What the cache may hold after a lookup that found nothing, or a forgotten result.
LEMMA CacheShrinks ==
    ASSUME SharingInv, NEW k, cache' = WithoutKey(k) \/ UNCHANGED cache
    PROVE  \A n \in DOMAIN cache' : \E j \in DOMAIN cache : cache'[n] = cache[j]
BY ForgetEffect, ConstantsAssumption DEF SharingInv, CacheInv, TypeOK

LEMMA ClockTyped == SharingInv => now \in Nat
BY DEF SharingInv, CacheInv, TypeOK, FlightTypeOK

\* Nobody has asked and nothing is searched at the start.
LEMMA SharingStarts == Init => Shared!Init
<1>. SUFFICES ASSUME Init PROVE Shared!Init
  OBVIOUS
<1>1. SeenRequests = [r \in Requests |-> [stage |-> "new", search |-> r]]
  BY DEF Init, SeenRequests
<1>2. SeenFlights = [r \in Requests |-> "none"]
  BY DEF Init, SeenFlights
<1>3. Available = {}
  BY DEF Init, Available, FreshEntries
<1>. QED
  BY <1>1, <1>2, <1>3 DEF Shared!Init

\* A request that finds a fresh result reuses it: what is cached is the result
\* of a flight of that key which has loaded.
LEMMA HitReuses ==
    ASSUME SharingInv, NEW r \in Requests, SearchHit(r)
    PROVE  Shared!Reuse(r)
<1>1. PICK i \in FreshEntries(KeyOf[r]) :
          /\ Enters(r, "served", cache[i].value)
          /\ cache' = Append(WithoutKey(KeyOf[r]), cache[i])
  BY DEF SearchHit
<1>2. request[r].stage = "new" /\ UNCHANGED <<flight, inFlight, callbacks, now>>
  BY DEF SearchHit
<1>3. PICK f : f = cache[i].value
  OBVIOUS
<1>4. i \in DOMAIN cache /\ cache[i].key = KeyOf[r]
  BY DEF FreshEntries
<1>5. f \in Requests /\ cache[i].key \in Keys /\ Cached(KeyOf[r], f)
  BY <1>3, <1>4, CachedTyped DEF SharingInv, CacheInv, TypeOK
<1>6. KeyOf[f] = KeyOf[r] /\ flight[f].stage = "loaded"
  BY <1>4, <1>5 DEF SharingInv, CacheInv, CachedIsWanted
<1>7. i \in FreshEntries(KeyOf[f])
  BY <1>6
<1>8. f \in Available
  BY <1>3, <1>5, <1>7 DEF Available
<1>9. Shared!Becomes(r, "served", f)
  BY <1>1, <1>3, EnteringIsSeen
<1>10. Shared!Outcome(f) = "served"
  BY <1>5, <1>6, SeenFacts DEF Shared!Outcome
<1>11. \A n \in DOMAIN cache' : \E j \in DOMAIN cache : cache'[n] = cache[j]
  BY <1>1, HitEffect, ConstantsAssumption DEF SharingInv, CacheInv, TypeOK
<1>12. Available' \subseteq Available \cup {}
  <2>1. now' \in Nat /\ now' >= now
    BY <1>2, ClockTyped
  <2>2. \A g \in Requests, k \in DOMAIN inFlight' : inFlight'[k] = g /\ Done(g)' =>
            Done(g) /\ \E l \in DOMAIN inFlight : inFlight[l] = g
    BY <1>2 DEF Done
  <2>. QED
    BY <1>11, <2>1, <2>2, AvailableStays
<1>13. UNCHANGED SeenFlights
  BY <1>2 DEF SeenFlights
<1>14. SeenRequests[r].stage = "new"
  BY <1>2, SeenFacts
<1>. QED
  BY <1>6, <1>8, <1>9, <1>10, <1>12, <1>13, <1>14 DEF Shared!Reuse, Shared!KeepsOf

\* A request that finds a search in flight joins it.
LEMMA JoinIsShared ==
    ASSUME SharingInv, NEW r \in Requests, SearchJoin(r)
    PROVE  Shared!Join(r)
<1>0. PICK f \in Requests : f = inFlight[KeyOf[r]]
  BY DEF SearchJoin, SharingInv, IInv, Shape
<1>1. /\ KeyOf[r] \in DOMAIN inFlight
      /\ request[r].stage = "new"
      /\ ~Done(f)
      /\ Enters(r, "waiting", f)
      /\ flight' = [flight EXCEPT ![f].waiters = @ + 1]
      /\ cache' = WithoutKey(KeyOf[r])
      /\ UNCHANGED <<inFlight, callbacks, now>>
  BY <1>0 DEF SearchJoin, CacheMiss
<1>2. KeyOf[f] = KeyOf[r] /\ flight[f].stage # "none" /\ ~flight[f].cancel
  BY <1>0, <1>1 DEF SharingInv, IInv, RegisteredUsable
<1>3. flight[f].stage = "loading"
  BY <1>1, <1>2 DEF SharingInv, IInv, Shape, FlightStages, Done
<1>4. f \in Shared!Running(r)
  BY <1>2, <1>3, SeenFacts DEF Shared!Running
<1>5. Shared!Becomes(r, "waiting", f)
  BY <1>1, EnteringIsSeen
<1>6. \A g \in Requests : flight'[g].stage = flight[g].stage /\ flight'[g].cancel = flight[g].cancel
  BY <1>1 DEF SharingInv, IInv, Shape
<1>7. UNCHANGED SeenFlights
  BY <1>6 DEF SeenFlights
<1>8. Available' \subseteq Available \cup {}
  <2>1. \A n \in DOMAIN cache' : \E j \in DOMAIN cache : cache'[n] = cache[j]
    BY <1>1, CacheShrinks
  <2>2. now' \in Nat /\ now' >= now
    BY <1>1, ClockTyped
  <2>3. \A g \in Requests, k \in DOMAIN inFlight' : inFlight'[k] = g /\ Done(g)' =>
            Done(g) /\ \E l \in DOMAIN inFlight : inFlight[l] = g
    BY <1>1, <1>6 DEF Done
  <2>. QED
    BY <2>1, <2>2, <2>3, AvailableStays
<1>9. SeenRequests[r].stage = "new"
  BY <1>1, SeenFacts
<1>. QED
  BY <1>4, <1>5, <1>7, <1>8, <1>9 DEF Shared!Join, Shared!KeepsOf

\* A request that finds a search which has just ended shares its outcome.
LEMMA JoinDoneReuses ==
    ASSUME SharingInv, NEW r \in Requests, SearchJoinDone(r)
    PROVE  Shared!Reuse(r)
<1>0. PICK f \in Requests : f = inFlight[KeyOf[r]]
  BY DEF SearchJoinDone, SharingInv, IInv, Shape
<1>1. /\ KeyOf[r] \in DOMAIN inFlight
      /\ request[r].stage = "new"
      /\ Done(f)
      /\ Enters(r, IF flight[f].stage = "loaded" THEN "served" ELSE flight[f].stage, f)
      /\ cache' = WithoutKey(KeyOf[r])
      /\ UNCHANGED <<flight, inFlight, callbacks, now>>
  BY <1>0 DEF SearchJoinDone, CacheMiss
<1>2. KeyOf[f] = KeyOf[r] /\ ~flight[f].cancel
  BY <1>0, <1>1 DEF SharingInv, IInv, RegisteredUsable
<1>3. flight[f].stage \in {"loaded", "failed"}
  BY <1>1, <1>2 DEF SharingInv, CancelledWereStopped, Done
<1>4. PICK stage : /\ stage = (IF flight[f].stage = "loaded" THEN "served" ELSE "failed")
                   /\ Enters(r, stage, f)
  BY <1>1, <1>3
<1>5. Shared!Outcome(f) = stage
  BY <1>3, <1>4, SeenFacts DEF Shared!Outcome
<1>6. Shared!Becomes(r, stage, f)
  BY <1>4, EnteringIsSeen
<1>7. f \in Available
  BY <1>0, <1>1 DEF Available
<1>8. UNCHANGED SeenFlights
  BY <1>1 DEF SeenFlights
<1>9. Available' \subseteq Available \cup {}
  <2>1. \A n \in DOMAIN cache' : \E j \in DOMAIN cache : cache'[n] = cache[j]
    BY <1>1, CacheShrinks
  <2>2. now' \in Nat /\ now' >= now
    BY <1>1, ClockTyped
  <2>3. \A g \in Requests, k \in DOMAIN inFlight' : inFlight'[k] = g /\ Done(g)' =>
            Done(g) /\ \E l \in DOMAIN inFlight : inFlight[l] = g
    BY <1>1 DEF Done
  <2>. QED
    BY <2>1, <2>2, <2>3, AvailableStays
<1>10. SeenRequests[r].stage = "new"
  BY <1>1, SeenFacts
<1>. QED
  BY <1>2, <1>5, <1>6, <1>7, <1>8, <1>9, <1>10 DEF Shared!Reuse, Shared!KeepsOf

\* A request that finds neither starts a search, and none of that key is running.
LEMMA StartIsShared ==
    ASSUME SharingInv, NEW r \in Requests, SearchStart(r)
    PROVE  Shared!Start(r)
<1>1. /\ KeyOf[r] \notin DOMAIN inFlight
      /\ request[r].stage = "new"
      /\ Enters(r, "waiting", r)
      /\ flight' = [flight EXCEPT ![r] = [stage |-> "loading", waiters |-> 1, cancel |-> FALSE]]
      /\ inFlight' = [k \in DOMAIN inFlight \cup {KeyOf[r]} |->
                          IF k = KeyOf[r] THEN r ELSE inFlight[k]]
      /\ cache' = WithoutKey(KeyOf[r])
      /\ UNCHANGED <<callbacks, now>>
  BY DEF SearchStart, CacheMiss
<1>2. Shared!Running(r) = {}
  <2>. SUFFICES ASSUME NEW f \in Requests, KeyOf[f] = KeyOf[r], SeenFlights[f] = "running"
                PROVE FALSE
    BY DEF Shared!Running
  <2>1. f \in LiveLoads
    BY SeenFacts DEF LiveLoads
  <2>. QED
    BY <1>1, <2>1 DEF SharingInv, IInv, OneLoadPerKey
<1>3. Shared!Becomes(r, "waiting", r)
  BY <1>1, EnteringIsSeen
<1>4. /\ flight'[r].stage = "loading" /\ ~flight'[r].cancel
      /\ \A g \in Requests \ {r} : flight'[g] = flight[g]
  BY <1>1 DEF SharingInv, IInv, Shape
<1>5. SeenFlights' = [SeenFlights EXCEPT ![r] = "running"]
  BY <1>4 DEF SeenFlights
<1>6. Available' \subseteq Available \cup {}
  <2>1. \A n \in DOMAIN cache' : \E j \in DOMAIN cache : cache'[n] = cache[j]
    BY <1>1, CacheShrinks
  <2>2. now' \in Nat /\ now' >= now
    BY <1>1, ClockTyped
  <2>3. \A g \in Requests, k \in DOMAIN inFlight' : inFlight'[k] = g /\ Done(g)' =>
            Done(g) /\ \E l \in DOMAIN inFlight : inFlight[l] = g
    <3>. SUFFICES ASSUME NEW g \in Requests, NEW k \in DOMAIN inFlight', inFlight'[k] = g, Done(g)'
                  PROVE Done(g) /\ \E l \in DOMAIN inFlight : inFlight[l] = g
      OBVIOUS
    <3>1. g # r
      BY <1>4 DEF Done
    <3>. QED
      BY <1>1, <1>4, <3>1 DEF Done
  <2>. QED
    BY <2>1, <2>2, <2>3, AvailableStays
<1>7. SeenRequests[r].stage = "new"
  BY <1>1, SeenFacts
<1>. QED
  BY <1>2, <1>3, <1>5, <1>6, <1>7 DEF Shared!Start, Shared!KeepsOf

\* What is available goes, or stays as it is, when nothing else is seen to change.
LEMMA UnseenForgets ==
    ASSUME SharingInv,
           \A r \in Requests : /\ request'[r].flight = request[r].flight
                               /\ \/ request'[r].stage = request[r].stage
                                  \/ {request[r].stage, request'[r].stage} \subseteq Interest,
           \A f \in Requests : \/ flight'[f] = flight[f]
                               \/ /\ flight[f].cancel /\ flight'[f].cancel
                                  /\ flight[f].stage = "loading" /\ flight'[f].stage = "cancelled",
           UNCHANGED cache, now' \in Nat, now' >= now,
           \A k \in DOMAIN inFlight' : k \in DOMAIN inFlight /\ inFlight'[k] = inFlight[k]
    PROVE  Shared!Forget
<1>1. \A r \in Requests : SeenRequests'[r] = SeenRequests[r]
  BY DEF SeenRequests, Interest
<1>2. UNCHANGED SeenRequests
  BY <1>1 DEF SeenRequests
<1>3. \A f \in Requests : SeenFlights'[f] = SeenFlights[f]
  BY DEF SeenFlights
<1>4. UNCHANGED SeenFlights
  BY <1>3 DEF SeenFlights
<1>5. Available' \subseteq Available \cup {}
  <2>1. \A n \in DOMAIN cache' : \E j \in DOMAIN cache : cache'[n] = cache[j]
    OBVIOUS
  <2>2. \A f \in Requests, k \in DOMAIN inFlight' : inFlight'[k] = f /\ Done(f)' =>
            Done(f) /\ \E l \in DOMAIN inFlight : inFlight[l] = f
    <3>. SUFFICES ASSUME NEW f \in Requests, NEW k \in DOMAIN inFlight', inFlight'[k] = f, Done(f)'
                  PROVE Done(f) /\ \E l \in DOMAIN inFlight : inFlight[l] = f
      OBVIOUS
    <3>1. k \in DOMAIN inFlight /\ inFlight[k] = f
      OBVIOUS
    <3>2. ~flight[f].cancel
      BY <3>1 DEF SharingInv, IInv, RegisteredUsable
    <3>. QED
      BY <3>1, <3>2 DEF Done
  <2>. QED
    BY <2>1, <2>2, AvailableStays
<1>. QED
  BY <1>2, <1>4, <1>5 DEF Shared!Forget, Shared!KeepsOf

\* A cancellation that has not arrived is not seen.
LEMMA CancelIsUnseen ==
    ASSUME SharingInv, NEW r \in Requests, Cancel(r)
    PROVE  Shared!Forget
<1>1. /\ request[r].stage = "waiting"
      /\ request'[r].stage = "cancelling"
      /\ request'[r].flight = request[r].flight
      /\ \A q \in Requests \ {r} : request'[q] = request[q]
  BY DEF Cancel, SharingInv, IInv, Shape
<1>2. \A q \in Requests : /\ request'[q].flight = request[q].flight
                          /\ \/ request'[q].stage = request[q].stage
                             \/ {request[q].stage, request'[q].stage} \subseteq Interest
  BY <1>1 DEF Interest
<1>3. now' \in Nat /\ now' >= now
  BY ClockTyped DEF Cancel
<1>. QED
  BY <1>2, <1>3, UnseenForgets DEF Cancel

\* The clock only takes from what is available.
LEMMA TickForgets ==
    ASSUME SharingInv, Tick
    PROVE  Shared!Forget
<1>1. now' \in Nat /\ now' >= now
  BY ClockTyped DEF Tick
<1>. QED
  BY <1>1, UnseenForgets DEF Tick

\* A search that was told to stop had left the table, and was seen to be over.
LEMMA LoadCancelledIsUnseen ==
    ASSUME SharingInv, NEW f \in Requests, LoadCancelled(f)
    PROVE  Shared!Forget
<1>1. /\ flight[f].cancel
      /\ flight[f].stage = "loading"
      /\ flight' = [flight EXCEPT ![f].stage = "cancelled"]
      /\ UNCHANGED <<request, inFlight, cache, now>>
  BY DEF LoadCancelled, Ends
<1>2. /\ flight'[f].cancel /\ flight'[f].stage = "cancelled"
      /\ \A g \in Requests \ {f} : flight'[g] = flight[g]
  BY <1>1 DEF SharingInv, IInv, Shape
<1>3. now' \in Nat /\ now' >= now
  BY <1>1, ClockTyped
<1>. QED
  BY <1>1, <1>2, <1>3, UnseenForgets

\* A search that leaves the table may no longer be available.
LEMMA FinishedForgets ==
    ASSUME SharingInv, NEW f \in Requests, Finished(f)
    PROVE  Shared!Forget
<1>1. \A k \in DOMAIN inFlight' : k \in DOMAIN inFlight /\ inFlight'[k] = inFlight[k]
  BY DEF Finished
<1>2. now' \in Nat /\ now' >= now
  BY ClockTyped DEF Finished
<1>. QED
  BY <1>1, <1>2, UnseenForgets DEF Finished

\* A waiter that resumes is given what its search ended with.
LEMMA ResumeServes ==
    ASSUME SharingInv, NEW r \in Requests, Resume(r)
    PROVE  Shared!Serve(r)
<1>0. PICK f \in Requests : f = request[r].flight
  BY SeenFacts
<1>1. /\ request[r].stage = "waiting"
      /\ flight[f].stage \in {"loaded", "failed"}
      /\ flight' = [flight EXCEPT ![f].waiters = @ - 1]
      /\ UNCHANGED <<inFlight, callbacks, cache, now>>
  BY <1>0 DEF Resume
<1>2. PICK stage : /\ stage = (IF flight[f].stage = "loaded" THEN "served" ELSE "failed")
                   /\ Enters(r, stage, f)
  BY <1>0 DEF Resume
<1>3. Shared!Outcome(f) = stage
  BY <1>1, <1>2, SeenFacts DEF Shared!Outcome
<1>4. Shared!Becomes(r, stage, f)
  BY <1>2, EnteringIsSeen
<1>5. \A g \in Requests : flight'[g].stage = flight[g].stage /\ flight'[g].cancel = flight[g].cancel
  BY <1>1 DEF SharingInv, IInv, Shape
<1>6. UNCHANGED SeenFlights
  BY <1>5 DEF SeenFlights
<1>7. Available' \subseteq Available \cup {}
  <2>1. \A n \in DOMAIN cache' : \E j \in DOMAIN cache : cache'[n] = cache[j]
    BY <1>1
  <2>2. now' \in Nat /\ now' >= now
    BY <1>1, ClockTyped
  <2>3. \A g \in Requests, k \in DOMAIN inFlight' : inFlight'[k] = g /\ Done(g)' =>
            Done(g) /\ \E l \in DOMAIN inFlight : inFlight[l] = g
    BY <1>1, <1>5 DEF Done
  <2>. QED
    BY <2>1, <2>2, <2>3, AvailableStays
<1>8. /\ SeenRequests[r].stage = "waiting"
      /\ SeenRequests[r].search = f
      /\ SeenFlights[f] \in {"loaded", "failed"}
  BY <1>0, <1>1, SeenFacts DEF Interest
<1>. QED
  BY <1>3, <1>4, <1>6, <1>7, <1>8 DEF Shared!Serve, Shared!KeepsOf

\* A load that answers or fails ends a running search, and only that search may
\* become available.
LEMMA LoadEnds ==
    ASSUME SharingInv, NEW f \in Requests, LoadSucceeds(f) \/ LoadFails(f)
    PROVE  Shared!End(f)
<1>1. PICK stage \in {"loaded", "failed"} :
          /\ flight' = [flight EXCEPT ![f].stage = stage]
          /\ flight[f].stage = "loading" /\ ~flight[f].cancel
  BY DEF LoadSucceeds, LoadFails, Ends
<1>2. UNCHANGED <<request, inFlight, now>>
  BY DEF LoadSucceeds, LoadFails
<1>3. /\ flight'[f].stage = stage
      /\ \A g \in Requests \ {f} : flight'[g] = flight[g]
  BY <1>1 DEF SharingInv, IInv, Shape
<1>4. SeenFlights' = [SeenFlights EXCEPT ![f] = stage]
  BY <1>3 DEF SeenFlights
<1>5. UNCHANGED SeenRequests
  BY <1>2 DEF SeenRequests
<1>6. KeyOf[f] \in Keys
  BY ConstantsAssumption DEF ConstantsAssumption
<1>7. \A n \in DOMAIN cache' : \/ cache'[n].value \in {f}
                               \/ \E j \in DOMAIN cache : cache'[n] = cache[j]
  <2>1. CASE LoadSucceeds(f)
    <3>1. cache' = CacheSet(KeyOf[f], f)
      BY <2>1 DEF LoadSucceeds
    <3>. QED
      BY <1>6, <3>1, SetEffect, ClockTyped, ConstantsAssumption DEF SharingInv, CacheInv, TypeOK
  <2>2. CASE LoadFails(f)
    BY <2>2 DEF LoadFails
  <2>. QED
    BY <2>1, <2>2
<1>8. Available' \subseteq Available \cup {f}
  <2>1. now' \in Nat /\ now' >= now
    BY <1>2, ClockTyped
  <2>2. \A g \in Requests, k \in DOMAIN inFlight' : inFlight'[k] = g /\ Done(g)' =>
            \/ g \in {f}
            \/ Done(g) /\ \E l \in DOMAIN inFlight : inFlight[l] = g
    BY <1>2, <1>3 DEF Done
  <2>. QED
    BY <1>7, <2>1, <2>2, AvailableStays
<1>9. SeenFlights[f] = "running"
  BY <1>1, SeenFacts
<1>. QED
  BY <1>4, <1>5, <1>8, <1>9 DEF Shared!End, Shared!KeepsOf

\* Who leaves takes the search along exactly when nobody else waits for it.
LEMMA LeavingIsShared ==
    ASSUME SharingInv, NEW r \in Requests, ResumeCancelled(r)
    PROVE  Shared!Leave(r)
<1>0. PICK f \in Requests : f = request[r].flight
  BY SeenFacts
<1>1. request[r].stage \in Interest
  BY DEF ResumeCancelled, Interest
<1>2. PICK abandon \in BOOLEAN : abandon <=> flight[f].waiters = 1 /\ ~Done(f)
  OBVIOUS
<1>3. /\ Enters(r, "cancelled", f)
      /\ flight' = [flight EXCEPT ![f].waiters = @ - 1, ![f].cancel = @ \/ abandon]
      /\ cache' = WithoutKey(KeyOf[r]) \/ UNCHANGED cache
      /\ UNCHANGED <<callbacks, now>>
  BY <1>0, <1>2 DEF ResumeCancelled
<1>4. \A k \in DOMAIN inFlight' : k \in DOMAIN inFlight /\ inFlight'[k] = inFlight[k]
  BY DEF ResumeCancelled
<1>5. /\ flight'[f].stage = flight[f].stage
      /\ flight'[f].cancel = (flight[f].cancel \/ abandon)
      /\ \A g \in Requests \ {f} : flight'[g] = flight[g]
  BY <1>3 DEF SharingInv, IInv, Shape
<1>6. Shared!Waiting(f) = Interested(f)
  BY SeenFacts DEF Shared!Waiting, Interested, Interest
<1>7. r \in Interested(f)
  BY <1>0, <1>1 DEF Interested, Interest
<1>8. flight[f].waiters = 1 <=> Shared!Waiting(f) = {r}
  <2>1. Shape /\ WaiterCountExact /\ "cancelled" \notin Interest
    BY DEF SharingInv, IInv, Interest
  <2>2. /\ Interested(f)' = Interested(f) \ {r}
        /\ flight[f].waiters = 1 <=> Interested(f)' = {}
    BY <1>0, <1>1, <1>3, <2>1, LeaveCounts, ConstantsAssumption
  <2>. QED
    BY <1>6, <1>7, <2>2
<1>9. ~flight[f].cancel
  BY <1>7 DEF SharingInv, IInv, SharedWorkSurvives
<1>10. ~Done(f) <=> flight[f].stage = "loading"
  BY <1>0, <1>1 DEF SharingInv, IInv, Shape, FlightStages, WaitsForItsKey, Done
<1>11. abandon <=> SeenFlights[f] = "running" /\ Shared!Waiting(f) = {r}
  BY <1>2, <1>8, <1>9, <1>10, SeenFacts
<1>12. SeenFlights' = IF abandon THEN [SeenFlights EXCEPT ![f] = "stopped"] ELSE SeenFlights
  <2>1. CASE abandon
    <3>1. SeenFlights'[f] = "stopped"
      BY <1>2, <1>5, <1>10, <2>1 DEF SeenFlights
    <3>. QED
      BY <1>5, <2>1, <3>1 DEF SeenFlights
  <2>2. CASE ~abandon
    <3>1. SeenFlights'[f] = SeenFlights[f]
      BY <1>5, <2>2 DEF SeenFlights
    <3>. QED
      BY <1>5, <2>2, <3>1 DEF SeenFlights
  <2>. QED
    BY <2>1, <2>2
<1>13. Shared!Becomes(r, "cancelled", f)
  BY <1>3, EnteringIsSeen
<1>14. Available' \subseteq Available \cup {}
  <2>1. \A n \in DOMAIN cache' : \E j \in DOMAIN cache : cache'[n] = cache[j]
    BY <1>3, CacheShrinks
  <2>2. now' \in Nat /\ now' >= now
    BY <1>3, ClockTyped
  <2>3. \A g \in Requests, k \in DOMAIN inFlight' : inFlight'[k] = g /\ Done(g)' =>
            Done(g) /\ \E l \in DOMAIN inFlight : inFlight[l] = g
    BY <1>4, <1>5 DEF Done
  <2>. QED
    BY <2>1, <2>2, <2>3, AvailableStays
<1>15. SeenRequests[r].stage = "waiting" /\ SeenRequests[r].search = f
  BY <1>0, <1>1, SeenFacts
<1>. QED
  BY <1>11, <1>12, <1>13, <1>14, <1>15 DEF Shared!Leave, Shared!KeepsOf

\* Every step of the provider searches is one of SharedSearch, or is not seen.
LEMMA SharingStep ==
    ASSUME SharingInv, [Next]_vars
    PROVE  [Shared!Next]_(Shared!vars)
<1>. SUFFICES (\E r \in Requests : \/ Shared!Reuse(r) \/ Shared!Join(r) \/ Shared!Start(r)
                                   \/ Shared!End(r) \/ Shared!Serve(r) \/ Shared!Leave(r))
              \/ Shared!Forget
  BY DEF Shared!Next
<1>1. ASSUME NEW r \in Requests, Search(r)
      PROVE  Shared!Reuse(r) \/ Shared!Join(r) \/ Shared!Start(r)
  BY <1>1, HitReuses, JoinIsShared, JoinDoneReuses, StartIsShared DEF Search
<1>2. ASSUME NEW f \in Requests, Load(f)
      PROVE  Shared!End(f) \/ Shared!Forget
  BY <1>2, LoadEnds, LoadCancelledIsUnseen DEF Load
<1>3. CASE UNCHANGED vars
  <2>1. now' \in Nat /\ now' >= now
    BY <1>3, ClockTyped DEF vars
  <2>. QED
    BY <1>3, <2>1, UnseenForgets DEF vars
<1>. QED
  BY <1>1, <1>2, <1>3, CancelIsUnseen, ResumeServes, LeavingIsShared, FinishedForgets, TickForgets
     DEF Next

\* Whatever the interleaving and the number of requests, shared provider searches
\* look to those who asked as SharedSearch promises.
THEOREM SearchIsShared == Spec => ImplementsSharedSearch
<1>1. Init => Shared!Init
  BY SharingStarts
<1>2. IInv /\ CacheInv /\ CancelledWereStopped /\ [Next]_vars => [Shared!Next]_(Shared!vars)
  BY SharingStep DEF SharingInv
<1>. QED
  BY <1>1, <1>2, InvariantHolds, CacheInvariance, StoppedFirst, PTL
     DEF Spec, ImplementsSharedSearch, Shared!Spec
=============================================================================
