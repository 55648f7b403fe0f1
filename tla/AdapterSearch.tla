---------------------------- MODULE AdapterSearch ----------------------------
(***************************************************************************)
(* One provider search shared by everybody who asks for it:                *)
(* SearchOrchestrator._search_adapter and its raw result cache             *)
(* (services/search_orchestrator.py).  A request first looks in the cache, *)
(* then joins a search of the same key that is in flight, else starts one  *)
(* and waits for it behind asyncio.shield.  Requests are cancelled one by  *)
(* one; the last to go takes the shared search with it.                    *)
(*                                                                         *)
(* A flight (the task and its _InFlightAdapterSearch) is named by the      *)
(* request that started it, and so is the result it loads.  An action is   *)
(* what one task or callback does between two suspension points.           *)
(***************************************************************************)
EXTENDS Integers, Sequences, FiniteSets

CONSTANTS
    Requests,         \* calls of _search_adapter
    Keys,             \* provider and request, without the intent
    KeyOf,            \* the key each request asks for
    MaxCacheEntries,  \* _RawAdapterResultCache._max_entries
    CacheTtl,         \* _RawAdapterResultCache._ttl_seconds
    Horizon           \* bound: last reading of the monotonic clock

ASSUME ConstantsAssumption ==
    /\ IsFiniteSet(Requests)
    /\ KeyOf \in [Requests -> Keys]
    /\ MaxCacheEntries \in Nat \ {0}
    /\ CacheTtl \in Nat \ {0}
    /\ Horizon \in Nat

VARIABLES
    request,    \* stage of each request, and the flight it waits for or was served by
    flight,     \* each flight's task, waiter count and whether cancel() was called
    inFlight,   \* _in_flight_adapter_searches: key -> flight
    callbacks,  \* done flights whose _adapter_search_finished has not run
    cache,      \* _RawAdapterResultCache._items, least recently used first
    now         \* the monotonic clock

vars == <<request, flight, inFlight, callbacks, cache, now>>

\* "waiting": awaiting the shielded task; "cancelling": the awaiting task was
\* cancelled and has not resumed; the last three are outcomes.
RequestStages == {"new", "waiting", "cancelling", "served", "failed", "cancelled"}

FlightStages == {"none", "loading", "loaded", "failed", "cancelled"}

Done(f) == flight[f].stage \in {"loaded", "failed", "cancelled"}

CacheEntry == [key : Keys, value : Requests, expires : Nat]

FlightTypeOK ==
    /\ request \in [Requests -> [stage : RequestStages, flight : Requests]]
    /\ flight \in [Requests -> [stage : FlightStages, waiters : Nat, cancel : BOOLEAN]]
    /\ DOMAIN inFlight \subseteq Keys
    /\ \A k \in DOMAIN inFlight : inFlight[k] \in Requests
    /\ callbacks \subseteq Requests
    /\ now \in 0..Horizon

CacheTypeOK ==
    /\ cache \in Seq(CacheEntry)
    /\ Len(cache) =< MaxCacheEntries
    /\ \A i, j \in DOMAIN cache : cache[i].key = cache[j].key => i = j

TypeOK == FlightTypeOK /\ CacheTypeOK

-----------------------------------------------------------------------------
(* The raw result cache *)

\* The entries at these places of the cache, which stay in their order.
Only(places) ==
    [n \in 1..Cardinality(places) |->
        cache[CHOOSE i \in places : Cardinality({j \in 1..i : j \in places}) = n]]

WithoutKey(k) == Only({i \in DOMAIN cache : cache[i].key # k})

FreshEntries(k) ==
    {i \in DOMAIN cache : cache[i].key = k /\ cache[i].expires > now}

\* Mutant of CacheSet: nothing is ever evicted.
BugNoEviction(k, value) ==
    Append(Only({i \in DOMAIN cache : cache[i].key # k /\ cache[i].expires > now}),
           [key |-> k, value |-> value, expires |-> now + CacheTtl])

\* set: purge, insert as the most recent, evict the least recent.
CacheSet(k, value) ==
    LET kept == Only({i \in DOMAIN cache : cache[i].key # k /\ cache[i].expires > now})
        new  == Append(kept, [key |-> k, value |-> value, expires |-> now + CacheTtl])
    IN  IF Len(new) > MaxCacheEntries THEN Tail(new) ELSE new

-----------------------------------------------------------------------------
Init ==
    /\ request = [r \in Requests |-> [stage |-> "new", flight |-> r]]
    /\ flight = [r \in Requests |-> [stage |-> "none", waiters |-> 0, cancel |-> FALSE]]
    /\ inFlight = [k \in {} |-> k]
    /\ callbacks = {}
    /\ cache = <<>>
    /\ now = 0

Enters(r, stage, f) == request' = [request EXCEPT ![r] = [stage |-> stage, flight |-> f]]

\* A fresh cached result; reading it makes it the most recent.
SearchHit(r) ==
    /\ request[r].stage = "new"
    /\ \E i \in FreshEntries(KeyOf[r]) :
          /\ Enters(r, "served", cache[i].value)
          /\ cache' = Append(WithoutKey(KeyOf[r]), cache[i])
    /\ UNCHANGED <<flight, inFlight, callbacks, now>>

\* No fresh result; looking for it drops a stale one.
CacheMiss(r) ==
    /\ request[r].stage = "new"
    /\ FreshEntries(KeyOf[r]) = {}
    /\ cache' = WithoutKey(KeyOf[r])

\* Mutant of SearchJoin: the waiter is not counted.
BugUncountedJoin(r) ==
    /\ CacheMiss(r)
    /\ KeyOf[r] \in DOMAIN inFlight
    /\ ~Done(inFlight[KeyOf[r]])
    /\ Enters(r, "waiting", inFlight[KeyOf[r]])
    /\ UNCHANGED <<flight, inFlight, callbacks, now>>

SearchJoin(r) ==
    /\ CacheMiss(r)
    /\ KeyOf[r] \in DOMAIN inFlight
    /\ LET f == inFlight[KeyOf[r]] IN
          /\ ~Done(f)
          /\ Enters(r, "waiting", f)
          /\ flight' = [flight EXCEPT ![f].waiters = @ + 1]
    /\ UNCHANGED <<inFlight, callbacks, now>>

\* The task found is done, its callback still to come: awaiting it does not
\* suspend, so the request comes and goes in one step.
SearchJoinDone(r) ==
    /\ CacheMiss(r)
    /\ KeyOf[r] \in DOMAIN inFlight
    /\ LET f == inFlight[KeyOf[r]] IN
          /\ Done(f)
          /\ Enters(r, IF flight[f].stage = "loaded" THEN "served" ELSE flight[f].stage, f)
    /\ UNCHANGED <<flight, inFlight, callbacks, now>>

SearchStart(r) ==
    /\ CacheMiss(r)
    /\ KeyOf[r] \notin DOMAIN inFlight
    /\ Enters(r, "waiting", r)
    /\ flight' = [flight EXCEPT ![r] = [stage |-> "loading", waiters |-> 1, cancel |-> FALSE]]
    /\ inFlight' = [k \in DOMAIN inFlight \cup {KeyOf[r]} |->
                        IF k = KeyOf[r] THEN r ELSE inFlight[k]]
    /\ UNCHANGED <<callbacks, now>>

\* The task awaiting for r is cancelled: its search job, or its HTTP request.
Cancel(r) ==
    /\ request[r].stage = "waiting"
    /\ request' = [request EXCEPT ![r].stage = "cancelling"]
    /\ UNCHANGED <<flight, inFlight, callbacks, cache, now>>

\* Mutant of Resume: a failed load does not wake its waiters.
BugFailureUnnoticed(r) ==
    LET f == request[r].flight IN
    /\ request[r].stage = "waiting"
    /\ flight[f].stage = "loaded"
    /\ f \notin callbacks
    /\ Enters(r, "served", f)
    /\ flight' = [flight EXCEPT ![f].waiters = @ - 1]
    /\ UNCHANGED <<inFlight, callbacks, cache, now>>

\* The shielded task is done and its waiter resumes.  The flight's own
\* callback was registered first and has run.
Resume(r) ==
    LET f == request[r].flight IN
    /\ request[r].stage = "waiting"
    /\ flight[f].stage \in {"loaded", "failed"}
    /\ f \notin callbacks
    /\ Enters(r, IF flight[f].stage = "loaded" THEN "served" ELSE "failed", f)
    /\ flight' = [flight EXCEPT ![f].waiters = @ - 1]
    /\ UNCHANGED <<inFlight, callbacks, cache, now>>

\* Mutant of ResumeCancelled: no shield, the first waiter to go stops the search.
BugCancelShared(r) ==
    LET f == request[r].flight IN
    /\ request[r].stage = "cancelling"
    /\ Enters(r, "cancelled", f)
    /\ flight' = [flight EXCEPT ![f].waiters = @ - 1, ![f].cancel = @ \/ ~Done(f)]
    /\ UNCHANGED <<inFlight, callbacks, cache, now>>

\* Mutant of ResumeCancelled: the last waiter to go leaves the search running.
BugLeaveRunning(r) ==
    LET f == request[r].flight IN
    /\ request[r].stage = "cancelling"
    /\ Enters(r, "cancelled", f)
    /\ cache' = IF flight[f].waiters = 1 THEN WithoutKey(KeyOf[r]) ELSE cache
    /\ flight' = [flight EXCEPT ![f].waiters = @ - 1]
    /\ UNCHANGED <<inFlight, callbacks, now>>

\* Mutant of ResumeCancelled: only a search still running is abandoned; the
\* result of one that has just completed stays in the cache.
BugKeepWarm(r) ==
    LET f == request[r].flight
        abandon == flight[f].waiters = 1 /\ ~Done(f)
    IN
    /\ request[r].stage = "cancelling"
    /\ Enters(r, "cancelled", f)
    /\ flight' = [flight EXCEPT ![f].waiters = @ - 1, ![f].cancel = @ \/ abandon]
    /\ inFlight' = [k \in {key \in DOMAIN inFlight : ~(abandon /\ inFlight[key] = f)}
                        |-> inFlight[k]]
    /\ UNCHANGED <<callbacks, cache, now>>

\* CancelledError reaches the waiter: its own cancellation, or the flight's
\* (which SharedWorkSurvives excludes).  The last waiter to go forgets the
\* result and stops the search, unless another flight has taken the key.
ResumeCancelled(r) ==
    LET f == request[r].flight
        k == KeyOf[r]
        last == flight[f].waiters = 1
        abandon == last /\ ~Done(f)
        registered == k \in DOMAIN inFlight /\ inFlight[k] = f
    IN
    /\ \/ request[r].stage = "cancelling"
       \/ request[r].stage = "waiting" /\ flight[f].stage = "cancelled" /\ f \notin callbacks
    /\ Enters(r, "cancelled", f)
    /\ cache' = IF last THEN WithoutKey(k) ELSE cache
    /\ flight' = [flight EXCEPT ![f].waiters = @ - 1, ![f].cancel = @ \/ abandon]
    /\ inFlight' = IF abandon /\ registered
                   THEN [other \in DOMAIN inFlight \ {k} |-> inFlight[other]]
                   ELSE inFlight
    /\ UNCHANGED <<callbacks, now>>

\* Mutant of Ends: the done callback is not registered.
BugNoCallback(f, stage) ==
    /\ flight[f].stage = "loading"
    /\ flight' = [flight EXCEPT ![f].stage = stage]
    /\ UNCHANGED callbacks

Ends(f, stage) ==
    /\ flight[f].stage = "loading"
    /\ flight' = [flight EXCEPT ![f].stage = stage]
    /\ callbacks' = callbacks \cup {f}

\* _load_adapter_results: the adapter answered in time,
LoadSucceeds(f) ==
    /\ ~flight[f].cancel
    /\ Ends(f, "loaded")
    /\ cache' = CacheSet(KeyOf[f], f)
    /\ UNCHANGED <<request, inFlight, now>>

\* ... timed out or raised,
LoadFails(f) ==
    /\ ~flight[f].cancel
    /\ Ends(f, "failed")
    /\ UNCHANGED <<request, inFlight, cache, now>>

\* ... or was cancelled.
LoadCancelled(f) ==
    /\ flight[f].cancel
    /\ Ends(f, "cancelled")
    /\ UNCHANGED <<request, inFlight, cache, now>>

\* Mutant of Finished: whatever flight has the key is unregistered.
BugPopAnyFlight(f) ==
    /\ f \in callbacks
    /\ callbacks' = callbacks \ {f}
    /\ inFlight' = [k \in DOMAIN inFlight \ {KeyOf[f]} |-> inFlight[k]]
    /\ UNCHANGED <<request, flight, cache, now>>

\* _adapter_search_finished: the key may belong to a newer flight by now.
Finished(f) ==
    /\ f \in callbacks
    /\ callbacks' = callbacks \ {f}
    /\ inFlight' = [k \in {key \in DOMAIN inFlight : ~(key = KeyOf[f] /\ inFlight[key] = f)}
                        |-> inFlight[k]]
    /\ UNCHANGED <<request, flight, cache, now>>

Tick ==
    /\ now < Horizon
    /\ now' = now + 1
    /\ UNCHANGED <<request, flight, inFlight, callbacks, cache>>

Search(r) == SearchHit(r) \/ SearchJoin(r) \/ SearchJoinDone(r) \/ SearchStart(r)

Load(f) == LoadSucceeds(f) \/ LoadFails(f) \/ LoadCancelled(f)

Next ==
    \/ \E r \in Requests :
          \/ Search(r)
          \/ Cancel(r)
          \/ Resume(r)
          \/ ResumeCancelled(r)
          \/ Load(r)
          \/ Finished(r)
    \/ Tick

Spec == Init /\ [][Next]_vars

\* The loop runs ready tasks and callbacks, and a load ends: wait_for bounds
\* the adapter.  Nobody has to search or be cancelled.
Fairness ==
    \A r \in Requests :
        /\ WF_vars(Resume(r))
        /\ WF_vars(ResumeCancelled(r))
        /\ WF_vars(Load(r))
        /\ WF_vars(Finished(r))

FairSpec == Spec /\ Fairness

-----------------------------------------------------------------------------
(* Properties *)

\* The requests registered with a flight: they entered and have not left.
Interested(f) ==
    {r \in Requests : request[r].flight = f /\ request[r].stage \in {"waiting", "cancelling"}}

\* The count on which abandoning the shared search is decided is exact,
\* however joins, completions and cancellations interleave (lines 468-479).
WaiterCountExact ==
    \A f \in Requests : flight[f].waiters = Cardinality(Interested(f))

\* "A cancelled HTTP request must not cancel work still shared": a flight is
\* cancelled only when nobody is left, and nobody joins it afterwards.
SharedWorkSurvives ==
    \A f \in Requests : flight[f].cancel => Interested(f) = {}

\* At most one search per key is under way that was not told to stop, and the
\* in-flight table leads to it: a late callback or an old flight never
\* unregisters a newer one (line 515).
LiveLoads == {f \in Requests : flight[f].stage = "loading" /\ ~flight[f].cancel}

OneLoadPerKey ==
    \A f \in LiveLoads : KeyOf[f] \in DOMAIN inFlight /\ inFlight[KeyOf[f]] = f

\* No search goes on for nobody (part of the inductive invariant of AdapterSearchProofs).
NoAbandonedLoad == \A f \in LiveLoads : Interested(f) # {}

\* "If every interested request is gone, neither an in-flight nor
\* just-completed result should warm the cache": a cached result always has
\* a request that was given it, or that has yet to leave (lines 479-486).
AbandonedResultNotCached ==
    \A i \in DOMAIN cache :
        \E r \in Requests :
            /\ request[r].flight = cache[i].value
            /\ request[r].stage \in {"waiting", "cancelling", "served"}

\* How requests and flights look from outside.  Who waits does so until the
\* cancellation has reached it, and a search is given up when it is told to stop.
SeenRequests ==
    [r \in Requests |->
        [stage  |-> IF request[r].stage = "cancelling" THEN "waiting" ELSE request[r].stage,
         search |-> request[r].flight]]

SeenFlights ==
    [f \in Requests |->
        IF flight[f].stage \in {"none", "loaded", "failed"} THEN flight[f].stage
        ELSE IF flight[f].cancel THEN "stopped" ELSE "running"]

\* What the cache would give, or the table of searches in flight.
Available ==
    {f \in Requests : \/ \E i \in FreshEntries(KeyOf[f]) : cache[i].value = f
                      \/ Done(f) /\ \E k \in DOMAIN inFlight : inFlight[k] = f}

Shared == INSTANCE SharedSearch WITH
              asked <- SeenRequests, search <- SeenFlights, kept <- Available

\* Whatever the interleaving, searches of one provider that are shared look to
\* those who asked as SharedSearch promises: one search at a time per key, stopped
\* in the step in which the last of them leaves and never under another, and no
\* answer that was forgotten or loaded for another key (lines 445-519).
ImplementsSharedSearch == Shared!Spec

\* Every request that waits is answered, fails or is cancelled in the end.
EveryRequestEnds ==
    \A r \in Requests :
        (request[r].stage = "waiting")
            ~> (request[r].stage \in {"served", "failed", "cancelled"})

\* Every flight ends and leaves the in-flight table, so a key is never stuck
\* on a search that is over.
FlightsDrain ==
    \A f \in Requests :
        (flight[f].stage = "loading")
            ~> (Done(f) /\ \A k \in DOMAIN inFlight : inFlight[k] # f)
=============================================================================
