--------------------------- MODULE SearchAdmission ---------------------------
(***************************************************************************)
(* Who may search, and what becomes of it: SearchOrchestrator.search with  *)
(* its admission semaphore and timeout, the legs of a search and their     *)
(* providers (services/search_orchestrator.py), and the nearby-date probes *)
(* that compete with ordinary searches for the same slots                  *)
(* (services/nearby_dates.py).                                             *)
(*                                                                         *)
(* A search is one call of SearchOrchestrator.search.  A probe is the call *)
(* made for one date that is not past, inside the dates semaphore.  What a *)
(* provider tells a leg is abstracted to whether it failed (no answer, an  *)
(* error, malformed rows) and whether it has an offer; AdapterSearch has   *)
(* the call itself.  An action is what one task or timer does between two  *)
(* suspension points.                                                      *)
(***************************************************************************)
EXTENDS AsyncSemaphore

CONSTANTS
    Searches,     \* calls of SearchOrchestrator.search
    Probes,       \* those a nearby-dates request makes
    RoundTrips,   \* those with a return date; probes never have one
    Providers,    \* the adapters of the mode
    MaxSearches,  \* initial value of SearchOrchestrator._search_admission
    MaxDates      \* initial value of NearbyDateSearchService._search_admission

ASSUME ConstantsAssumption ==
    /\ IsFiniteSet(Searches)
    /\ Probes \subseteq Searches
    /\ RoundTrips \subseteq Searches \ Probes
    /\ Providers # {}
    /\ IsFiniteSet(Providers)
    /\ MaxSearches \in Nat \ {0}
    /\ MaxDates \in Nat \ {0}

VARIABLES
    at,         \* where each search is: "created" as a probe's task that has yet
                \* to run, in line for "dates" or "admission", "searching" with
                \* an admission slot, or "ended"
    admission,  \* the orchestrator's semaphore
    dates,      \* the nearby-dates service's semaphore
    leg,        \* each leg of each search
    reply,      \* what each provider told each leg
    answer,     \* how each search ended
    nearby      \* the nearby-dates request

vars == <<at, signals, admission, dates, leg, reply, answer, nearby>>

Legs == {"outbound", "return"}

LegsOf(s) == IF s \in RoundTrips THEN Legs ELSE {"outbound"}

Statuses == {"available", "sold_out", "availability_unknown", "provider_unavailable"}

-----------------------------------------------------------------------------
Init ==
    /\ at = [s \in Searches |-> "new"]
    /\ signals = [s \in Searches |-> {}]
    /\ admission = [free |-> MaxSearches, queue |-> <<>>, granted |-> {}]
    /\ dates = [free |-> MaxDates, queue |-> <<>>, granted |-> {}]
    /\ leg = [s \in Searches |-> [l \in Legs |-> "idle"]]
    /\ reply = [s \in Searches |-> [l \in Legs |-> [p \in Providers |-> "none"]]]
    /\ answer = [s \in Searches |-> "none"]
    /\ nearby = "new"

-----------------------------------------------------------------------------
(* Getting in *)

\* Every leg asks every provider.
LegsStart(s) ==
    leg' = [leg EXCEPT ![s] = [l \in Legs |-> IF l \in LegsOf(s) THEN "running" ELSE "idle"]]

\* search, up to where it first suspends: a slot at once, or a place in the
\* deque and a timer.
EnterSearch(s) ==
    \/ /\ ~Locked(admission)
       /\ admission' = Take(admission)
       /\ at' = [at EXCEPT ![s] = "searching"]
       /\ LegsStart(s)
    \/ /\ Locked(admission)
       /\ admission' = LineUp(admission, s)
       /\ at' = [at EXCEPT ![s] = "admission"]
       /\ UNCHANGED leg

\* A search job or a direct request.
SearchArrives(s) ==
    /\ s \notin Probes
    /\ at[s] = "new"
    /\ EnterSearch(s)
    /\ UNCHANGED <<signals, dates, reply, answer, nearby>>

\* A nearby-dates request gathers one task per date.
NearbyArrives ==
    /\ nearby = "new"
    /\ nearby' = "probing"
    /\ at' = [s \in Searches |-> IF s \in Probes THEN "created" ELSE at[s]]
    /\ UNCHANGED <<signals, admission, dates, leg, reply, answer>>

\* A probe's first step: through the dates semaphore into search, or in line.
ProbeStarts(s) ==
    /\ at[s] = "created"
    /\ signals[s] = {}
    /\ \/ /\ ~Locked(dates)
          /\ dates' = Take(dates)
          /\ EnterSearch(s)
       \/ /\ Locked(dates)
          /\ dates' = LineUp(dates, s)
          /\ at' = [at EXCEPT ![s] = "dates"]
          /\ UNCHANGED <<admission, leg>>
    /\ UNCHANGED <<signals, reply, answer, nearby>>

ProbeResumes(s) ==
    /\ at[s] = "dates"
    /\ signals[s] = {}
    /\ FirstGranted(dates, s)
    /\ dates' \in Acquired(dates, s)
    /\ EnterSearch(s)
    /\ UNCHANGED <<signals, reply, answer, nearby>>

AdmissionResumes(s) ==
    /\ at[s] = "admission"
    /\ signals[s] = {}
    /\ FirstGranted(admission, s)
    /\ admission' \in Acquired(admission, s)
    /\ at' = [at EXCEPT ![s] = "searching"]
    /\ LegsStart(s)
    /\ UNCHANGED <<signals, dates, reply, answer, nearby>>

-----------------------------------------------------------------------------
(* Timeouts and cancellation are cancel() calls; the task resumes later. *)

\* wait_for's timer: it may fire when the slot has been handed over already.
TimerFires(s) ==
    /\ at[s] = "admission"
    /\ "timeout" \notin signals[s]
    /\ signals' = [signals EXCEPT ![s] = @ \cup {"timeout"}]
    /\ UNCHANGED <<at, admission, dates, leg, reply, answer, nearby>>

\* The search job, or the request, is cancelled.
Cancel(s) ==
    /\ s \notin Probes
    /\ at[s] \in {"admission", "searching"}
    /\ "cancel" \notin signals[s]
    /\ signals' = [signals EXCEPT ![s] = @ \cup {"cancel"}]
    /\ UNCHANGED <<at, admission, dates, leg, reply, answer, nearby>>

\* Cancelling the gather cancels the probes that are not done.
CancelNearby ==
    /\ nearby = "probing"
    /\ nearby' = "cancelled"
    /\ signals' = [s \in Searches |->
                      IF s \in Probes /\ at[s] # "ended" THEN signals[s] \cup {"cancel"}
                      ELSE signals[s]]
    /\ UNCHANGED <<at, admission, dates, leg, reply, answer>>

-----------------------------------------------------------------------------
(* The search *)

\* Only what a date is told depends on whether there are offers.
RepliesTo(s) == IF s \in Probes THEN {"failed", "empty", "offers"} ELSE {"failed", "offers"}

\* A provider's result reaches a leg's gather, which keeps exceptions apart.
ProviderReplies(s, l, p) ==
    /\ leg[s][l] = "running"
    /\ reply[s][l][p] = "none"
    /\ \E r \in RepliesTo(s) : reply' = [reply EXCEPT ![s][l][p] = r]
    /\ UNCHANGED <<at, signals, admission, dates, leg, answer, nearby>>

Replied(s, l) == \A p \in Providers : reply[s][l][p] # "none"

\* The task of one leg of a round trip ends; "raised" when grouping or
\* ranking does.
LegEnds(s, l) ==
    /\ s \in RoundTrips
    /\ at[s] = "searching"
    /\ leg[s][l] = "running"
    /\ Replied(s, l)
    /\ \E outcome \in {"done", "raised"} : leg' = [leg EXCEPT ![s][l] = outcome]
    /\ UNCHANGED <<at, signals, admission, dates, reply, answer, nearby>>

\* A one-way search runs its leg itself.
LegsOver(s) ==
    IF s \in RoundTrips
    THEN \A l \in Legs : leg[s][l] = "done"
    ELSE leg[s]["outbound"] = "running" /\ Replied(s, "outbound")

Succeeded(s) ==
    {lp \in Legs \X Providers : reply[s][lp[1]][lp[2]] \in {"empty", "offers"}}

HasOffers(s) == \E l \in Legs, p \in Providers : reply[s][l][p] = "offers"

\* Mutant of DateStatus: whoever failed is not counted against a sell-out.
BugSoldOutUnproved(s) ==
    IF Succeeded(s) = {} THEN "provider_unavailable"
    ELSE IF HasOffers(s) THEN "available" ELSE "sold_out"

DateStatus(s) ==
    IF Succeeded(s) = {} THEN "provider_unavailable"
    ELSE IF HasOffers(s) THEN "available"
    ELSE IF Cardinality(Succeeded(s)) = Cardinality(Providers) THEN "sold_out"
    ELSE "availability_unknown"

\* A search ends: its slots are released, and of its legs only one that is a
\* task of its own and was not cancelled goes on.
Ends(s, outcome, goesOn) ==
    /\ at' = [at EXCEPT ![s] = "ended"]
    /\ signals' = [signals EXCEPT ![s] = {}]
    /\ answer' = [answer EXCEPT ![s] = outcome]
    /\ leg' = [leg EXCEPT ![s] = [l \in Legs |-> IF l \in goesOn THEN "running" ELSE "idle"]]
    /\ reply' = [reply EXCEPT ![s] =
                    [l \in Legs |-> [p \in Providers |->
                        IF l \in goesOn THEN reply[s][l][p] ELSE "none"]]]

\* Mutant of LeavesDates: a probe that fails keeps its place.
BugKeepsDate(s) == UNCHANGED dates

LeavesDates(s) == dates' = IF s \in Probes THEN Release(dates) ELSE dates

\* All legs are over.  A probe reports a status; anybody else is refused an
\* answer to which no provider contributed.
SearchReturns(s) ==
    /\ at[s] = "searching"
    /\ signals[s] = {}
    /\ LegsOver(s)
    /\ Ends(s, IF s \in Probes THEN DateStatus(s)
               ELSE IF Succeeded(s) = {} THEN "unavailable" ELSE "answered", {})
    /\ admission' = Release(admission)
    /\ LeavesDates(s)
    /\ UNCHANGED nearby

\* A leg raised, or saving did.  The gather of a round trip does not wait for
\* its other leg.
SearchRaises(s) ==
    /\ at[s] = "searching"
    /\ signals[s] = {}
    /\ LegsOver(s) \/ \E l \in Legs : leg[s][l] = "raised"
    /\ Ends(s, "error", {l \in Legs : s \in RoundTrips /\ leg[s][l] = "running"})
    /\ admission' = Release(admission)
    /\ LeavesDates(s)
    /\ UNCHANGED nearby

\* The other leg of a search that raised ends, and nobody looks at it.
StrayLegEnds(s, l) ==
    /\ at[s] = "ended"
    /\ leg[s][l] = "running"
    /\ Replied(s, l)
    /\ leg' = [leg EXCEPT ![s][l] = "idle"]
    /\ reply' = [reply EXCEPT ![s][l] = [p \in Providers |-> "none"]]
    /\ UNCHANGED <<at, signals, admission, dates, answer, nearby>>

-----------------------------------------------------------------------------
(* CancelledError arrives: before a probe's first step, *)

AbortCreated(s) ==
    /\ at[s] = "created"
    /\ signals[s] # {}
    /\ Ends(s, "cancelled", {})
    /\ UNCHANGED <<admission, dates, nearby>>

\* ... in line for a date,
AbortDates(s) ==
    /\ at[s] = "dates"
    /\ signals[s] # {}
    /\ Ends(s, "cancelled", {})
    /\ dates' \in GivenUp(dates, s)
    /\ UNCHANGED <<admission, nearby>>

\* ... in line for admission, where it is a refusal if only the timer called
\* cancel(); a probe takes that for an unavailable provider,
AbortAdmission(s) ==
    /\ at[s] = "admission"
    /\ signals[s] # {}
    /\ Ends(s, IF "cancel" \in signals[s] THEN "cancelled"
               ELSE IF s \in Probes THEN "provider_unavailable" ELSE "refused", {})
    /\ admission' \in GivenUp(admission, s)
    /\ LeavesDates(s)
    /\ UNCHANGED nearby

\* Mutant of AbortSearching: the legs of a cancelled search go on.
BugLegsGoOn(s) ==
    /\ at[s] = "searching"
    /\ signals[s] # {}
    /\ Ends(s, "cancelled", {l \in Legs : leg[s][l] = "running"})
    /\ admission' = Release(admission)
    /\ LeavesDates(s)
    /\ UNCHANGED nearby

\* ... and in the search, whose legs are cancelled with it.
AbortSearching(s) ==
    /\ at[s] = "searching"
    /\ signals[s] # {}
    /\ Ends(s, "cancelled", {})
    /\ admission' = Release(admission)
    /\ LeavesDates(s)
    /\ UNCHANGED nearby

-----------------------------------------------------------------------------
\* Every date has its status,
NearbyReturns ==
    /\ nearby = "probing"
    /\ \A s \in Probes : answer[s] \in Statuses
    /\ nearby' = "answered"
    /\ UNCHANGED <<at, signals, admission, dates, leg, reply, answer>>

\* ... or one probe raised; the gather does not wait for the others.
NearbyFails ==
    /\ nearby = "probing"
    /\ \E s \in Probes : answer[s] = "error"
    /\ nearby' = "failed"
    /\ UNCHANGED <<at, signals, admission, dates, leg, reply, answer>>

Step(s) ==
    \/ ProbeStarts(s)
    \/ ProbeResumes(s)
    \/ AdmissionResumes(s)
    \/ SearchReturns(s)
    \/ SearchRaises(s)
    \/ AbortCreated(s)
    \/ AbortDates(s)
    \/ AbortAdmission(s)
    \/ AbortSearching(s)

LegStep(s, l) ==
    \/ \E p \in Providers : ProviderReplies(s, l, p)
    \/ LegEnds(s, l)
    \/ StrayLegEnds(s, l)

Next ==
    \/ \E s \in Searches :
          \/ SearchArrives(s)
          \/ TimerFires(s)
          \/ Cancel(s)
          \/ Step(s)
          \/ \E l \in Legs : LegStep(s, l)
    \/ NearbyArrives
    \/ CancelNearby
    \/ NearbyReturns
    \/ NearbyFails

Spec == Init /\ [][Next]_vars

\* The loop runs ready tasks and due timers, and every provider's call ends:
\* wait_for bounds it.  Nobody has to arrive or be cancelled.
Fairness ==
    \A s \in Searches :
        /\ WF_vars(Step(s))
        /\ WF_vars(TimerFires(s))
        /\ \A l \in Legs : WF_vars(LegStep(s, l))

FairSpec == Spec /\ Fairness

-----------------------------------------------------------------------------
(* Properties *)

\* Every slot of either semaphore is free, handed over, or held by one
\* search, whatever crosses: a timeout and a hand-over, a cancellation and a
\* result, the error of one leg (search_orchestrator.py:176-195,
\* nearby_dates.py:57).
SlotsConserved ==
    /\ AllAccounted(admission, {s \in Searches : at[s] = "searching"},
                    {s \in Searches : at[s] = "admission"}, MaxSearches)
    /\ AllAccounted(dates, {s \in Probes : at[s] \in {"admission", "searching"}},
                    {s \in Probes : at[s] = "dates"}, MaxDates)

\* No slot stays free while somebody waits for one, unless a waiter that was
\* granted one has yet to resume and pass it on.
NoIdleSlot ==
    \A sem \in {admission, dates} :
        (sem.free > 0 /\ Pending(sem) # {}) => sem.granted # {}

\* Those in line ahead of s; of somebody who is not in line, all of them.
Ahead(sem, s) ==
    {sem.queue[i] : i \in {j \in DOMAIN sem.queue : \A k \in 1..j : sem.queue[k] # s}}

\* Nobody is admitted before one who waits longer, so neither a newcomer that
\* finds a slot between its hand-over and the resumption of the waiter nor the
\* probes of a nearby-dates request push a search into its admission timeout.
\* Only those are passed whose timer has fired or who are being cancelled
\* (search_orchestrator.py:176-185).
AdmittedInOrder ==
    [][\A s \in Searches :
          at[s] # "searching" /\ at'[s] = "searching" =>
              \A w \in Ahead(admission, s) : signals[w] # {}]_vars

\* Providers are asked on behalf of searches that hold a slot.  The exception
\* is the leg whose sibling raised (search_orchestrator.py:231-244).
LegsHaveASlot ==
    \A s \in Searches, l \in Legs :
        leg[s][l] = "running" =>
            at[s] = "searching" \/ (s \in RoundTrips /\ answer[s] = "error")

\* An answer says of the providers what they said: "sold out" that all of
\* them were asked and have nothing, "unavailable" that none answered in any
\* leg, and a refusal that none was asked ("an empty response from the
\* providers that did answer cannot prove market-wide sell-out").
AnswersAreHonest ==
    [][\A s \in Searches : answer'[s] # answer[s] =>
          CASE answer'[s] = "sold_out" ->
                  \A p \in Providers : reply[s]["outbound"][p] = "empty"
            [] answer'[s] \in {"unavailable", "provider_unavailable"} ->
                  \A l \in LegsOf(s), p \in Providers :
                      reply[s][l][p] = "failed" \/ at[s] = "admission"
            [] answer'[s] \in {"answered", "available"} ->
                  \E l \in LegsOf(s), p \in Providers : reply[s][l][p] \in {"empty", "offers"}
            [] answer'[s] = "availability_unknown" ->
                  /\ \E p \in Providers : reply[s]["outbound"][p] = "failed"
                  /\ \E p \in Providers : reply[s]["outbound"][p] = "empty"
            [] answer'[s] = "refused" ->
                  \A l \in Legs, p \in Providers : reply[s][l][p] = "none"
            [] OTHER -> TRUE]_vars

\* Every search that arrives ends, though probes hold one slot while they
\* wait for another, and a nearby-dates request always gets an answer.
EverySearchEnds ==
    \A s \in Searches : (at[s] \notin {"new", "ended"}) ~> (at[s] = "ended")
=============================================================================
