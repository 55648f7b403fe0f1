------------------------ MODULE SearchAdmissionProofs ------------------------
(* The two semaphores of SearchAdmission, the legs that run, and what answers   *)
(* say, for any number of searches, probes, providers and slots.                *)
EXTENDS SearchAdmission, AsyncSemaphoreProofs

Admitted == {s \in Searches : at[s] = "searching"}

WaitingForAdmission == {s \in Searches : at[s] = "admission"}

OnDate == {s \in Probes : at[s] \in {"admission", "searching"}}

WaitingForDate == {s \in Probes : at[s] = "dates"}

TypeOK ==
    /\ at \in [Searches -> {"new", "created", "dates", "admission", "searching", "ended"}]
    /\ signals \in [Searches -> SUBSET {"timeout", "cancel"}]
    /\ leg \in [Searches -> [Legs -> {"idle", "running", "done", "raised"}]]
    /\ reply \in [Searches -> [Legs -> [Providers -> {"none", "failed", "empty", "offers"}]]]
    /\ answer \in [Searches -> Statuses \cup {"none", "answered", "unavailable", "refused",
                                              "cancelled", "error"}]
    /\ nearby \in {"new", "probing", "cancelled", "answered", "failed"}

\* Only probes go through the dates semaphore, and none is about before the
\* nearby-dates request.
ProbesOnly ==
    /\ \A s \in Searches : at[s] \in {"created", "dates"} => s \in Probes
    /\ nearby = "new" => \A s \in Probes : at[s] = "new"

\* What SlotsConserved and NoIdleSlot need to be inductive.
AdmissionInUse ==
    /\ InUse(admission, Searches, WaitingForAdmission, Admitted, MaxSearches)
    /\ Prompt(admission)

DatesInUse ==
    /\ InUse(dates, Probes, WaitingForDate, OnDate, MaxDates)
    /\ Prompt(dates)

SlotsInv == TypeOK /\ ProbesOnly /\ AdmissionInUse /\ DatesInUse

-----------------------------------------------------------------------------
(* Types *)

\* One entry of a table changes, within its range.
LEMMA NestedUpdate ==
    ASSUME NEW A, NEW B, NEW X, NEW f \in [A -> [B -> X]], NEW a \in A, NEW b \in B, NEW x \in X
    PROVE  [f EXCEPT ![a][b] = x] \in [A -> [B -> X]]
  OBVIOUS

\* The legs of a search are legs.
LEMMA LegsOfType == \A s \in Searches : LegsOf(s) \subseteq Legs
  BY DEF LegsOf, Legs

\* A search that ends has a status among those of its kind.
LEMMA DateStatusType == \A s \in Searches : DateStatus(s) \in Statuses
  BY DEF DateStatus, Statuses

\* Every search that ends is left in a state of the right type.
LEMMA EndsType ==
    ASSUME TypeOK, NEW s \in Searches, NEW outcome, NEW goesOn, Ends(s, outcome, goesOn),
           outcome \in Statuses \cup {"answered", "unavailable", "refused", "cancelled", "error"},
           nearby' \in {"new", "probing", "cancelled", "answered", "failed"}
    PROVE  TypeOK'
<1>1. at' \in [Searches -> {"new", "created", "dates", "admission", "searching", "ended"}]
  BY DEF TypeOK, Ends
<1>2. signals' \in [Searches -> SUBSET {"timeout", "cancel"}]
  BY DEF TypeOK, Ends
<1>3. answer' \in [Searches -> Statuses \cup {"none", "answered", "unavailable", "refused",
                                              "cancelled", "error"}]
  BY DEF TypeOK, Ends
<1>4. leg' \in [Searches -> [Legs -> {"idle", "running", "done", "raised"}]]
  BY DEF TypeOK, Ends
<1>5. reply' \in [Searches -> [Legs -> [Providers -> {"none", "failed", "empty", "offers"}]]]
  BY DEF TypeOK, Ends
<1>. QED
  BY <1>1, <1>2, <1>3, <1>4, <1>5 DEF TypeOK

\* Entering a search keeps the types.
LEMMA EnterType ==
    ASSUME TypeOK, NEW s \in Searches, EnterSearch(s)
    PROVE  /\ at' \in [Searches -> {"new", "created", "dates", "admission", "searching", "ended"}]
           /\ leg' \in [Searches -> [Legs -> {"idle", "running", "done", "raised"}]]
<1>1. at' \in [Searches -> {"new", "created", "dates", "admission", "searching", "ended"}]
  BY DEF TypeOK, EnterSearch
<1>2. [l \in Legs |-> IF l \in LegsOf(s) THEN "running" ELSE "idle"]
         \in [Legs -> {"idle", "running", "done", "raised"}]
  OBVIOUS
<1>3. leg' \in [Searches -> [Legs -> {"idle", "running", "done", "raised"}]]
  BY <1>2 DEF TypeOK, EnterSearch, LegsStart
<1>. QED
  BY <1>1, <1>3

\* Every step keeps the types.
LEMMA NextType == TypeOK /\ [Next]_vars => TypeOK'
<1>. SUFFICES ASSUME TypeOK, [Next]_vars PROVE TypeOK'
  OBVIOUS
<1>1. ASSUME NEW s \in Searches, SearchArrives(s) \/ ProbeStarts(s) \/ ProbeResumes(s)
      PROVE  TypeOK'
  <2>1. CASE EnterSearch(s)
    BY <1>1, <2>1, EnterType DEF TypeOK, SearchArrives, ProbeStarts, ProbeResumes
  <2>2. CASE ~EnterSearch(s)
    BY <1>1, <2>2 DEF TypeOK, SearchArrives, ProbeStarts, ProbeResumes
  <2>. QED
    BY <2>1, <2>2
<1>2. ASSUME NEW s \in Searches, AdmissionResumes(s) PROVE TypeOK'
  <2>1. [l \in Legs |-> IF l \in LegsOf(s) THEN "running" ELSE "idle"]
           \in [Legs -> {"idle", "running", "done", "raised"}]
    OBVIOUS
  <2>. QED
    BY <1>2, <2>1 DEF TypeOK, AdmissionResumes, LegsStart
<1>3. ASSUME NEW s \in Searches, TimerFires(s) \/ Cancel(s) PROVE TypeOK'
  <2>1. PICK x \in {"timeout", "cancel"} : signals' = [signals EXCEPT ![s] = @ \cup {x}]
    BY <1>3 DEF TimerFires, Cancel
  <2>2. signals[s] \cup {x} \in SUBSET {"timeout", "cancel"}
    BY DEF TypeOK
  <2>3. signals' \in [Searches -> SUBSET {"timeout", "cancel"}]
    BY <2>1, <2>2 DEF TypeOK
  <2>. QED
    BY <1>3, <2>3 DEF TypeOK, TimerFires, Cancel
<1>4. ASSUME NEW s \in Searches,
             SearchReturns(s) \/ SearchRaises(s) \/ AbortCreated(s) \/ AbortDates(s)
               \/ AbortAdmission(s) \/ AbortSearching(s)
      PROVE  TypeOK'
  <2>1. nearby' \in {"new", "probing", "cancelled", "answered", "failed"}
    BY <1>4 DEF TypeOK, SearchReturns, SearchRaises, AbortCreated, AbortDates, AbortAdmission,
                AbortSearching
  <2>2. \E goesOn, outcome : /\ Ends(s, outcome, goesOn)
                             /\ outcome \in Statuses \cup {"answered", "unavailable", "refused",
                                                           "cancelled", "error"}
    BY <1>4, DateStatusType DEF Statuses, SearchReturns, SearchRaises, AbortCreated, AbortDates,
                                AbortAdmission, AbortSearching
  <2>. QED
    BY <2>1, <2>2, EndsType
<1>5. ASSUME NEW s \in Searches, NEW l \in Legs, LegStep(s, l) PROVE TypeOK'
  <2>1. CASE LegEnds(s, l) \/ StrayLegEnds(s, l)
    <3>1. PICK x \in {"done", "raised", "idle"} : leg' = [leg EXCEPT ![s][l] = x]
      BY <2>1 DEF LegEnds, StrayLegEnds
    <3>2. leg' \in [Searches -> [Legs -> {"idle", "running", "done", "raised"}]]
      BY <3>1 DEF TypeOK
    <3>3. reply' \in [Searches -> [Legs -> [Providers -> {"none", "failed", "empty", "offers"}]]]
      <4>. DEFINE silent == [p \in Providers |-> "none"]
      <4>1. silent \in [Providers -> {"none", "failed", "empty", "offers"}]
        OBVIOUS
      <4>2. reply' = reply \/ reply' = [reply EXCEPT ![s][l] = silent]
        BY <2>1 DEF LegEnds, StrayLegEnds
      <4>3. reply \in [Searches -> [Legs -> [Providers -> {"none", "failed", "empty", "offers"}]]]
        BY DEF TypeOK
      <4>. DEFINE told == [Providers -> {"none", "failed", "empty", "offers"}]
      <4>. HIDE DEF silent, told
      <4>4. [reply EXCEPT ![s][l] = silent] \in [Searches -> [Legs -> told]]
        BY <4>1, <4>3, NestedUpdate DEF told
      <4>. QED
        BY <4>2, <4>3, <4>4 DEF told
    <3>4. UNCHANGED <<at, signals, answer, nearby>>
      BY <2>1 DEF LegEnds, StrayLegEnds
    <3>. QED
      BY <3>2, <3>3, <3>4 DEF TypeOK
  <2>2. CASE \E p \in Providers : ProviderReplies(s, l, p)
    <3>1. PICK p \in Providers, r \in RepliesTo(s) : reply' = [reply EXCEPT ![s][l][p] = r]
      BY <2>2 DEF ProviderReplies
    <3>2. r \in {"failed", "empty", "offers"}
      BY DEF RepliesTo
    <3>. QED
      BY <2>2, <3>1, <3>2 DEF TypeOK, ProviderReplies
  <2>. QED
    BY <1>5, <2>1, <2>2 DEF LegStep
<1>6. CASE NearbyArrives \/ CancelNearby \/ NearbyReturns \/ NearbyFails \/ UNCHANGED vars
  BY <1>6 DEF TypeOK, NearbyArrives, CancelNearby, NearbyReturns, NearbyFails, vars
<1>. QED
  BY <1>1, <1>2, <1>3, <1>4, <1>5, <1>6 DEF Next, Step

-----------------------------------------------------------------------------
(* The admission semaphore *)

\* Nothing happens to the semaphore of those in line when nobody joins or
\* leaves it and only more of them are told to stop.
LEMMA AdmissionKept ==
    ASSUME AdmissionInUse, admission' = admission,
           WaitingForAdmission' = WaitingForAdmission, Admitted' = Admitted,
           \A t \in WaitingForAdmission : signals'[t] = {} => signals[t] = {}
    PROVE  AdmissionInUse'
<1>1. InUse(admission, Searches, WaitingForAdmission, Admitted, MaxSearches)
  BY DEF AdmissionInUse
<1>2. InLine(admission) = WaitingForAdmission
  BY <1>1 DEF InUse
<1>3. Prompt(admission)'
  BY <1>2, PromptKept DEF AdmissionInUse, Prompt, Pending, InLine
<1>. QED
  BY <1>1, <1>3 DEF AdmissionInUse

\* A semaphore is as prompt after a step as the step leaves it, when nobody who
\* is in line afterwards loses a signal.
LEMMA AdmissionLeft ==
    ASSUME InUse(admission', Searches, WaitingForAdmission', Admitted', MaxSearches),
           Prompt(admission'),
           \A t \in WaitingForAdmission' : signals'[t] = {} => signals[t] = {}
    PROVE  AdmissionInUse'
<1>1. InLine(admission') = WaitingForAdmission'
  BY DEF InUse
<1>2. Prompt(admission)'
  BY <1>1, PromptKept DEF Prompt, Pending, InLine
<1>. QED
  BY <1>2 DEF AdmissionInUse

\* A search that enters takes a slot or stands in line.
LEMMA EnteringKeepsAdmission ==
    ASSUME TypeOK, AdmissionInUse, NEW s \in Searches, at[s] \notin {"admission", "searching"},
           EnterSearch(s), signals' = signals
    PROVE  AdmissionInUse'
<1>1. s \notin Admitted /\ s \in Searches \ WaitingForAdmission
  BY DEF Admitted, WaitingForAdmission
<1>2. CASE /\ ~Locked(admission)
           /\ admission' = Take(admission)
           /\ at' = [at EXCEPT ![s] = "searching"]
  <2>1. Admitted' = Admitted \cup {s} /\ WaitingForAdmission' = WaitingForAdmission
    BY <1>1, <1>2 DEF Admitted, WaitingForAdmission, TypeOK
  <2>2. /\ InUse(admission', Searches, WaitingForAdmission, Admitted \cup {s}, MaxSearches)
        /\ Prompt(admission')
    BY <1>1, <1>2, ConstantsAssumption, TakeInUse DEF AdmissionInUse
  <2>. QED
    BY <2>1, <2>2, AdmissionLeft
<1>3. CASE /\ Locked(admission)
           /\ admission' = LineUp(admission, s)
           /\ at' = [at EXCEPT ![s] = "admission"]
  <2>1. Admitted' = Admitted /\ WaitingForAdmission' = WaitingForAdmission \cup {s}
    BY <1>1, <1>3 DEF Admitted, WaitingForAdmission, TypeOK
  <2>2. /\ InUse(admission', Searches, WaitingForAdmission \cup {s}, Admitted, MaxSearches)
        /\ Prompt(admission')
    BY <1>1, <1>3, LineUpInUse DEF AdmissionInUse
  <2>. QED
    BY <2>1, <2>2, AdmissionLeft
<1>. QED
  BY <1>2, <1>3 DEF EnterSearch

\* A search that resumes takes the slot it was handed.
LEMMA ResumingKeepsAdmission ==
    ASSUME TypeOK, AdmissionInUse, NEW s \in Searches, AdmissionResumes(s)
    PROVE  AdmissionInUse'
<1>1. /\ s \notin Admitted
      /\ Admitted' = Admitted \cup {s}
      /\ WaitingForAdmission' = WaitingForAdmission \ {s}
      /\ signals' = signals
  BY DEF AdmissionResumes, Admitted, WaitingForAdmission, TypeOK
<1>2. s \in admission.granted /\ admission' \in Acquired(admission, s)
  BY DEF AdmissionResumes, FirstGranted
<1>3. /\ InUse(admission', Searches, WaitingForAdmission \ {s}, Admitted \cup {s}, MaxSearches)
      /\ Prompt(admission')
  BY <1>1, <1>2, ConstantsAssumption, AcquiredInUse DEF AdmissionInUse
<1>. QED
  BY <1>1, <1>3, AdmissionLeft

\* A search that ends gives its slot back.
LEMMA EndingKeepsAdmission ==
    ASSUME TypeOK, AdmissionInUse, NEW s \in Searches, at[s] = "searching",
           NEW outcome, NEW goesOn, Ends(s, outcome, goesOn),
           admission' = Release(admission)
    PROVE  AdmissionInUse'
<1>1. /\ s \in Admitted
      /\ Admitted' = Admitted \ {s}
      /\ WaitingForAdmission' = WaitingForAdmission
      /\ s \notin WaitingForAdmission
  BY DEF Ends, Admitted, WaitingForAdmission, TypeOK
<1>2. \A t \in WaitingForAdmission : signals'[t] = signals[t]
  BY <1>1 DEF Ends, WaitingForAdmission, TypeOK
<1>3. /\ InUse(admission', Searches, WaitingForAdmission, Admitted \ {s}, MaxSearches)
      /\ Prompt(admission')
  BY <1>1, ConstantsAssumption, ReleaseInUse DEF AdmissionInUse
<1>. QED
  BY <1>1, <1>2, <1>3, AdmissionLeft

\* A search that is refused or cancelled in line keeps no slot.
LEMMA GivingUpKeepsAdmission ==
    ASSUME TypeOK, AdmissionInUse, NEW s \in Searches, AbortAdmission(s)
    PROVE  AdmissionInUse'
<1>1. /\ s \in WaitingForAdmission
      /\ signals[s] # {}
      /\ admission' \in GivenUp(admission, s)
      /\ Admitted' = Admitted
      /\ WaitingForAdmission' = WaitingForAdmission \ {s}
  BY DEF AbortAdmission, Ends, Admitted, WaitingForAdmission, TypeOK
<1>2. \A t \in WaitingForAdmission \ {s} : signals'[t] = signals[t]
  BY DEF AbortAdmission, Ends, WaitingForAdmission, TypeOK
<1>3. /\ InUse(admission', Searches, WaitingForAdmission \ {s}, Admitted, MaxSearches)
      /\ Prompt(admission')
  BY <1>1, ConstantsAssumption, GivenUpInUse DEF AdmissionInUse
<1>. QED
  BY <1>1, <1>2, <1>3, AdmissionLeft

\* Any other step leaves the admission of searches alone.
LEMMA OthersKeepAdmission ==
    ASSUME TypeOK, ProbesOnly, AdmissionInUse,
           \/ NearbyArrives \/ CancelNearby \/ NearbyReturns \/ NearbyFails \/ UNCHANGED vars
           \/ \E s \in Searches :
                 \/ ProbeStarts(s) /\ ~EnterSearch(s)
                 \/ AbortCreated(s) \/ AbortDates(s) \/ TimerFires(s) \/ Cancel(s)
                 \/ \E l \in Legs : LegStep(s, l)
    PROVE  AdmissionInUse'
<1>1. CASE NearbyArrives
  BY <1>1, AdmissionKept DEF NearbyArrives, ProbesOnly, Admitted, WaitingForAdmission, TypeOK
<1>2. CASE CancelNearby \/ NearbyReturns \/ NearbyFails \/ UNCHANGED vars
  <2>1. /\ admission' = admission
        /\ at' = at
        /\ \A t \in Searches : signals'[t] = {} => signals[t] = {}
    BY <1>2 DEF CancelNearby, NearbyReturns, NearbyFails, vars
  <2>. QED
    BY <2>1, AdmissionKept DEF Admitted, WaitingForAdmission
<1>3. ASSUME NEW s \in Searches, ProbeStarts(s), ~EnterSearch(s) PROVE AdmissionInUse'
  BY <1>3, AdmissionKept DEF ProbeStarts, Admitted, WaitingForAdmission, TypeOK
<1>4. ASSUME NEW s \in Searches, AbortCreated(s) \/ AbortDates(s) PROVE AdmissionInUse'
  <2>1. /\ admission' = admission
        /\ Admitted' = Admitted
        /\ WaitingForAdmission' = WaitingForAdmission
        /\ \A t \in WaitingForAdmission : signals'[t] = signals[t]
    BY <1>4 DEF AbortCreated, AbortDates, Ends, Admitted, WaitingForAdmission, TypeOK
  <2>. QED
    BY <2>1, AdmissionKept
<1>5. ASSUME NEW s \in Searches, TimerFires(s) \/ Cancel(s) PROVE AdmissionInUse'
  <2>1. /\ admission' = admission
        /\ at' = at
        /\ \A t \in Searches : signals'[t] = {} => signals[t] = {}
    <3>1. PICK x \in {"timeout", "cancel"} : signals' = [signals EXCEPT ![s] = @ \cup {x}]
      BY <1>5 DEF TimerFires, Cancel
    <3>2. signals[s] \cup {x} # {}
      OBVIOUS
    <3>. QED
      BY <1>5, <3>1, <3>2 DEF TimerFires, Cancel, TypeOK
  <2>. QED
    BY <2>1, AdmissionKept DEF Admitted, WaitingForAdmission
<1>6. ASSUME NEW s \in Searches, NEW l \in Legs, LegStep(s, l) PROVE AdmissionInUse'
  <2>1. UNCHANGED <<admission, at, signals>>
    BY <1>6 DEF LegStep, ProviderReplies, LegEnds, StrayLegEnds
  <2>. QED
    BY <2>1, AdmissionKept DEF Admitted, WaitingForAdmission
<1>. QED
  BY <1>1, <1>2, <1>3, <1>4, <1>5, <1>6

-----------------------------------------------------------------------------
(* The dates semaphore *)

\* Nobody joins or leaves the line for dates, or a place on one, and only more
\* probes are told to stop.
LEMMA DatesKept ==
    ASSUME DatesInUse, dates' = dates,
           WaitingForDate' = WaitingForDate, OnDate' = OnDate,
           \A t \in WaitingForDate : signals'[t] = {} => signals[t] = {}
    PROVE  DatesInUse'
<1>1. InUse(dates, Probes, WaitingForDate, OnDate, MaxDates)
  BY DEF DatesInUse
<1>2. InLine(dates) = WaitingForDate
  BY <1>1 DEF InUse
<1>3. Prompt(dates)'
  BY <1>2, PromptKept DEF DatesInUse, Prompt, Pending, InLine
<1>. QED
  BY <1>1, <1>3 DEF DatesInUse

\* The semaphore is as prompt after a step as the step leaves it.
LEMMA DatesLeft ==
    ASSUME InUse(dates', Probes, WaitingForDate', OnDate', MaxDates),
           Prompt(dates'),
           \A t \in WaitingForDate' : signals'[t] = {} => signals[t] = {}
    PROVE  DatesInUse'
<1>1. InLine(dates') = WaitingForDate'
  BY DEF InUse
<1>2. Prompt(dates)'
  BY <1>1, PromptKept DEF Prompt, Pending, InLine
<1>. QED
  BY <1>2 DEF DatesInUse

\* The dates of a request are finitely many.
LEMMA ProbesFinite == IsFiniteSet(Probes) /\ Probes \subseteq Searches
  BY ConstantsAssumption, FS_Subset

\* A search that enters has a slot or waits for one.
LEMMA EnteringPlace ==
    ASSUME TypeOK, NEW s \in Searches, EnterSearch(s)
    PROVE  \E v \in {"admission", "searching"} : at' = [at EXCEPT ![s] = v]
  BY DEF EnterSearch

\* A probe that starts takes a date or stands in line for one.
LEMMA StartingKeepsDates ==
    ASSUME TypeOK, DatesInUse, NEW s \in Probes, ProbeStarts(s)
    PROVE  DatesInUse'
<1>1. s \notin OnDate /\ s \in Probes \ WaitingForDate /\ s \in Searches /\ signals' = signals
  BY ProbesFinite DEF OnDate, WaitingForDate, ProbeStarts
<1>2. CASE ~Locked(dates) /\ dates' = Take(dates) /\ EnterSearch(s)
  <2>1. OnDate' = OnDate \cup {s} /\ WaitingForDate' = WaitingForDate
    BY <1>1, <1>2, EnteringPlace, ProbesFinite DEF OnDate, WaitingForDate, TypeOK
  <2>2. InUse(dates', Probes, WaitingForDate, OnDate \cup {s}, MaxDates) /\ Prompt(dates')
    BY <1>1, <1>2, ProbesFinite, TakeInUse DEF DatesInUse
  <2>. QED
    BY <1>1, <2>1, <2>2, DatesLeft
<1>3. CASE /\ Locked(dates)
           /\ dates' = LineUp(dates, s)
           /\ at' = [at EXCEPT ![s] = "dates"]
  <2>1. OnDate' = OnDate /\ WaitingForDate' = WaitingForDate \cup {s}
    BY <1>1, <1>3, ProbesFinite DEF OnDate, WaitingForDate, TypeOK
  <2>2. InUse(dates', Probes, WaitingForDate \cup {s}, OnDate, MaxDates) /\ Prompt(dates')
    BY <1>1, <1>3, LineUpInUse DEF DatesInUse
  <2>. QED
    BY <1>1, <2>1, <2>2, DatesLeft
<1>. QED
  BY <1>2, <1>3 DEF ProbeStarts

\* A probe that resumes takes the date it was handed.
LEMMA ResumingKeepsDates ==
    ASSUME TypeOK, DatesInUse, NEW s \in Probes, ProbeResumes(s)
    PROVE  DatesInUse'
<1>1. /\ s \notin OnDate
      /\ OnDate' = OnDate \cup {s}
      /\ WaitingForDate' = WaitingForDate \ {s}
      /\ signals' = signals
  <2>1. s \in Searches /\ at[s] = "dates" /\ EnterSearch(s) /\ signals' = signals
    BY ProbesFinite DEF ProbeResumes
  <2>2. PICK v \in {"admission", "searching"} : at' = [at EXCEPT ![s] = v]
    BY <2>1, EnteringPlace
  <2>. QED
    BY <2>1, <2>2, ProbesFinite DEF OnDate, WaitingForDate, TypeOK
<1>2. s \in dates.granted /\ dates' \in Acquired(dates, s)
  BY DEF ProbeResumes, FirstGranted
<1>3. InUse(dates', Probes, WaitingForDate \ {s}, OnDate \cup {s}, MaxDates) /\ Prompt(dates')
  BY <1>1, <1>2, ProbesFinite, AcquiredInUse DEF DatesInUse
<1>. QED
  BY <1>1, <1>3, DatesLeft

\* A probe that ends in search gives its date back; another search has none.
LEMMA EndingKeepsDates ==
    ASSUME TypeOK, DatesInUse, NEW s \in Searches, at[s] \in {"admission", "searching"},
           NEW outcome, NEW goesOn, Ends(s, outcome, goesOn), LeavesDates(s)
    PROVE  DatesInUse'
<1>1. /\ s \notin WaitingForDate
      /\ OnDate' = OnDate \ {s}
      /\ WaitingForDate' = WaitingForDate
      /\ s \in Probes => s \in OnDate
      /\ OnDate \subseteq Probes
  BY ProbesFinite DEF Ends, OnDate, WaitingForDate, TypeOK
<1>2. \A t \in WaitingForDate : signals'[t] = signals[t]
  BY <1>1, ProbesFinite DEF Ends, WaitingForDate, TypeOK
<1>3. CASE s \in Probes
  <2>1. dates' = Release(dates)
    BY <1>3 DEF LeavesDates
  <2>2. InUse(dates', Probes, WaitingForDate, OnDate \ {s}, MaxDates) /\ Prompt(dates')
    BY <1>1, <1>3, <2>1, ProbesFinite, ReleaseInUse DEF DatesInUse
  <2>. QED
    BY <1>1, <1>2, <2>2, DatesLeft
<1>4. CASE s \notin Probes
  <2>1. dates' = dates /\ OnDate' = OnDate
    BY <1>1, <1>4 DEF LeavesDates
  <2>. QED
    BY <1>1, <1>2, <2>1, DatesKept
<1>. QED
  BY <1>3, <1>4

\* A probe that is cancelled in line keeps no date.
LEMMA GivingUpKeepsDates ==
    ASSUME TypeOK, DatesInUse, NEW s \in Probes, AbortDates(s)
    PROVE  DatesInUse'
<1>1. /\ s \in WaitingForDate
      /\ signals[s] # {}
      /\ dates' \in GivenUp(dates, s)
      /\ OnDate' = OnDate
      /\ WaitingForDate' = WaitingForDate \ {s}
  BY ProbesFinite DEF AbortDates, Ends, OnDate, WaitingForDate, TypeOK
<1>2. \A t \in WaitingForDate \ {s} : signals'[t] = signals[t]
  BY ProbesFinite DEF AbortDates, Ends, WaitingForDate, TypeOK
<1>3. InUse(dates', Probes, WaitingForDate \ {s}, OnDate, MaxDates) /\ Prompt(dates')
  BY <1>1, ProbesFinite, GivenUpInUse DEF DatesInUse
<1>. QED
  BY <1>1, <1>2, <1>3, DatesLeft

\* Any other step leaves the dates alone.
LEMMA OthersKeepDates ==
    ASSUME TypeOK, ProbesOnly, DatesInUse,
           \/ NearbyArrives \/ CancelNearby \/ NearbyReturns \/ NearbyFails \/ UNCHANGED vars
           \/ \E s \in Searches :
                 \/ SearchArrives(s) \/ AdmissionResumes(s)
                 \/ AbortCreated(s) \/ TimerFires(s) \/ Cancel(s)
                 \/ \E l \in Legs : LegStep(s, l)
    PROVE  DatesInUse'
<1>. USE ProbesFinite
<1>1. CASE NearbyArrives
  <2>1. OnDate' = OnDate /\ WaitingForDate' = WaitingForDate
    BY <1>1 DEF NearbyArrives, ProbesOnly, OnDate, WaitingForDate, TypeOK
  <2>. QED
    BY <1>1, <2>1, DatesKept DEF NearbyArrives
<1>2. CASE CancelNearby \/ NearbyReturns \/ NearbyFails \/ UNCHANGED vars
  <2>1. /\ dates' = dates
        /\ at' = at
        /\ \A t \in Searches : signals'[t] = {} => signals[t] = {}
    BY <1>2 DEF CancelNearby, NearbyReturns, NearbyFails, vars
  <2>. QED
    BY <2>1, DatesKept DEF OnDate, WaitingForDate
<1>3. ASSUME NEW s \in Searches, SearchArrives(s) \/ AdmissionResumes(s) PROVE DatesInUse'
  <2>1. /\ dates' = dates
        /\ signals' = signals
        /\ \E v \in {"admission", "searching"} : at' = [at EXCEPT ![s] = v]
    BY <1>3, EnteringPlace DEF SearchArrives, AdmissionResumes
  <2>2. s \in Probes => at[s] = "admission"
    BY <1>3 DEF SearchArrives, AdmissionResumes
  <2>3. OnDate' = OnDate /\ WaitingForDate' = WaitingForDate
    BY <2>1, <2>2 DEF OnDate, WaitingForDate, TypeOK
  <2>. QED
    BY <2>1, <2>3, DatesKept
<1>4. ASSUME NEW s \in Searches, AbortCreated(s) PROVE DatesInUse'
  <2>1. /\ dates' = dates
        /\ OnDate' = OnDate
        /\ WaitingForDate' = WaitingForDate
        /\ \A t \in WaitingForDate : signals'[t] = signals[t]
    BY <1>4 DEF AbortCreated, Ends, OnDate, WaitingForDate, TypeOK
  <2>. QED
    BY <2>1, DatesKept
<1>5. ASSUME NEW s \in Searches, TimerFires(s) \/ Cancel(s) PROVE DatesInUse'
  <2>1. /\ dates' = dates
        /\ at' = at
        /\ \A t \in Searches : signals'[t] = {} => signals[t] = {}
    <3>1. PICK x \in {"timeout", "cancel"} : signals' = [signals EXCEPT ![s] = @ \cup {x}]
      BY <1>5 DEF TimerFires, Cancel
    <3>2. signals[s] \cup {x} # {}
      OBVIOUS
    <3>. QED
      BY <1>5, <3>1, <3>2 DEF TimerFires, Cancel, TypeOK
  <2>. QED
    BY <2>1, DatesKept DEF OnDate, WaitingForDate
<1>6. ASSUME NEW s \in Searches, NEW l \in Legs, LegStep(s, l) PROVE DatesInUse'
  <2>1. UNCHANGED <<dates, at, signals>>
    BY <1>6 DEF LegStep, ProviderReplies, LegEnds, StrayLegEnds
  <2>. QED
    BY <2>1, DatesKept DEF OnDate, WaitingForDate
<1>. QED
  BY <1>1, <1>2, <1>3, <1>4, <1>5, <1>6

-----------------------------------------------------------------------------
(* Slots and dates *)

\* At first every slot is free.
LEMMA InitSlots == Init => SlotsInv
<1>. SUFFICES ASSUME Init PROVE SlotsInv
  OBVIOUS
<1>1. TypeOK
  <2>1. [l \in Legs |-> "idle"] \in [Legs -> {"idle", "running", "done", "raised"}]
    OBVIOUS
  <2>2. [p \in Providers |-> "none"] \in [Providers -> {"none", "failed", "empty", "offers"}]
    OBVIOUS
  <2>3. reply \in [Searches -> [Legs -> [Providers -> {"none", "failed", "empty", "offers"}]]]
    BY <2>2 DEF Init
  <2>. QED
    BY <2>1, <2>3 DEF Init, TypeOK
<1>2. ProbesOnly
  BY ProbesFinite DEF Init, ProbesOnly
<1>3. AdmissionInUse
  <2>1. /\ admission = [free |-> MaxSearches, queue |-> <<>>, granted |-> {}]
        /\ Admitted = {} /\ WaitingForAdmission = {}
        /\ MaxSearches \in Nat
    BY ConstantsAssumption DEF Init, Admitted, WaitingForAdmission
  <2>. QED
    BY <2>1, StartInUse DEF AdmissionInUse
<1>4. DatesInUse
  <2>1. /\ dates = [free |-> MaxDates, queue |-> <<>>, granted |-> {}]
        /\ OnDate = {} /\ WaitingForDate = {}
        /\ MaxDates \in Nat
    BY ConstantsAssumption, ProbesFinite DEF Init, OnDate, WaitingForDate
  <2>. QED
    BY <2>1, StartInUse DEF DatesInUse
<1>. QED
  BY <1>1, <1>2, <1>3, <1>4 DEF SlotsInv

\* Only probes become tasks of a nearby-dates request, and only by it.
LEMMA NextProbesOnly == TypeOK /\ ProbesOnly /\ [Next]_vars => ProbesOnly'
<1>. SUFFICES ASSUME TypeOK, ProbesOnly, [Next]_vars PROVE ProbesOnly'
  OBVIOUS
<1>. USE ProbesFinite
<1>1. ASSUME NEW s \in Searches,
             \E v \in {"admission", "searching", "ended"} : at' = [at EXCEPT ![s] = v],
             nearby' = nearby,
             s \in Probes => at[s] # "new"
      PROVE  ProbesOnly'
  BY <1>1 DEF TypeOK, ProbesOnly
<1>2. ASSUME NEW s \in Searches, SearchArrives(s) PROVE ProbesOnly'
  BY <1>1, <1>2, EnteringPlace DEF SearchArrives
<1>3. ASSUME NEW s \in Searches, ProbeStarts(s) PROVE ProbesOnly'
  <2>1. CASE EnterSearch(s)
    BY <1>1, <1>3, <2>1, EnteringPlace DEF ProbeStarts
  <2>2. CASE at' = [at EXCEPT ![s] = "dates"]
    BY <1>3, <2>2 DEF ProbeStarts, TypeOK, ProbesOnly
  <2>. QED
    BY <1>3, <2>1, <2>2 DEF ProbeStarts
<1>4. ASSUME NEW s \in Searches, ProbeResumes(s) PROVE ProbesOnly'
  BY <1>1, <1>4, EnteringPlace DEF ProbeResumes
<1>5. ASSUME NEW s \in Searches,
             AdmissionResumes(s) \/ SearchReturns(s) \/ SearchRaises(s) \/ AbortCreated(s)
               \/ AbortDates(s) \/ AbortAdmission(s) \/ AbortSearching(s)
      PROVE  ProbesOnly'
  <2>1. /\ \E v \in {"admission", "searching", "ended"} : at' = [at EXCEPT ![s] = v]
        /\ nearby' = nearby
        /\ at[s] # "new"
    BY <1>5 DEF AdmissionResumes, SearchReturns, SearchRaises, AbortCreated, AbortDates,
                AbortAdmission, AbortSearching, Ends
  <2>. QED
    BY <1>1, <2>1
<1>6. ASSUME NEW s \in Searches, NEW l \in Legs, LegStep(s, l) PROVE ProbesOnly'
  BY <1>6 DEF LegStep, ProviderReplies, LegEnds, StrayLegEnds, ProbesOnly
<1>7. ASSUME NEW s \in Searches, TimerFires(s) \/ Cancel(s) PROVE ProbesOnly'
  BY <1>7 DEF TimerFires, Cancel, ProbesOnly
<1>8. CASE NearbyArrives \/ CancelNearby \/ NearbyReturns \/ NearbyFails \/ UNCHANGED vars
  BY <1>8 DEF NearbyArrives, CancelNearby, NearbyReturns, NearbyFails, vars, ProbesOnly, TypeOK
<1>. QED
  BY <1>2, <1>3, <1>4, <1>5, <1>6, <1>7, <1>8 DEF Next, Step

\* Every step keeps both accounts.
LEMMA NextSlots == SlotsInv /\ [Next]_vars => SlotsInv'
<1>. SUFFICES ASSUME SlotsInv, [Next]_vars PROVE SlotsInv'
  OBVIOUS
<1>1. TypeOK /\ ProbesOnly /\ AdmissionInUse /\ DatesInUse
  BY DEF SlotsInv
<1>2. TypeOK' /\ ProbesOnly'
  BY <1>1, NextType, NextProbesOnly
<1>3. ASSUME NEW s \in Searches, SearchArrives(s)
      PROVE  AdmissionInUse' /\ DatesInUse'
  BY <1>1, <1>3, EnteringKeepsAdmission, OthersKeepDates DEF SearchArrives
<1>4. ASSUME NEW s \in Searches, ProbeStarts(s)
      PROVE  AdmissionInUse' /\ DatesInUse'
  <2>1. s \in Probes
    BY <1>1, <1>4 DEF ProbesOnly, ProbeStarts
  <2>2. DatesInUse'
    BY <1>1, <1>4, <2>1, StartingKeepsDates
  <2>3. CASE EnterSearch(s)
    BY <1>1, <1>4, <2>2, <2>3, EnteringKeepsAdmission DEF ProbeStarts
  <2>4. CASE ~EnterSearch(s)
    BY <1>1, <1>4, <2>2, <2>4, OthersKeepAdmission
  <2>. QED
    BY <2>3, <2>4
<1>5. ASSUME NEW s \in Searches, ProbeResumes(s)
      PROVE  AdmissionInUse' /\ DatesInUse'
  <2>1. s \in Probes
    BY <1>1, <1>5 DEF ProbesOnly, ProbeResumes
  <2>2. AdmissionInUse'
    BY <1>1, <1>5, EnteringKeepsAdmission DEF ProbeResumes
  <2>. QED
    BY <1>1, <1>5, <2>1, <2>2, ResumingKeepsDates
<1>6. ASSUME NEW s \in Searches, AdmissionResumes(s)
      PROVE  AdmissionInUse' /\ DatesInUse'
  BY <1>1, <1>6, ResumingKeepsAdmission, OthersKeepDates
<1>7. ASSUME NEW s \in Searches, SearchReturns(s) \/ SearchRaises(s) \/ AbortSearching(s)
      PROVE  AdmissionInUse' /\ DatesInUse'
  <2>1. PICK outcome, goesOn : Ends(s, outcome, goesOn)
    BY <1>7 DEF SearchReturns, SearchRaises, AbortSearching
  <2>2. at[s] = "searching" /\ admission' = Release(admission) /\ LeavesDates(s)
    BY <1>7 DEF SearchReturns, SearchRaises, AbortSearching
  <2>. QED
    BY <1>1, <2>1, <2>2, EndingKeepsAdmission, EndingKeepsDates
<1>8. ASSUME NEW s \in Searches, AbortCreated(s)
      PROVE  AdmissionInUse' /\ DatesInUse'
  BY <1>1, <1>8, OthersKeepAdmission, OthersKeepDates
<1>9. ASSUME NEW s \in Searches, AbortDates(s)
      PROVE  AdmissionInUse' /\ DatesInUse'
  <2>1. s \in Probes
    BY <1>1, <1>9 DEF ProbesOnly, AbortDates
  <2>. QED
    BY <1>1, <1>9, <2>1, OthersKeepAdmission, GivingUpKeepsDates
<1>10. ASSUME NEW s \in Searches, AbortAdmission(s)
       PROVE  AdmissionInUse' /\ DatesInUse'
  <2>1. PICK outcome : Ends(s, outcome, {})
    BY <1>10 DEF AbortAdmission
  <2>2. at[s] = "admission" /\ LeavesDates(s)
    BY <1>10 DEF AbortAdmission
  <2>. QED
    BY <1>1, <1>10, <2>1, <2>2, GivingUpKeepsAdmission, EndingKeepsDates
<1>11. ASSUME NEW s \in Searches, TimerFires(s) \/ Cancel(s) \/ \E l \in Legs : LegStep(s, l)
       PROVE  AdmissionInUse' /\ DatesInUse'
  BY <1>1, <1>11, OthersKeepAdmission, OthersKeepDates
<1>12. ASSUME NearbyArrives \/ CancelNearby \/ NearbyReturns \/ NearbyFails \/ UNCHANGED vars
       PROVE  AdmissionInUse' /\ DatesInUse'
  BY <1>1, <1>12, OthersKeepAdmission, OthersKeepDates
<1>13. AdmissionInUse' /\ DatesInUse'
  BY <1>1, <1>3, <1>4, <1>5, <1>6, <1>7, <1>8, <1>9, <1>10, <1>11, <1>12 DEF Next, Step
<1>. QED
  BY <1>2, <1>13 DEF SlotsInv

\* The accounts are right throughout.
THEOREM SlotsInvariance == Spec => []SlotsInv
  BY InitSlots, NextSlots, PTL DEF Spec

\* No admission slot and no date is lost or given out twice, whatever timeouts,
\* cancellations, hand-overs and results cross (search_orchestrator.py:176-195,
\* nearby_dates.py:57).
THEOREM SlotsAreConserved == Spec => []SlotsConserved
<1>1. SlotsInv => SlotsConserved
  BY InUseAllAccounted DEF SlotsInv, AdmissionInUse, DatesInUse, SlotsConserved, Admitted,
                           WaitingForAdmission, OnDate, WaitingForDate
<1>. QED
  BY <1>1, SlotsInvariance, PTL

\* Nobody waits beside a free slot, unless the one that was handed a slot has
\* yet to resume: no release and no cancellation forgets a waiter.
THEOREM NoSlotIdles == Spec => []NoIdleSlot
<1>1. SlotsInv => NoIdleSlot
  BY DEF SlotsInv, AdmissionInUse, DatesInUse, NoIdleSlot, Prompt
<1>. QED
  BY <1>1, SlotsInvariance, PTL

-----------------------------------------------------------------------------
(* The order of admission *)

\* The line is as in turn after a step as the step leaves it, when nobody in it
\* loses a signal.
LEMMA TurnLeft ==
    ASSUME InTurn(admission'), \A t \in InLine(admission') : signals[t] # {} => signals'[t] # {}
    PROVE  InTurn(admission)'
  BY DEF InTurn, Pending, InLine

\* A search that enters takes a slot that nobody waits for or stands behind all
\* others.
LEMMA EnteringInTurn ==
    ASSUME SlotsInv, InTurn(admission), NEW s \in Searches, at[s] \notin {"admission", "searching"},
           EnterSearch(s), signals' = signals
    PROVE  InTurn(admission)'
<1>1. /\ WellFormed(admission, Searches)
      /\ InLine(admission) = WaitingForAdmission
  BY DEF SlotsInv, AdmissionInUse, InUse
<1>2. s \notin InLine(admission)
  BY <1>1 DEF WaitingForAdmission
<1>3. InTurn(admission')
  BY <1>1, <1>2, EnterInTurn DEF EnterSearch
<1>. QED
  BY <1>3, TurnLeft

\* A search that ends hands its slot to the first who waits.
LEMMA EndingInTurn ==
    ASSUME SlotsInv, InTurn(admission), NEW s \in Searches, at[s] = "searching",
           NEW outcome, NEW goesOn, Ends(s, outcome, goesOn), admission' = Release(admission)
    PROVE  InTurn(admission)'
<1>1. /\ IsFiniteSet(Searches)
      /\ WellFormed(admission, Searches)
      /\ InLine(admission) = WaitingForAdmission
  BY ConstantsAssumption DEF SlotsInv, AdmissionInUse, InUse
<1>2. InTurn(admission') /\ InLine(admission') = InLine(admission)
  BY <1>1, ReleaseEffect, ReleaseInTurn DEF InLine
<1>3. \A t \in WaitingForAdmission : signals'[t] = signals[t]
  BY DEF Ends, WaitingForAdmission, SlotsInv, TypeOK
<1>. QED
  BY <1>1, <1>2, <1>3, TurnLeft

\* A search that leaves the line lets nobody past.
LEMMA LeavingInTurn ==
    ASSUME SlotsInv, InTurn(admission), NEW s \in Searches, AdmissionResumes(s) \/ AbortAdmission(s)
    PROVE  InTurn(admission)'
<1>1. /\ IsFiniteSet(Searches)
      /\ WellFormed(admission, Searches)
      /\ InLine(admission) = WaitingForAdmission
      /\ s \in WaitingForAdmission
  BY ConstantsAssumption DEF SlotsInv, AdmissionInUse, InUse, AdmissionResumes, AbortAdmission,
                             WaitingForAdmission
<1>2. \/ s \in admission.granted /\ admission' \in Acquired(admission, s)
      \/ admission' \in GivenUp(admission, s)
  BY DEF AdmissionResumes, AbortAdmission, FirstGranted
<1>3. InTurn(admission') /\ InLine(admission') = InLine(admission) \ {s}
  BY <1>1, <1>2, LeaveInTurn, AcquiredEffect, GivenUpEffect
<1>4. \A t \in WaitingForAdmission \ {s} : signals'[t] = signals[t]
  BY DEF AdmissionResumes, AbortAdmission, Ends, WaitingForAdmission, SlotsInv, TypeOK
<1>. QED
  BY <1>1, <1>3, <1>4, TurnLeft

\* Any other step leaves the line alone and takes no signal from it.
LEMMA OthersInTurn ==
    ASSUME SlotsInv, InTurn(admission), admission' = admission,
           \A t \in WaitingForAdmission : signals[t] # {} => signals'[t] # {}
    PROVE  InTurn(admission)'
<1>1. InLine(admission) = WaitingForAdmission
  BY DEF SlotsInv, AdmissionInUse, InUse
<1>. QED
  BY <1>1, TurnLeft

LEMMA NextInTurn == SlotsInv /\ InTurn(admission) /\ [Next]_vars => InTurn(admission)'
<1>. SUFFICES ASSUME SlotsInv, InTurn(admission), [Next]_vars PROVE InTurn(admission)'
  OBVIOUS
<1>1. ASSUME NEW s \in Searches, SearchArrives(s) \/ ProbeStarts(s) \/ ProbeResumes(s)
      PROVE  InTurn(admission)'
  <2>1. CASE EnterSearch(s)
    BY <1>1, <2>1, EnteringInTurn DEF SearchArrives, ProbeStarts, ProbeResumes
  <2>2. CASE ~EnterSearch(s)
    BY <1>1, <2>2, OthersInTurn DEF SearchArrives, ProbeStarts, ProbeResumes
  <2>. QED
    BY <2>1, <2>2
<1>2. ASSUME NEW s \in Searches, AdmissionResumes(s) \/ AbortAdmission(s) PROVE InTurn(admission)'
  BY <1>2, LeavingInTurn
<1>3. ASSUME NEW s \in Searches, SearchReturns(s) \/ SearchRaises(s) \/ AbortSearching(s)
      PROVE  InTurn(admission)'
  <2>1. PICK outcome, goesOn : Ends(s, outcome, goesOn)
    BY <1>3 DEF SearchReturns, SearchRaises, AbortSearching
  <2>2. at[s] = "searching" /\ admission' = Release(admission)
    BY <1>3 DEF SearchReturns, SearchRaises, AbortSearching
  <2>. QED
    BY <2>1, <2>2, EndingInTurn
<1>4. ASSUME NEW s \in Searches, AbortCreated(s) \/ AbortDates(s) PROVE InTurn(admission)'
  <2>1. /\ admission' = admission
        /\ \A t \in WaitingForAdmission : signals'[t] = signals[t]
    BY <1>4 DEF AbortCreated, AbortDates, Ends, WaitingForAdmission, SlotsInv, TypeOK
  <2>. QED
    BY <2>1, OthersInTurn
<1>5. ASSUME NEW s \in Searches, TimerFires(s) \/ Cancel(s) PROVE InTurn(admission)'
  <2>1. PICK x \in {"timeout", "cancel"} : signals' = [signals EXCEPT ![s] = @ \cup {x}]
    BY <1>5 DEF TimerFires, Cancel
  <2>2. \A t \in Searches : signals[t] # {} => signals'[t] # {}
    BY <2>1 DEF SlotsInv, TypeOK
  <2>. QED
    BY <1>5, <2>2, OthersInTurn DEF TimerFires, Cancel, WaitingForAdmission
<1>6. CASE CancelNearby
  BY <1>6, OthersInTurn DEF CancelNearby, WaitingForAdmission
<1>7. ASSUME NEW s \in Searches, NEW l \in Legs, LegStep(s, l) PROVE InTurn(admission)'
  BY <1>7, OthersInTurn DEF LegStep, ProviderReplies, LegEnds, StrayLegEnds
<1>8. CASE NearbyArrives \/ NearbyReturns \/ NearbyFails \/ UNCHANGED vars
  BY <1>8, OthersInTurn DEF NearbyArrives, NearbyReturns, NearbyFails, vars
<1>. QED
  BY <1>1, <1>2, <1>3, <1>4, <1>5, <1>6, <1>7, <1>8 DEF Next, Step

\* Who is admitted by a step found the line free of waiters or was the first of
\* it that holds a slot.
LEMMA AdmittedNext ==
    ASSUME SlotsInv, InTurn(admission), [Next]_vars,
           NEW s \in Searches, at[s] # "searching", at'[s] = "searching",
           NEW w \in Ahead(admission, s)
    PROVE  signals[w] # {}
<1>1. SearchArrives(s) \/ ProbeStarts(s) \/ ProbeResumes(s) \/ AdmissionResumes(s)
  BY DEF Next, Step, SlotsInv, TypeOK, vars, SearchArrives, ProbeStarts, ProbeResumes,
         EnterSearch, AdmissionResumes, NearbyArrives, CancelNearby, NearbyReturns, NearbyFails,
         TimerFires, Cancel, LegStep, ProviderReplies, LegEnds, StrayLegEnds, SearchReturns,
         SearchRaises, AbortCreated, AbortDates, AbortAdmission, AbortSearching, Ends
<1>2. PICK i \in DOMAIN admission.queue :
         admission.queue[i] = w /\ \A k \in 1..i : admission.queue[k] # s
  BY DEF Ahead
<1>3. CASE ~Locked(admission)
  BY <1>2, <1>3 DEF Locked
<1>4. CASE FirstGranted(admission, s)
  <2>1. PICK j \in DOMAIN admission.queue :
           /\ admission.queue[j] = s
           /\ s \in admission.granted
           /\ \A k \in 1..(j - 1) : admission.queue[k] \notin admission.granted
    BY <1>4 DEF FirstGranted
  <2>2. DOMAIN admission.queue = 1..Len(admission.queue) /\ Len(admission.queue) \in Nat
    BY LineType DEF SlotsInv, AdmissionInUse, InUse
  <2>3. i < j /\ i \in 1..(j - 1)
    BY <1>2, <2>1, <2>2
  <2>4. w \notin Pending(admission) /\ w \notin admission.granted
    BY <1>2, <2>1, <2>3 DEF InTurn
  <2>. QED
    BY <1>2, <2>4 DEF Pending
<1>. QED
  BY <1>1, <1>3, <1>4 DEF SearchArrives, ProbeStarts, ProbeResumes, AdmissionResumes, EnterSearch,
                          SlotsInv, TypeOK

\* Whoever is admitted passes nobody who waits longer and has not been told to
\* stop: neither newcomers nor the probes of nearby dates push a search into its
\* admission timeout (search_orchestrator.py:176-185).
THEOREM AdmissionIsInOrder == Spec => AdmittedInOrder
<1>1. Init => InTurn(admission)
  BY DEF Init, InTurn
<1>2. SlotsInv /\ InTurn(admission) /\ [Next]_vars
         => [\A s \in Searches :
                at[s] # "searching" /\ at'[s] = "searching" =>
                    \A w \in Ahead(admission, s) : signals[w] # {}]_vars
  BY AdmittedNext
<1>3. Spec => []InTurn(admission)
  BY <1>1, NextInTurn, SlotsInvariance, PTL DEF Spec
<1>. QED
  BY <1>2, <1>3, SlotsInvariance, PTL DEF Spec, AdmittedInOrder

-----------------------------------------------------------------------------
(* Legs and answers *)

\* What is known of one leg of a search: it is about while the search is, its
\* providers are asked by it alone, and it is over when all of them replied.
LegKnown(s, l) ==
    /\ leg[s][l] # "idle" => l \in LegsOf(s)
    /\ leg[s][l] = "idle" => \A p \in Providers : reply[s][l][p] = "none"
    /\ leg[s][l] \in {"done", "raised"} =>
          at[s] = "searching" /\ s \in RoundTrips /\ Replied(s, l)
    /\ leg[s][l] = "running" =>
          \/ at[s] = "searching"
          \/ at[s] = "ended" /\ s \in RoundTrips /\ answer[s] = "error"

LegsKnown == \A s \in Searches, l \in Legs : LegKnown(s, l)

\* Nothing of a leg changes.
LEMMA LegKept ==
    ASSUME NEW s \in Searches, NEW l \in Legs, LegKnown(s, l),
           leg'[s][l] = leg[s][l], reply'[s][l] = reply[s][l], at'[s] = at[s],
           answer'[s] = answer[s]
    PROVE  LegKnown(s, l)'
  BY DEF LegKnown, Replied

\* A search that ends leaves what is known of legs.
LEMMA EndsLegs ==
    ASSUME TypeOK, LegsKnown, NEW s \in Searches, NEW outcome, NEW goesOn, Ends(s, outcome, goesOn),
           \A l \in goesOn : outcome = "error" /\ s \in RoundTrips
    PROVE  LegsKnown'
<1>1. ASSUME NEW t \in Searches, NEW l \in Legs, t # s PROVE LegKnown(t, l)'
  <2>1. /\ leg'[t][l] = leg[t][l]
        /\ reply'[t][l] = reply[t][l]
        /\ at'[t] = at[t]
        /\ answer'[t] = answer[t]
    BY <1>1 DEF Ends, TypeOK
  <2>. QED
    BY <2>1, LegKept DEF LegsKnown
<1>2. ASSUME NEW l \in Legs PROVE LegKnown(s, l)'
  <2>1. /\ leg'[s][l] = IF l \in goesOn THEN "running" ELSE "idle"
        /\ at'[s] = "ended"
        /\ answer'[s] = outcome
        /\ \A p \in Providers : reply'[s][l][p] = IF l \in goesOn THEN reply[s][l][p] ELSE "none"
    BY DEF Ends, TypeOK
  <2>2. l \in goesOn => outcome = "error" /\ s \in RoundTrips
    OBVIOUS
  <2>3. s \in RoundTrips => l \in LegsOf(s)
    BY DEF LegsOf
  <2>. QED
    BY <2>1, <2>2, <2>3 DEF LegKnown
<1>. QED
  BY <1>1, <1>2 DEF LegsKnown

\* The legs of a search that begins are running, and nobody has told them
\* anything.
LEMMA StartLegs ==
    ASSUME TypeOK, LegsKnown, NEW s \in Searches, at[s] \notin {"searching", "ended"},
           LegsStart(s), at' = [at EXCEPT ![s] = "searching"],
           reply' = reply, answer' = answer
    PROVE  LegsKnown'
<1>1. ASSUME NEW t \in Searches, NEW l \in Legs, t # s PROVE LegKnown(t, l)'
  <2>1. leg'[t][l] = leg[t][l] /\ at'[t] = at[t]
    BY <1>1 DEF LegsStart, TypeOK
  <2>. QED
    BY <2>1, LegKept DEF LegsKnown
<1>2. ASSUME NEW l \in Legs PROVE LegKnown(s, l)'
  <2>1. /\ leg'[s][l] = IF l \in LegsOf(s) THEN "running" ELSE "idle"
        /\ at'[s] = "searching"
    BY DEF LegsStart, TypeOK
  <2>2. leg[s][l] = "idle"
    BY DEF LegsKnown, LegKnown, TypeOK
  <2>3. \A p \in Providers : reply[s][l][p] = "none"
    BY <2>2 DEF LegsKnown, LegKnown
  <2>. QED
    BY <2>1, <2>3 DEF LegKnown
<1>. QED
  BY <1>1, <1>2 DEF LegsKnown

\* Somebody moves outside of searches.
LEMMA MoveLegs ==
    ASSUME TypeOK, LegsKnown, leg' = leg, reply' = reply, answer' = answer,
           \A s \in Searches : at'[s] = at[s] \/ at[s] \notin {"searching", "ended"}
    PROVE  LegsKnown'
<1>. SUFFICES ASSUME NEW s \in Searches, NEW l \in Legs PROVE LegKnown(s, l)'
  BY DEF LegsKnown
<1>1. CASE at'[s] = at[s]
  BY <1>1, LegKept DEF LegsKnown
<1>2. CASE at[s] \notin {"searching", "ended"}
  <2>1. leg[s][l] = "idle"
    BY <1>2 DEF LegsKnown, LegKnown, TypeOK
  <2>. QED
    BY <2>1 DEF LegsKnown, LegKnown
<1>. QED
  BY <1>1, <1>2

\* A search enters.
LEMMA EnterLegs ==
    ASSUME TypeOK, LegsKnown, NEW s \in Searches, at[s] \notin {"searching", "ended"},
           EnterSearch(s), reply' = reply, answer' = answer
    PROVE  LegsKnown'
<1>1. CASE at' = [at EXCEPT ![s] = "searching"] /\ LegsStart(s)
  BY <1>1, StartLegs
<1>2. CASE at' = [at EXCEPT ![s] = "admission"] /\ leg' = leg
  <2>1. \A t \in Searches : at'[t] = at[t] \/ at[t] \notin {"searching", "ended"}
    BY <1>2 DEF TypeOK
  <2>. QED
    BY <1>2, <2>1, MoveLegs
<1>. QED
  BY <1>1, <1>2 DEF EnterSearch

\* A provider replies, or a leg ends.
LEMMA LegStepLegs ==
    ASSUME TypeOK, LegsKnown, NEW s \in Searches, NEW l \in Legs, LegStep(s, l)
    PROVE  LegsKnown'
<1>1. at' = at /\ answer' = answer
  BY DEF LegStep, ProviderReplies, LegEnds, StrayLegEnds
<1>2. ASSUME NEW t \in Searches, NEW k \in Legs, t # s \/ k # l PROVE LegKnown(t, k)'
  <2>1. leg'[t][k] = leg[t][k] /\ reply'[t][k] = reply[t][k]
    BY <1>2 DEF LegStep, ProviderReplies, LegEnds, StrayLegEnds, TypeOK
  <2>. QED
    BY <1>1, <2>1, LegKept DEF LegsKnown
<1>3. LegKnown(s, l)'
  <2>1. ASSUME NEW p \in Providers, ProviderReplies(s, l, p) PROVE LegKnown(s, l)'
    BY <1>1, <2>1 DEF ProviderReplies, LegsKnown, LegKnown, TypeOK
  <2>2. CASE LegEnds(s, l)
    <3>1. leg'[s][l] \in {"done", "raised"} /\ reply' = reply /\ Replied(s, l)
      BY <2>2 DEF LegEnds, TypeOK
    <3>2. at[s] = "searching" /\ s \in RoundTrips /\ leg[s][l] = "running"
      BY <2>2 DEF LegEnds
    <3>. QED
      BY <1>1, <3>1, <3>2 DEF LegsKnown, LegKnown, Replied
  <2>3. CASE StrayLegEnds(s, l)
    <3>1. leg'[s][l] = "idle" /\ \A p \in Providers : reply'[s][l][p] = "none"
      BY <2>3 DEF StrayLegEnds, TypeOK
    <3>. QED
      BY <3>1 DEF LegKnown
  <2>. QED
    BY <2>1, <2>2, <2>3 DEF LegStep
<1>. QED
  BY <1>2, <1>3 DEF LegsKnown

\* What is known of legs stays true in every step.
LEMMA NextLegs == TypeOK /\ ProbesOnly /\ LegsKnown /\ [Next]_vars => LegsKnown'
<1>. SUFFICES ASSUME TypeOK, ProbesOnly, LegsKnown, [Next]_vars PROVE LegsKnown'
  OBVIOUS
<1>1. ASSUME NEW s \in Searches, SearchArrives(s) \/ ProbeResumes(s) PROVE LegsKnown'
  BY <1>1, EnterLegs DEF SearchArrives, ProbeResumes
<1>2. ASSUME NEW s \in Searches, ProbeStarts(s) PROVE LegsKnown'
  <2>1. CASE EnterSearch(s)
    BY <1>2, <2>1, EnterLegs DEF ProbeStarts
  <2>2. CASE ~EnterSearch(s)
    <3>1. \A t \in Searches : at'[t] = at[t] \/ at[t] \notin {"searching", "ended"}
      BY <1>2, <2>2 DEF ProbeStarts, TypeOK
    <3>. QED
      BY <1>2, <2>2, <3>1, MoveLegs DEF ProbeStarts
  <2>. QED
    BY <2>1, <2>2
<1>3. ASSUME NEW s \in Searches, AdmissionResumes(s) PROVE LegsKnown'
  BY <1>3, StartLegs DEF AdmissionResumes
<1>4. ASSUME NEW s \in Searches, SearchReturns(s) PROVE LegsKnown'
  <2>1. PICK outcome : Ends(s, outcome, {})
    BY <1>4 DEF SearchReturns
  <2>. QED
    BY <2>1, EndsLegs
<1>5. ASSUME NEW s \in Searches, SearchRaises(s) PROVE LegsKnown'
  BY <1>5, EndsLegs DEF SearchRaises
<1>6. ASSUME NEW s \in Searches,
             AbortCreated(s) \/ AbortDates(s) \/ AbortAdmission(s) \/ AbortSearching(s)
      PROVE  LegsKnown'
  <2>1. PICK outcome : Ends(s, outcome, {})
    BY <1>6 DEF AbortCreated, AbortDates, AbortAdmission, AbortSearching
  <2>. QED
    BY <2>1, EndsLegs
<1>7. CASE NearbyArrives
  <2>1. \A s \in Searches : at'[s] = at[s] \/ at[s] \notin {"searching", "ended"}
    BY <1>7 DEF NearbyArrives, ProbesOnly
  <2>. QED
    BY <1>7, <2>1, MoveLegs DEF NearbyArrives
<1>8. CASE CancelNearby \/ NearbyReturns \/ NearbyFails \/ UNCHANGED vars
  BY <1>8, MoveLegs DEF CancelNearby, NearbyReturns, NearbyFails, vars
<1>9. ASSUME NEW s \in Searches, TimerFires(s) \/ Cancel(s) PROVE LegsKnown'
  BY <1>9, MoveLegs DEF TimerFires, Cancel
<1>. QED
  BY <1>1, <1>2, <1>3, <1>4, <1>5, <1>6, <1>7, <1>8, <1>9, LegStepLegs DEF Next, Step

\* No leg runs before there is a search.
LEMMA InitLegs == Init => LegsKnown
  BY DEF Init, LegsKnown, LegKnown

\* What is known of legs is known throughout.
THEOREM LegsInvariance == Spec => [](SlotsInv /\ LegsKnown)
<1>1. SlotsInv /\ LegsKnown /\ [Next]_vars => LegsKnown'
  BY NextLegs DEF SlotsInv
<1>. QED
  BY <1>1, InitSlots, NextSlots, InitLegs, PTL DEF Spec

\* Providers are asked on behalf of searches that hold an admission slot, save
\* for the leg whose sibling raised (search_orchestrator.py:231-244).
THEOREM LegsAlwaysHaveASlot == Spec => []LegsHaveASlot
<1>1. LegsKnown => LegsHaveASlot
  BY DEF LegsKnown, LegKnown, LegsHaveASlot
<1>. QED
  BY <1>1, LegsInvariance, PTL

\* When its legs are over every provider has replied to every leg of a search.
LEMMA OverReplied ==
    ASSUME LegsKnown, NEW s \in Searches, LegsOver(s), NEW l \in LegsOf(s)
    PROVE  Replied(s, l)
<1>1. CASE s \in RoundTrips
  BY <1>1, LegsOfType DEF LegsOver, LegsKnown, LegKnown
<1>2. CASE s \notin RoundTrips
  BY <1>2 DEF LegsOver, LegsOf
<1>. QED
  BY <1>1, <1>2

\* Who succeeded, and who failed, when the legs are over.
LEMMA SucceededSays ==
    ASSUME TypeOK, LegsKnown, NEW s \in Searches, LegsOver(s)
    PROVE  /\ Succeeded(s) = {} => \A l \in LegsOf(s), p \in Providers : reply[s][l][p] = "failed"
           /\ Succeeded(s) # {} => \E l \in LegsOf(s), p \in Providers :
                                       reply[s][l][p] \in {"empty", "offers"}
<1>1. ASSUME Succeeded(s) = {}, NEW l \in LegsOf(s), NEW p \in Providers
      PROVE  reply[s][l][p] = "failed"
  <2>1. l \in Legs /\ reply[s][l][p] # "none"
    BY OverReplied, LegsOfType DEF Replied
  <2>2. <<l, p>> \in Legs \X Providers
    BY <2>1
  <2>3. reply[s][l][p] \notin {"empty", "offers"}
    BY <1>1, <2>2 DEF Succeeded
  <2>. QED
    BY <2>1, <2>3 DEF TypeOK
<1>2. ASSUME Succeeded(s) # {}
      PROVE  \E l \in LegsOf(s), p \in Providers : reply[s][l][p] \in {"empty", "offers"}
  <2>1. PICK l \in Legs, p \in Providers : reply[s][l][p] \in {"empty", "offers"}
    BY <1>2 DEF Succeeded
  <2>2. l \in LegsOf(s)
    BY <2>1 DEF LegsKnown, LegKnown
  <2>. QED
    BY <2>1, <2>2
<1>. QED
  BY <1>1, <1>2

\* A probe has one leg: as many successes as providers that answered it.
LEMMA SucceededSize ==
    ASSUME TypeOK, LegsKnown, NEW s \in Probes
    PROVE  LET good == {p \in Providers : reply[s]["outbound"][p] \in {"empty", "offers"}}
           IN  /\ IsFiniteSet(good)
               /\ Cardinality(Succeeded(s)) = Cardinality(good)
               /\ Cardinality(good) = Cardinality(Providers) => good = Providers
<1>. DEFINE good == {p \in Providers : reply[s]["outbound"][p] \in {"empty", "offers"}}
            pair == [p \in good |-> <<"outbound", p>>]
<1>1. s \in Searches /\ s \notin RoundTrips /\ IsFiniteSet(Providers)
  BY ConstantsAssumption
<1>2. IsFiniteSet(good) /\ (Cardinality(good) = Cardinality(Providers) => good = Providers)
  <2>1. good \in SUBSET Providers
    OBVIOUS
  <2>. HIDE DEF good
  <2>. QED
    BY <1>1, <2>1, FS_Subset
<1>3. Succeeded(s) = {<<"outbound", p>> : p \in good}
  <2>1. ASSUME NEW lp \in Succeeded(s) PROVE lp \in {<<"outbound", p>> : p \in good}
    <3>1. PICK l \in Legs, p \in Providers : lp = <<l, p>>
      BY DEF Succeeded
    <3>2. reply[s][l][p] \in {"empty", "offers"}
      BY <3>1 DEF Succeeded
    <3>3. l \in LegsOf(s)
      BY <1>1, <3>2 DEF LegsKnown, LegKnown
    <3>4. l = "outbound"
      BY <1>1, <3>3 DEF LegsOf
    <3>. QED
      BY <3>1, <3>2, <3>4
  <2>2. ASSUME NEW p \in good PROVE <<"outbound", p>> \in Succeeded(s)
    BY DEF Succeeded, Legs
  <2>. QED
    BY <2>1, <2>2
<1>4. ExistsBijection(good, Succeeded(s))
  <2>1. pair \in [good -> Succeeded(s)]
    BY <1>3
  <2>2. \A p, r \in good : pair[p] = pair[r] => p = r
    OBVIOUS
  <2>3. \A lp \in Succeeded(s) : \E p \in good : pair[p] = lp
    BY <1>3
  <2>. HIDE DEF pair, good
  <2>4. pair \in Bijection(good, Succeeded(s))
    BY <2>1, <2>2, <2>3 DEF Bijection, Injection, Surjection, IsInjective
  <2>. QED
    BY <2>4 DEF ExistsBijection
<1>5. Cardinality(Succeeded(s)) = Cardinality(good)
  <2>. HIDE DEF good
  <2>. QED
    BY <1>2, <1>4, FS_Bijection
<1>. QED
  BY <1>2, <1>5

\* The status of a date says what its providers said.
LEMMA DateStatusSays ==
    ASSUME TypeOK, LegsKnown, NEW s \in Probes, LegsOver(s)
    PROVE  /\ DateStatus(s) = "sold_out" =>
                 \A p \in Providers : reply[s]["outbound"][p] = "empty"
           /\ DateStatus(s) = "provider_unavailable" => Succeeded(s) = {}
           /\ DateStatus(s) # "provider_unavailable" => Succeeded(s) # {}
           /\ DateStatus(s) = "availability_unknown" =>
                 /\ \E p \in Providers : reply[s]["outbound"][p] = "failed"
                 /\ \E p \in Providers : reply[s]["outbound"][p] = "empty"
<1>. DEFINE good == {p \in Providers : reply[s]["outbound"][p] \in {"empty", "offers"}}
<1>1. s \in Searches /\ LegsOf(s) = {"outbound"} /\ "outbound" \in Legs
  BY ConstantsAssumption DEF LegsOf, Legs
<1>2. /\ IsFiniteSet(good)
      /\ Cardinality(Succeeded(s)) = Cardinality(good)
      /\ Cardinality(good) = Cardinality(Providers) => good = Providers
  BY SucceededSize
<1>3. \A p \in Providers : reply[s]["outbound"][p] \in {"failed", "empty", "offers"}
  <2>1. Replied(s, "outbound")
    BY <1>1, OverReplied
  <2>2. \A p \in Providers : reply[s]["outbound"][p] \in {"none", "failed", "empty", "offers"}
    BY <1>1 DEF TypeOK
  <2>. QED
    BY <2>1, <2>2 DEF Replied
<1>4. HasOffers(s) \/ \A p \in Providers : reply[s]["outbound"][p] # "offers"
  BY <1>1 DEF HasOffers
<1>5. ASSUME DateStatus(s) = "sold_out"
      PROVE  \A p \in Providers : reply[s]["outbound"][p] = "empty"
  <2>1. ~HasOffers(s) /\ Cardinality(Succeeded(s)) = Cardinality(Providers)
    BY <1>5 DEF DateStatus
  <2>2. good = Providers
    BY <1>2, <2>1
  <2>. QED
    BY <1>3, <1>4, <2>1, <2>2
<1>6. ASSUME DateStatus(s) = "availability_unknown"
      PROVE  /\ \E p \in Providers : reply[s]["outbound"][p] = "failed"
             /\ \E p \in Providers : reply[s]["outbound"][p] = "empty"
  <2>1. /\ ~HasOffers(s)
        /\ Succeeded(s) # {}
        /\ Cardinality(Succeeded(s)) # Cardinality(Providers)
    BY <1>6 DEF DateStatus
  <2>2. good # Providers
    BY <1>2, <2>1
  <2>3. \E l \in LegsOf(s), p \in Providers : reply[s][l][p] \in {"empty", "offers"}
    BY <1>1, <2>1, SucceededSays
  <2>. QED
    BY <1>1, <1>3, <1>4, <2>1, <2>2, <2>3
<1>7. /\ DateStatus(s) = "provider_unavailable" => Succeeded(s) = {}
      /\ DateStatus(s) # "provider_unavailable" => Succeeded(s) # {}
  BY DEF DateStatus
<1>. QED
  BY <1>5, <1>6, <1>7

\* What a search may be told, in the words of AnswersAreHonest.
HonestAnswer(s, a) ==
    CASE a = "sold_out" ->
            \A p \in Providers : reply[s]["outbound"][p] = "empty"
      [] a \in {"unavailable", "provider_unavailable"} ->
            \A l \in LegsOf(s), p \in Providers :
                reply[s][l][p] = "failed" \/ at[s] = "admission"
      [] a \in {"answered", "available"} ->
            \E l \in LegsOf(s), p \in Providers : reply[s][l][p] \in {"empty", "offers"}
      [] a = "availability_unknown" ->
            /\ \E p \in Providers : reply[s]["outbound"][p] = "failed"
            /\ \E p \in Providers : reply[s]["outbound"][p] = "empty"
      [] a = "refused" ->
            \A l \in Legs, p \in Providers : reply[s][l][p] = "none"
      [] OTHER -> TRUE

\* A search that returns is told what its providers said.
LEMMA ReturnsHonest ==
    ASSUME TypeOK, LegsKnown, NEW s \in Searches, LegsOver(s)
    PROVE  HonestAnswer(s, IF s \in Probes THEN DateStatus(s)
                           ELSE IF Succeeded(s) = {} THEN "unavailable" ELSE "answered")
<1>1. /\ Succeeded(s) = {} => \A l \in LegsOf(s), p \in Providers : reply[s][l][p] = "failed"
      /\ Succeeded(s) # {} => \E l \in LegsOf(s), p \in Providers :
                                  reply[s][l][p] \in {"empty", "offers"}
  BY SucceededSays
<1>2. CASE s \in Probes
  <2>1. DateStatus(s) \in Statuses
    BY DateStatusType
  <2>2. CASE DateStatus(s) = "sold_out"
    BY <1>2, <2>2, DateStatusSays DEF HonestAnswer
  <2>3. CASE DateStatus(s) = "available"
    BY <1>1, <1>2, <2>3, DateStatusSays DEF HonestAnswer
  <2>4. CASE DateStatus(s) = "availability_unknown"
    BY <1>2, <2>4, DateStatusSays DEF HonestAnswer
  <2>5. CASE DateStatus(s) = "provider_unavailable"
    BY <1>1, <1>2, <2>5, DateStatusSays DEF HonestAnswer
  <2>. QED
    BY <2>1, <2>2, <2>3, <2>4, <2>5 DEF Statuses
<1>3. CASE s \notin Probes /\ Succeeded(s) = {}
  BY <1>1, <1>3 DEF HonestAnswer
<1>4. CASE s \notin Probes /\ Succeeded(s) # {}
  BY <1>1, <1>4 DEF HonestAnswer
<1>. QED
  BY <1>2, <1>3, <1>4

\* A search that is told to stop in line has asked nobody.
LEMMA RefusalHonest ==
    ASSUME TypeOK, LegsKnown, NEW s \in Searches, at[s] = "admission",
           NEW a \in {"cancelled", "provider_unavailable", "refused"}
    PROVE  HonestAnswer(s, a)
<1>1. \A l \in Legs : leg[s][l] = "idle"
  BY DEF LegsKnown, LegKnown, TypeOK
<1>2. \A l \in Legs, p \in Providers : reply[s][l][p] = "none"
  BY <1>1 DEF LegsKnown, LegKnown
<1>. QED
  BY <1>2 DEF HonestAnswer

\* Every new answer is an honest one.
LEMMA NextHonest ==
    ASSUME TypeOK, LegsKnown, Next, NEW s \in Searches, answer'[s] # answer[s]
    PROVE  HonestAnswer(s, answer'[s])
<1>1. ASSUME NEW t \in Searches, NEW outcome, NEW goesOn, Ends(t, outcome, goesOn)
      PROVE  s = t /\ answer'[s] = outcome
  BY <1>1 DEF Ends, TypeOK
<1>2. ASSUME NEW t \in Searches, SearchReturns(t) PROVE HonestAnswer(s, answer'[s])
  BY <1>1, <1>2, ReturnsHonest DEF SearchReturns
<1>3. ASSUME NEW t \in Searches, SearchRaises(t) PROVE HonestAnswer(s, answer'[s])
  <2>1. answer'[s] = "error"
    BY <1>1, <1>3 DEF SearchRaises
  <2>. QED
    BY <2>1 DEF HonestAnswer
<1>4. ASSUME NEW t \in Searches, AbortAdmission(t) PROVE HonestAnswer(s, answer'[s])
  <2>1. PICK a \in {"cancelled", "provider_unavailable", "refused"} : Ends(t, a, {})
    BY <1>4 DEF AbortAdmission
  <2>. QED
    BY <1>1, <1>4, <2>1, RefusalHonest DEF AbortAdmission
<1>5. ASSUME NEW t \in Searches, AbortCreated(t) \/ AbortDates(t) \/ AbortSearching(t)
      PROVE  HonestAnswer(s, answer'[s])
  <2>1. answer'[s] = "cancelled"
    BY <1>1, <1>5 DEF AbortCreated, AbortDates, AbortSearching
  <2>. QED
    BY <2>1 DEF HonestAnswer
<1>6. ASSUME UNCHANGED answer PROVE FALSE
  BY <1>6
<1>. QED
  BY <1>2, <1>3, <1>4, <1>5, <1>6
     DEF Next, Step, LegStep, SearchArrives, TimerFires, Cancel, ProbeStarts, ProbeResumes,
         AdmissionResumes, ProviderReplies, LegEnds, StrayLegEnds, NearbyArrives, CancelNearby,
         NearbyReturns, NearbyFails

\* Every answer says of the providers what they said: a date is sold out only
\* when each of them was asked and has nothing, nobody is told they are
\* unavailable while one answered, and a refusal asked none of them
\* (search_orchestrator.py:176-195, nearby_dates.py:57-105).
THEOREM AnswersAreAlwaysHonest == Spec => AnswersAreHonest
<1>1. TypeOK /\ LegsKnown /\ [Next]_vars =>
        [\A s \in Searches : answer'[s] # answer[s] =>
            CASE answer'[s] = "sold_out" ->
                    \A p \in Providers : reply[s]["outbound"][p] = "empty"
              [] answer'[s] \in {"unavailable", "provider_unavailable"} ->
                    \A l \in LegsOf(s), p \in Providers :
                        reply[s][l][p] = "failed" \/ at[s] = "admission"
              [] answer'[s] \in {"answered", "available"} ->
                    \E l \in LegsOf(s), p \in Providers : reply[s][l][p] \in {"empty", "offers"}
              [] answer'[s] = "availability_unknown" ->
                    /\ \E p \in Providers : reply[s]["outbound"][p] = "failed"
                    /\ \E p \in Providers : reply[s]["outbound"][p] = "empty"
              [] answer'[s] = "refused" ->
                    \A l \in Legs, p \in Providers : reply[s][l][p] = "none"
              [] OTHER -> TRUE]_vars
  <2>. SUFFICES ASSUME TypeOK, LegsKnown, Next, NEW s \in Searches, answer'[s] # answer[s]
                PROVE  HonestAnswer(s, answer'[s])
    BY DEF vars, HonestAnswer
  <2>. QED
    BY NextHonest
<1>2. SlotsInv => TypeOK
  BY DEF SlotsInv
<1>. QED
  BY <1>1, <1>2, LegsInvariance, PTL DEF Spec, AnswersAreHonest
=============================================================================
