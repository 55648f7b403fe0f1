-------------------------- MODULE ResultsPageProofs --------------------------
(* What the results page shows, for any number of trips, rankings, jobs and     *)
(* searches, whatever the user does while they go on.                           *)
EXTENDS ResultsPage, SequenceTheorems, TLAPS

Legs == {"outbound", "return"}
Ids  == JobIds \cup {NoJob}

Answers == Jobs!ActiveAnswers \cup Jobs!SettledAnswers \cup {Jobs!Absent, Jobs!Gone}

Run == [journey : Journeys, job : Ids, aborted : BOOLEAN,
        stage   : {"creating", "pausing", "asking", "over"}]

Page == [journey : Journeys, leg : Legs, id : Ids,
         first   : SUBSET [journey : Journeys, id : Ids], hasty : BOOLEAN,
         run     : Nat, shown : Ids, error : BOOLEAN,
         dates   : SUBSET [trip : Trips, leg : Legs]]

TypeOK ==
    /\ answer \in [JobIds -> Answers]
    /\ madeFor \in [JobIds -> Journeys]
    /\ runs \in Seq(Run)
    /\ page \in Page

\* An identifier that the page or a search knows was issued: the service gives
\* it to no other journey.
IsIssued(id) == id # NoJob => answer[id] # Jobs!Absent

AllIssued ==
    /\ IsIssued(page.id)
    /\ IsIssued(page.shown)
    /\ \A first \in page.first : IsIssued(first.id)
    /\ \A r \in 1..Len(runs) : IsIssued(runs[r].job)

Live(r) == runs[r].stage # "over" /\ ~runs[r].aborted

\* Of all searches only the one that the page waits for can still change it, and
\* while it goes on the page shows neither results nor an error.  This holds for
\* a hasty user as well.
OneGoesOn ==
    /\ \A r \in 1..Len(runs) : Live(r) => r = page.run
    /\ Loading => /\ page.run \in 1..Len(runs)
                  /\ Live(page.run)
                  /\ page.shown = NoJob
                  /\ ~page.error
    /\ \A r \in 1..Len(runs) : runs[r].stage \in {"pausing", "asking"} => runs[r].job # NoJob
    /\ page.leg = "return" => page.journey.trip \in RoundTrips

\* A job of the journey the page is about.
IsOwn(id) == id # NoJob => madeFor[id] = page.journey

\* What ScreenIsOfThisJourney needs beside it: the search that will fill the
\* page, and the one that will be started, are for its journey.
ShowsItsJourney ==
    ~page.hasty =>
        /\ IsOwn(page.id)
        /\ IsOwn(page.shown)
        /\ Waiting => ~Loading /\ page.leg = "outbound"
        /\ \A first \in page.first : first.journey = page.journey /\ first.id = page.id
        /\ Loading => runs[page.run].journey = page.journey /\ IsOwn(runs[page.run].job)
        /\ page.dates \subseteq {[trip |-> page.journey.trip, leg |-> page.leg]}
        /\ (~Loading /\ ~Waiting) => (page.shown # NoJob) # page.error

IInv == TypeOK /\ AllIssued /\ OneGoesOn /\ ShowsItsJourney

-----------------------------------------------------------------------------
(* The service *)

\* An identifier that was never issued is unlike all others.
LEMMA AbsentDiffers ==
    /\ Jobs!Absent \notin Jobs!ActiveAnswers
    /\ Jobs!Absent \notin Jobs!SettledAnswers
    /\ Jobs!Absent # Jobs!Gone
  BY DEF Jobs!Absent, Jobs!Gone, Jobs!Pending, Jobs!ActiveAnswers, Jobs!SettledAnswers,
         Jobs!Completed, Jobs!Failed

\* What was issued stays issued, whatever becomes of jobs.
LEMMA IssuedStays ==
    ASSUME answer \in [JobIds -> Answers], Jobs!Next
    PROVE  /\ answer' \in [JobIds -> Answers]
           /\ \A other \in JobIds : answer[other] # Jobs!Absent => answer'[other] # Jobs!Absent
<1>1. /\ Jobs!Pending("queued") \in Jobs!ActiveAnswers
      /\ Jobs!Pending("running") \in Jobs!ActiveAnswers
      /\ Jobs!Completed \in Jobs!SettledAnswers
      /\ \A code \in Jobs!FailureCodes : Jobs!Failed(code) \in Jobs!SettledAnswers
  BY DEF Jobs!ActiveAnswers, Jobs!SettledAnswers
<1>2. ASSUME NEW id \in JobIds, Jobs!Accept(id)
      PROVE  /\ answer' \in [JobIds -> Answers]
             /\ \A other \in JobIds : answer[other] # Jobs!Absent => answer'[other] # Jobs!Absent
  BY <1>1, <1>2, AbsentDiffers DEF Jobs!Accept, Answers
<1>3. ASSUME NEW id \in JobIds, Jobs!Start(id) \/ Jobs!Complete(id) \/ Jobs!Fail(id)
      PROVE  /\ answer' \in [JobIds -> Answers]
             /\ \A other \in JobIds : answer[other] # Jobs!Absent => answer'[other] # Jobs!Absent
  <2>1. PICK a \in Jobs!ActiveAnswers \cup Jobs!SettledAnswers : answer' = [answer EXCEPT ![id] = a]
    BY <1>1, <1>3 DEF Jobs!Start, Jobs!Complete, Jobs!Fail
  <2>. QED
    BY <2>1, AbsentDiffers DEF Answers
<1>4. CASE Jobs!Forget
  BY <1>4, AbsentDiffers DEF Jobs!Forget, Answers
<1>. QED
  BY <1>2, <1>3, <1>4 DEF Jobs!Next

\* The parts of the page, and its searches.
LEMMA Types ==
    ASSUME TypeOK
    PROVE  /\ page.journey \in Journeys
           /\ page.leg \in Legs
           /\ page.id \in Ids
           /\ page.first \in SUBSET [journey : Journeys, id : Ids]
           /\ page.hasty \in BOOLEAN
           /\ page.run \in Nat
           /\ page.shown \in Ids
           /\ page.error \in BOOLEAN
           /\ page.dates \in SUBSET [trip : Trips, leg : Legs]
           /\ Len(runs) \in Nat
           /\ DOMAIN runs = 1..Len(runs)
           /\ \A r \in 1..Len(runs) : runs[r] \in Run
<1>1. page \in Page /\ runs \in Seq(Run)
  BY DEF TypeOK
<1>2. /\ Len(runs) \in Nat
      /\ DOMAIN runs = 1..Len(runs)
      /\ \A r \in 1..Len(runs) : runs[r] \in Run
  BY <1>1, LenProperties, ElementOfSeq
<1>. QED
  BY <1>1, <1>2 DEF Page

\* Jobs that go on, settle or are forgotten change nothing on the page.
LEMMA ServiceStep ==
    ASSUME IInv, Jobs!Next,
           UNCHANGED <<madeFor, runs, page>>
    PROVE  IInv'
<1>1. /\ answer' \in [JobIds -> Answers]
      /\ \A other \in JobIds : answer[other] # Jobs!Absent => answer'[other] # Jobs!Absent
  BY IssuedStays DEF IInv, TypeOK
<1>2. TypeOK'
  BY <1>1 DEF IInv, TypeOK
<1>3. /\ page.id \in Ids
      /\ page.shown \in Ids
      /\ \A first \in page.first : first.id \in Ids
      /\ \A r \in 1..Len(runs) : runs[r].job \in Ids
  BY Types DEF IInv, Run
<1>4. AllIssued'
  BY <1>1, <1>3 DEF IInv, AllIssued, IsIssued, Ids
<1>5. OneGoesOn' /\ ShowsItsJourney'
  BY DEF IInv, OneGoesOn, ShowsItsJourney, Live, Loading, Waiting, IsOwn
<1>. QED
  BY <1>2, <1>4, <1>5 DEF IInv

-----------------------------------------------------------------------------
(* Searches that start and are aborted *)

\* Aborting the search of the page leaves none that goes on, and what each was
\* for as it was.
LEMMA AbortEffect ==
    ASSUME IInv
    PROVE  /\ AbortCurrent \in Seq(Run)
           /\ Len(AbortCurrent) = Len(runs)
           /\ \A r \in 1..Len(runs) :
                 /\ AbortCurrent[r].stage = runs[r].stage
                 /\ AbortCurrent[r].job = runs[r].job
                 /\ AbortCurrent[r].stage = "over" \/ AbortCurrent[r].aborted
<1>1. TypeOK /\ OneGoesOn
  BY DEF IInv
<1>2. /\ runs \in Seq(Run)
      /\ Len(runs) \in Nat
      /\ DOMAIN runs = 1..Len(runs)
      /\ \A r \in 1..Len(runs) : runs[r] \in Run
  BY <1>1, Types DEF TypeOK
<1>3. CASE Loading
  <2>1. page.run \in 1..Len(runs)
    BY <1>1, <1>3 DEF OneGoesOn
  <2>. DEFINE stopped == [runs[page.run] EXCEPT !.aborted = TRUE]
  <2>2. stopped \in Run
    BY <1>2, <2>1 DEF Run
  <2>3. /\ stopped.stage = runs[page.run].stage
        /\ stopped.job = runs[page.run].job
        /\ stopped.aborted
    BY <1>2, <2>1 DEF Run
  <2>4. AbortCurrent = [runs EXCEPT ![page.run] = stopped]
    BY <1>3 DEF AbortCurrent
  <2>. HIDE DEF stopped
  <2>5. /\ AbortCurrent \in Seq(Run)
        /\ Len(AbortCurrent) = Len(runs)
        /\ \A r \in 1..Len(runs) : AbortCurrent[r] = IF r = page.run THEN stopped ELSE runs[r]
    BY <1>2, <2>1, <2>2, <2>4, ExceptSeq
  <2>. QED
    BY <1>1, <2>3, <2>5 DEF OneGoesOn, Live
<1>4. CASE ~Loading
  <2>1. AbortCurrent = runs
    BY <1>4 DEF AbortCurrent
  <2>2. \A r \in 1..Len(runs) : ~Live(r)
    BY <1>1, <1>4 DEF OneGoesOn, Loading, NoRun
  <2>. QED
    BY <1>2, <2>1, <2>2 DEF Live
<1>. QED
  BY <1>3, <1>4

\* A search that starts is the only one that goes on.
LEMMA StartEffect ==
    ASSUME IInv, NEW journey \in Journeys, NEW id \in Ids, StartRun(journey, id)
    PROVE  /\ runs' \in Seq(Run)
           /\ Len(runs') = Len(runs) + 1
           /\ runs'[Len(runs) + 1].journey = journey
           /\ runs'[Len(runs) + 1].job = id
           /\ runs'[Len(runs) + 1].stage \in {"creating", "pausing"}
           /\ runs'[Len(runs) + 1].stage = "pausing" => id # NoJob
           /\ ~runs'[Len(runs) + 1].aborted
           /\ \A r \in 1..Len(runs) :
                 /\ runs'[r].stage = runs[r].stage
                 /\ runs'[r].job = runs[r].job
                 /\ runs'[r].stage = "over" \/ runs'[r].aborted
<1>. DEFINE new == [journey |-> journey, job |-> id, aborted |-> FALSE,
                    stage   |-> IF id = NoJob THEN "creating" ELSE "pausing"]
<1>1. /\ new \in Run
      /\ new.journey = journey
      /\ new.job = id
      /\ new.stage \in {"creating", "pausing"}
      /\ new.stage = "pausing" => id # NoJob
      /\ ~new.aborted
  BY DEF Run
<1>2. runs' = Append(AbortCurrent, new)
  BY DEF StartRun
<1>3. /\ AbortCurrent \in Seq(Run)
      /\ Len(AbortCurrent) = Len(runs)
      /\ \A r \in 1..Len(runs) :
            /\ AbortCurrent[r].stage = runs[r].stage
            /\ AbortCurrent[r].job = runs[r].job
            /\ AbortCurrent[r].stage = "over" \/ AbortCurrent[r].aborted
  BY AbortEffect
<1>. HIDE DEF new
<1>4. /\ runs' \in Seq(Run)
      /\ Len(runs') = Len(runs) + 1
      /\ \A r \in 1..Len(runs) : runs'[r] = AbortCurrent[r]
      /\ runs'[Len(runs) + 1] = new
  BY <1>1, <1>2, <1>3, AppendProperties
<1>. QED
  BY <1>1, <1>3, <1>4

\* What an action has to do beside starting a search for the invariant to hold:
\* the page forgets what it showed, and a page whose user is not hasty is about
\* the journey of the search.
LEMMA StartingKeeps ==
    ASSUME IInv, NEW journey \in Journeys, NEW id \in Ids, IsIssued(id), StartRun(journey, id),
           UNCHANGED <<answer, madeFor>>,
           page' \in Page,
           page'.run = Len(runs) + 1,
           page'.shown = NoJob,
           ~page'.error,
           page'.id = id,
           page'.first \subseteq page.first,
           page'.leg = "return" => page'.journey.trip \in RoundTrips,
           ~page'.hasty =>
              /\ page'.journey = journey
              /\ id # NoJob => madeFor[id] = journey
              /\ page'.first = {}
              /\ page'.dates \subseteq {[trip |-> journey.trip, leg |-> page'.leg]}
    PROVE  IInv'
<1>1. TypeOK /\ AllIssued /\ OneGoesOn
  BY DEF IInv
<1>2. Len(runs) \in Nat
  BY <1>1, Types
<1>3. /\ runs' \in Seq(Run)
      /\ Len(runs') = Len(runs) + 1
      /\ runs'[Len(runs) + 1].journey = journey
      /\ runs'[Len(runs) + 1].job = id
      /\ runs'[Len(runs) + 1].stage \in {"creating", "pausing"}
      /\ runs'[Len(runs) + 1].stage = "pausing" => id # NoJob
      /\ ~runs'[Len(runs) + 1].aborted
      /\ \A r \in 1..Len(runs) :
            /\ runs'[r].stage = runs[r].stage
            /\ runs'[r].job = runs[r].job
            /\ runs'[r].stage = "over" \/ runs'[r].aborted
  BY StartEffect
<1>4. \A r \in 1..Len(runs') : r = Len(runs) + 1 \/ r \in 1..Len(runs)
  BY <1>2, <1>3
<1>5. TypeOK'
  BY <1>1, <1>3 DEF TypeOK
<1>6. AllIssued'
  BY <1>1, <1>3, <1>4 DEF AllIssued, IsIssued
<1>7. OneGoesOn'
  <2>1. page'.run \in 1..Len(runs')
    BY <1>2, <1>3
  <2>. QED
    BY <1>1, <1>3, <1>4, <2>1 DEF OneGoesOn, Live
<1>8. ShowsItsJourney'
  <2>1. page'.run # NoRun
    BY <1>2 DEF NoRun
  <2>. QED
    BY <1>3, <2>1 DEF ShowsItsJourney, Loading, Waiting, IsOwn
<1>. QED
  BY <1>5, <1>6, <1>7, <1>8 DEF IInv

\* A page that is mounted shows nothing yet, and waits for its first search.
LEMMA MountingKeeps ==
    ASSUME IInv, NEW journey \in Journeys, NEW id \in Ids, IsIssued(id), NEW hasty \in BOOLEAN,
           Mount(journey, id, hasty),
           ~hasty /\ id # NoJob => madeFor[id] = journey
    PROVE  IInv'
<1>1. TypeOK /\ AllIssued /\ OneGoesOn
  BY DEF IInv
<1>2. /\ runs' \in Seq(Run)
      /\ Len(runs') = Len(runs)
      /\ \A r \in 1..Len(runs) :
            /\ runs'[r].stage = runs[r].stage
            /\ runs'[r].job = runs[r].job
            /\ runs'[r].stage = "over" \/ runs'[r].aborted
  BY AbortEffect DEF Mount
<1>3. /\ page' = Fresh(journey, id, hasty)
      /\ UNCHANGED <<answer, madeFor>>
  BY DEF Mount
<1>4. /\ page'.journey = journey /\ page'.leg = "outbound" /\ page'.id = id
      /\ page'.first = {[journey |-> journey, id |-> id]} /\ page'.hasty = hasty
      /\ page'.run = NoRun /\ page'.shown = NoJob /\ ~page'.error /\ page'.dates = {}
  BY <1>3 DEF Fresh
<1>5. page' \in Page
  BY <1>3 DEF Fresh, Page, Legs, Ids, NoRun, NoJob
<1>6. TypeOK'
  BY <1>1, <1>2, <1>3, <1>5 DEF TypeOK
<1>7. AllIssued'
  BY <1>1, <1>2, <1>3, <1>4 DEF AllIssued, IsIssued
<1>8. OneGoesOn'
  BY <1>1, <1>2, <1>4 DEF OneGoesOn, Live, Loading
<1>9. ShowsItsJourney'
  BY <1>3, <1>4 DEF ShowsItsJourney, Loading, Waiting, IsOwn
<1>. QED
  BY <1>6, <1>7, <1>8, <1>9 DEF IInv

-----------------------------------------------------------------------------
(* What the user does, and the timer *)

\* A page with another first journey, ranking or leg is a page.
LEMMA JourneyUpdate ==
    ASSUME NEW journey \in Journeys, NEW trip \in Trips, NEW intent \in Intents
    PROVE  /\ [journey EXCEPT !.trip = trip] \in Journeys
           /\ [journey EXCEPT !.trip = trip].trip = trip
           /\ [journey EXCEPT !.intent = intent] \in Journeys
           /\ [journey EXCEPT !.intent = intent].trip = journey.trip
           /\ journey.trip \in Trips
  BY DEF Journeys

\* The page once a search has started that was not made for an identifier, or
\* was for the one in the address.
LEMMA StartedEffect ==
    ASSUME TypeOK, NEW id \in Ids
    PROVE  LET p == Started(page, id)
           IN  /\ p \in Page
               /\ p.journey = page.journey /\ p.leg = page.leg /\ p.id = id
               /\ p.first = page.first /\ p.hasty = page.hasty /\ p.dates = page.dates
               /\ p.run = Len(runs) + 1 /\ p.shown = NoJob /\ p.error = FALSE
<1>1. page \in Page /\ Len(runs) + 1 \in Nat /\ NoJob \in Ids
  BY Types DEF TypeOK, Ids
<1>. QED
  BY <1>1 DEF Started, Page

\* The dates around a trip replace all others.
LEMMA NearbyEffect ==
    ASSUME NEW p \in Page, NEW trip \in Trips, NEW leg \in Legs
    PROVE  LET q == Nearby(p, trip, leg)
           IN  /\ q \in Page
               /\ q.journey = p.journey /\ q.leg = p.leg /\ q.id = p.id
               /\ q.first = p.first /\ q.hasty = p.hasty
               /\ q.run = p.run /\ q.shown = p.shown /\ q.error = p.error
               /\ leg = "return" /\ trip \in RoundTrips => q.dates = {[trip |-> trip, leg |-> leg]}
               /\ leg = "outbound" => q.dates = {[trip |-> trip, leg |-> leg]}
  BY DEF Nearby, Page, Legs

\* The first search, for the journey that the page was mounted with.
LEMMA TimerKeeps == ASSUME IInv, TimerFires PROVE IInv'
<1>1. TypeOK /\ AllIssued /\ OneGoesOn /\ ShowsItsJourney
  BY DEF IInv
<1>2. PICK first \in page.first :
         /\ StartRun(first.journey, first.id)
         /\ page' = [Nearby(Started(page, first.id), first.journey.trip, "outbound")
                     EXCEPT !.first = {}]
         /\ UNCHANGED <<answer, madeFor>>
  BY DEF TimerFires
<1>3. first.journey \in Journeys /\ first.id \in Ids /\ first.journey.trip \in Trips
  BY <1>1, Types DEF Journeys
<1>4. IsIssued(first.id)
  BY <1>1 DEF AllIssued
<1>. DEFINE p == Started(page, first.id)
            q == Nearby(p, first.journey.trip, "outbound")
<1>5. /\ p \in Page
      /\ p.journey = page.journey /\ p.leg = page.leg /\ p.id = first.id
      /\ p.first = page.first /\ p.hasty = page.hasty
      /\ p.run = Len(runs) + 1 /\ p.shown = NoJob /\ p.error = FALSE
  BY <1>1, <1>3, StartedEffect
<1>. HIDE DEF p
<1>6. /\ q \in Page
      /\ q.journey = p.journey /\ q.leg = p.leg /\ q.id = p.id
      /\ q.first = p.first /\ q.hasty = p.hasty
      /\ q.run = p.run /\ q.shown = p.shown /\ q.error = p.error
      /\ q.dates = {[trip |-> first.journey.trip, leg |-> "outbound"]}
  BY <1>3, <1>5, NearbyEffect DEF Legs
<1>. HIDE DEF q
<1>7. page' = [q EXCEPT !.first = {}]
  BY <1>2 DEF p, q
<1>8. /\ page' \in Page
      /\ page'.journey = q.journey /\ page'.leg = q.leg /\ page'.id = q.id
      /\ page'.first = {} /\ page'.hasty = q.hasty /\ page'.dates = q.dates
      /\ page'.run = q.run /\ page'.shown = q.shown /\ page'.error = q.error
  BY <1>6, <1>7 DEF Page
<1>9. page'.leg = "return" => page'.journey.trip \in RoundTrips
  BY <1>1, <1>5, <1>6, <1>8 DEF OneGoesOn
<1>10. ASSUME ~page'.hasty
       PROVE  /\ page'.journey = first.journey
              /\ first.id # NoJob => madeFor[first.id] = first.journey
              /\ page'.dates \subseteq {[trip |-> first.journey.trip, leg |-> page'.leg]}
  <2>1. /\ first.journey = page.journey
        /\ first.id = page.id
        /\ page.leg = "outbound"
        /\ IsOwn(page.id)
    BY <1>1, <1>5, <1>6, <1>8, <1>10 DEF ShowsItsJourney, Waiting
  <2>. QED
    BY <1>5, <1>6, <1>8, <2>1 DEF IsOwn
<1>. QED
  BY <1>2, <1>3, <1>4, <1>5, <1>6, <1>8, <1>9, <1>10, StartingKeeps

\* A search for a trip that the user chose.
LEMMA TripKeeps ==
    ASSUME IInv, NEW trip \in Trips, UpdateSearch(trip) \/ SelectDate(trip)
    PROVE  IInv'
<1>1. TypeOK /\ OneGoesOn
  BY DEF IInv
<1>. DEFINE journey == [page.journey EXCEPT !.trip = trip]
<1>2. PICK leg \in Legs :
         /\ leg = "return" => trip \in RoundTrips
         /\ StartRun(journey, NoJob)
         /\ page' = Nearby([Started(page, NoJob) EXCEPT !.journey = journey,
                                                        !.leg = leg, !.hasty = Waiting], trip, leg)
         /\ UNCHANGED <<answer, madeFor>>
  <2>1. Started(page, NoJob) \in Page /\ Started(page, NoJob).journey = page.journey
          /\ Started(page, NoJob).leg = page.leg
    BY <1>1, StartedEffect DEF Ids
  <2>2. CASE UpdateSearch(trip)
    <3>. DEFINE leg == IF trip \in RoundTrips THEN page.leg ELSE "outbound"
    <3>1. leg \in Legs /\ (leg = "return" => trip \in RoundTrips)
      BY <1>1, Types DEF Legs
    <3>2. [Started(page, NoJob) EXCEPT !.journey.trip = trip, !.leg = leg, !.hasty = Waiting]
           = [Started(page, NoJob) EXCEPT !.journey = journey, !.leg = leg, !.hasty = Waiting]
      BY <2>1
    <3>. QED
      BY <2>2, <3>1, <3>2 DEF UpdateSearch
  <2>3. CASE SelectDate(trip)
    <3>1. page.leg \in Legs /\ (page.leg = "return" => trip \in RoundTrips)
      BY <1>1, <2>3, Types DEF SelectDate, OneGoesOn
    <3>2. [Started(page, NoJob) EXCEPT !.journey.trip = trip, !.hasty = Waiting]
           = [Started(page, NoJob) EXCEPT !.journey = journey, !.leg = page.leg, !.hasty = Waiting]
      BY <2>1 DEF Page
    <3>. QED
      BY <2>3, <3>1, <3>2 DEF SelectDate
  <2>. QED
    BY <2>2, <2>3
<1>3. journey \in Journeys /\ journey.trip = trip
  BY <1>1, Types, IntentsAssumption, JourneyUpdate
<1>. HIDE DEF journey
<1>. DEFINE p == [Started(page, NoJob) EXCEPT !.journey = journey, !.leg = leg, !.hasty = Waiting]
<1>4. /\ p \in Page
      /\ p.journey = journey /\ p.leg = leg /\ p.id = NoJob
      /\ p.first = page.first /\ p.hasty = Waiting
      /\ p.run = Len(runs) + 1 /\ p.shown = NoJob /\ p.error = FALSE
  <2>1. /\ Started(page, NoJob) \in Page
        /\ Started(page, NoJob).id = NoJob
        /\ Started(page, NoJob).first = page.first
        /\ Started(page, NoJob).run = Len(runs) + 1
        /\ Started(page, NoJob).shown = NoJob
        /\ Started(page, NoJob).error = FALSE
    BY <1>1, StartedEffect DEF Ids
  <2>2. Waiting \in BOOLEAN
    BY DEF Waiting
  <2>. QED
    BY <1>3, <2>1, <2>2 DEF Page
<1>. HIDE DEF p
<1>5. /\ page' \in Page
      /\ page'.journey = p.journey /\ page'.leg = p.leg /\ page'.id = p.id
      /\ page'.first = p.first /\ page'.hasty = p.hasty
      /\ page'.run = p.run /\ page'.shown = p.shown /\ page'.error = p.error
      /\ page'.dates = {[trip |-> trip, leg |-> leg]}
  <2>. DEFINE n == Nearby(p, trip, leg)
  <2>1. page' = n
    BY <1>2 DEF p
  <2>2. /\ n \in Page
        /\ n.journey = p.journey /\ n.leg = p.leg /\ n.id = p.id
        /\ n.first = p.first /\ n.hasty = p.hasty
        /\ n.run = p.run /\ n.shown = p.shown /\ n.error = p.error
        /\ leg = "return" => n.dates = {[trip |-> trip, leg |-> leg]}
        /\ leg = "outbound" => n.dates = {[trip |-> trip, leg |-> leg]}
    BY <1>2, <1>4, NearbyEffect
  <2>3. leg \in {"outbound", "return"}
    BY DEF Legs
  <2>. HIDE DEF n
  <2>. QED
    BY <2>1, <2>2, <2>3
<1>6. ~page'.hasty => page'.first = {}
  BY <1>4, <1>5 DEF Waiting
<1>7. NoJob \in Ids /\ IsIssued(NoJob)
  BY DEF Ids, IsIssued
<1>. QED
  BY <1>2, <1>3, <1>4, <1>5, <1>6, <1>7, StartingKeeps

\* A search for another ranking, or the same once more.
LEMMA AgainKeeps ==
    ASSUME IInv, Retry \/ \E intent \in Intents : UpdateIntent(intent)
    PROVE  IInv'
<1>1. TypeOK /\ OneGoesOn /\ ShowsItsJourney
  BY DEF IInv
<1>. DEFINE q == Started(page, NoJob)
<1>2. /\ q \in Page
      /\ q.journey = page.journey /\ q.leg = page.leg /\ q.id = NoJob
      /\ q.first = page.first /\ q.hasty = page.hasty /\ q.dates = page.dates
      /\ q.run = Len(runs) + 1 /\ q.shown = NoJob /\ q.error = FALSE
  BY <1>1, StartedEffect DEF Ids
<1>3. page.journey \in Journeys /\ Waiting \in BOOLEAN /\ page.hasty \in BOOLEAN
  BY <1>1, Types DEF Waiting
<1>4. PICK journey \in Journeys :
         /\ journey.trip = page.journey.trip
         /\ StartRun(journey, NoJob)
         /\ page' = [q EXCEPT !.journey = journey, !.hasty = q.hasty \/ Waiting]
         /\ UNCHANGED <<answer, madeFor>>
  <2>1. CASE Retry
    <3>1. Acts(q) = [q EXCEPT !.journey = page.journey, !.hasty = q.hasty \/ Waiting]
      BY <1>2 DEF Acts, Page
    <3>. QED
      BY <1>3, <2>1, <3>1 DEF Retry
  <2>2. ASSUME NEW intent \in Intents, UpdateIntent(intent)
        PROVE  \E journey \in Journeys :
                  /\ journey.trip = page.journey.trip
                  /\ StartRun(journey, NoJob)
                  /\ page' = [q EXCEPT !.journey = journey, !.hasty = q.hasty \/ Waiting]
                  /\ UNCHANGED <<answer, madeFor>>
    <3>. DEFINE journey == [page.journey EXCEPT !.intent = intent]
    <3>1. journey \in Journeys /\ journey.trip = page.journey.trip
      BY <1>3 DEF Journeys
    <3>2. Acts([q EXCEPT !.journey.intent = intent])
            = [q EXCEPT !.journey = journey, !.hasty = q.hasty \/ Waiting]
      BY <1>2 DEF Acts, Page
    <3>. QED
      BY <2>2, <3>1, <3>2 DEF UpdateIntent
  <2>. QED
    BY <2>1, <2>2
<1>. HIDE DEF q
<1>5. /\ page' \in Page
      /\ page'.journey = journey /\ page'.leg = q.leg /\ page'.id = q.id
      /\ page'.first = q.first /\ page'.hasty = (q.hasty \/ Waiting) /\ page'.dates = q.dates
      /\ page'.run = q.run /\ page'.shown = q.shown /\ page'.error = q.error
  BY <1>2, <1>3, <1>4 DEF Page
<1>6. page'.leg = "return" => page'.journey.trip \in RoundTrips
  BY <1>1, <1>2, <1>4, <1>5 DEF OneGoesOn
<1>7. ~page'.hasty => /\ page'.first = {}
                      /\ page'.dates \subseteq {[trip |-> journey.trip, leg |-> page'.leg]}
  BY <1>1, <1>2, <1>4, <1>5 DEF ShowsItsJourney, Waiting
<1>8. NoJob \in Ids /\ IsIssued(NoJob)
  BY DEF Ids, IsIssued
<1>. QED
  BY <1>2, <1>4, <1>5, <1>6, <1>7, <1>8, StartingKeeps

\* The other leg of the same trip.
LEMMA LegKeeps ==
    ASSUME IInv, NEW leg \in Legs, SelectLeg(leg)
    PROVE  IInv'
<1>1. TypeOK /\ AllIssued /\ OneGoesOn /\ ShowsItsJourney
  BY DEF IInv
<1>2. page.journey.trip \in Trips /\ page \in Page /\ Waiting \in BOOLEAN
  BY <1>1, Types DEF TypeOK, Journeys, Waiting
<1>. DEFINE p == Acts([page EXCEPT !.leg = leg])
            n == Nearby(p, page.journey.trip, leg)
<1>3. /\ p \in Page
      /\ p.journey = page.journey /\ p.leg = leg /\ p.id = page.id
      /\ p.first = page.first /\ p.hasty = (page.hasty \/ Waiting)
      /\ p.run = page.run /\ p.shown = page.shown /\ p.error = page.error
  BY <1>2 DEF Acts, Page
<1>. HIDE DEF p
<1>4. /\ n \in Page
      /\ n.journey = p.journey /\ n.leg = p.leg /\ n.id = p.id
      /\ n.first = p.first /\ n.hasty = p.hasty
      /\ n.run = p.run /\ n.shown = p.shown /\ n.error = p.error
      /\ leg = "return" /\ page.journey.trip \in RoundTrips
                              => n.dates = {[trip |-> page.journey.trip, leg |-> leg]}
      /\ leg = "outbound" => n.dates = {[trip |-> page.journey.trip, leg |-> leg]}
  BY <1>2, <1>3, NearbyEffect
<1>5. page' = n /\ UNCHANGED <<answer, madeFor, runs>>
        /\ (leg = "return" => page.journey.trip \in RoundTrips)
  BY DEF SelectLeg, p
<1>6. leg \in {"outbound", "return"}
  BY DEF Legs
<1>. HIDE DEF n
<1>7. /\ page' \in Page
      /\ page'.journey = page.journey /\ page'.leg = leg /\ page'.id = page.id
      /\ page'.first = page.first /\ page'.hasty = (page.hasty \/ Waiting)
      /\ page'.run = page.run /\ page'.shown = page.shown /\ page'.error = page.error
      /\ page'.dates = {[trip |-> page.journey.trip, leg |-> leg]}
  BY <1>3, <1>4, <1>5, <1>6
<1>8. TypeOK'
  BY <1>1, <1>5, <1>7 DEF TypeOK
<1>9. AllIssued'
  BY <1>1, <1>5, <1>7 DEF AllIssued, IsIssued
<1>10. OneGoesOn'
  BY <1>1, <1>5, <1>7 DEF OneGoesOn, Live, Loading
<1>11. ShowsItsJourney'
  BY <1>1, <1>5, <1>7 DEF ShowsItsJourney, Loading, Waiting, IsOwn
<1>. QED
  BY <1>8, <1>9, <1>10, <1>11 DEF IInv

\* A reload, and another kind of ticket.
LEMMA MountsKeep ==
    ASSUME IInv, Reload \/ \E trip \in Trips : SwitchMode(trip)
    PROVE  IInv'
<1>1. TypeOK /\ AllIssued /\ ShowsItsJourney
  BY DEF IInv
<1>2. page.journey \in Journeys /\ page.id \in Ids /\ page.hasty \in BOOLEAN
  BY <1>1, Types
<1>3. CASE Reload
  <2>1. IsIssued(page.id) /\ (~page.hasty /\ page.id # NoJob => madeFor[page.id] = page.journey)
    BY <1>1 DEF AllIssued, ShowsItsJourney, IsOwn
  <2>. QED
    BY <1>2, <1>3, <2>1, MountingKeeps DEF Reload
<1>4. ASSUME NEW trip \in Trips, SwitchMode(trip) PROVE IInv'
  <2>1. [page.journey EXCEPT !.trip = trip] \in Journeys
    BY <1>2 DEF Journeys
  <2>2. NoJob \in Ids /\ IsIssued(NoJob)
    BY DEF Ids, IsIssued
  <2>. QED
    BY <1>4, <2>1, <2>2, MountingKeeps DEF SwitchMode
<1>. QED
  BY <1>3, <1>4

-----------------------------------------------------------------------------
(* A search that goes on *)

\* One field of one search changes.
LEMMA GoesEffect ==
    ASSUME TypeOK, NEW r \in 1..Len(runs), NEW run \in Run, runs' = [runs EXCEPT ![r] = run]
    PROVE  /\ runs' \in Seq(Run)
           /\ Len(runs') = Len(runs)
           /\ runs'[r] = run
           /\ \A other \in 1..Len(runs) : other # r => runs'[other] = runs[other]
  BY ExceptSeq DEF TypeOK

\* The service has a job for the search.
LEMMA AcceptKeeps ==
    ASSUME IInv, NEW r \in DOMAIN runs, ServiceAccepts(r)
    PROVE  IInv'
<1>1. TypeOK /\ AllIssued /\ OneGoesOn /\ ShowsItsJourney
  BY DEF IInv
<1>2. r \in 1..Len(runs) /\ \A s \in 1..Len(runs) : runs[s] \in Run
  BY <1>1, Types
<1>3. PICK id \in JobIds :
         /\ Jobs!Accept(id)
         /\ madeFor' = [madeFor EXCEPT ![id] = runs[r].journey]
         /\ runs' = [runs EXCEPT ![r].job = id]
  BY DEF ServiceAccepts
<1>4. runs[r].stage = "creating" /\ runs[r].job = NoJob /\ page' = page
  BY DEF ServiceAccepts
<1>. DEFINE run == [runs[r] EXCEPT !.job = id]
<1>5. /\ run \in Run
      /\ run.job = id /\ run.journey = runs[r].journey
      /\ run.stage = runs[r].stage /\ run.aborted = runs[r].aborted
  BY <1>2 DEF Run, Ids
<1>6. runs' = [runs EXCEPT ![r] = run]
  BY <1>3
<1>. HIDE DEF run
<1>7. /\ runs' \in Seq(Run)
      /\ Len(runs') = Len(runs)
      /\ runs'[r] = run
      /\ \A other \in 1..Len(runs) : other # r => runs'[other] = runs[other]
  BY <1>1, <1>2, <1>5, <1>6, GoesEffect
<1>8. /\ answer' \in [JobIds -> Answers]
      /\ \A other \in JobIds : answer[other] # Jobs!Absent => answer'[other] # Jobs!Absent
  BY <1>1, <1>3, IssuedStays DEF TypeOK, Jobs!Next
<1>9. answer[id] = Jobs!Absent /\ answer'[id] # Jobs!Absent
  <2>1. Jobs!Pending("queued") # Jobs!Absent
    BY AbsentDiffers DEF Jobs!ActiveAnswers
  <2>. QED
    BY <1>3, <2>1 DEF Jobs!Accept
<1>10. runs[r].journey \in Journeys
  BY <1>2 DEF Run
<1>11. TypeOK'
  BY <1>1, <1>3, <1>4, <1>7, <1>8, <1>10 DEF TypeOK
<1>12. /\ page.id \in Ids /\ page.shown \in Ids
       /\ \A first \in page.first : first.id \in Ids
       /\ \A s \in 1..Len(runs) : runs[s].job \in Ids
  BY <1>1, <1>2, Types DEF Run
<1>13. AllIssued'
  BY <1>1, <1>4, <1>5, <1>7, <1>8, <1>9, <1>12 DEF AllIssued, IsIssued, Ids
<1>14. OneGoesOn'
  BY <1>1, <1>2, <1>4, <1>5, <1>7 DEF OneGoesOn, Live, Loading
<1>15. \A other \in Ids : IsIssued(other) /\ other # NoJob => madeFor'[other] = madeFor[other]
  BY <1>1, <1>3, <1>9 DEF TypeOK, IsIssued, Ids
<1>16. madeFor'[id] = runs[r].journey
  BY <1>1, <1>3 DEF TypeOK
<1>17. ShowsItsJourney'
  <2>. SUFFICES ASSUME ~page.hasty PROVE ShowsItsJourney'
    BY <1>4 DEF ShowsItsJourney
  <2>1. IsOwn(page.id)' /\ IsOwn(page.shown)'
    BY <1>1, <1>4, <1>12, <1>15 DEF ShowsItsJourney, AllIssued, IsOwn
  <2>2. Loading => runs'[page.run].journey = page.journey /\ IsOwn(runs[page.run].job)'
    <3>. SUFFICES ASSUME Loading
                  PROVE  runs'[page.run].journey = page.journey /\ IsOwn(runs[page.run].job)'
      OBVIOUS
    <3>1. page.run \in 1..Len(runs)
      BY <1>1 DEF OneGoesOn
    <3>2. CASE page.run = r
      BY <1>1, <1>4, <1>5, <1>7, <1>16, <3>2 DEF ShowsItsJourney, IsOwn
    <3>3. CASE page.run # r
      BY <1>1, <1>4, <1>7, <1>12, <1>15, <3>1, <3>3 DEF ShowsItsJourney, AllIssued, IsOwn
    <3>. QED
      BY <3>2, <3>3
  <2>. QED
    BY <1>1, <1>4, <2>1, <2>2 DEF ShowsItsJourney, Loading, Waiting
<1>. QED
  BY <1>11, <1>13, <1>14, <1>17 DEF IInv

\* The search asks, or waits before it asks again; the page learns of the job.
LEMMA StageKeeps ==
    ASSUME IInv, NEW r \in 1..Len(runs), Live(r), NEW stage \in {"pausing", "asking"},
           runs[r].job # NoJob, Goes(r, stage), UNCHANGED <<answer, madeFor>>,
           page' = page \/ page' = [page EXCEPT !.id = runs[r].job]
    PROVE  IInv'
<1>1. TypeOK /\ AllIssued /\ OneGoesOn /\ ShowsItsJourney
  BY DEF IInv
<1>2. runs[r] \in Run /\ page \in Page /\ r = page.run
  BY <1>1, Types DEF TypeOK, OneGoesOn
<1>. DEFINE run == [runs[r] EXCEPT !.stage = stage]
<1>3. /\ run \in Run
      /\ run.job = runs[r].job /\ run.journey = runs[r].journey
      /\ run.stage = stage /\ run.aborted = runs[r].aborted
  BY <1>2 DEF Run
<1>4. runs' = [runs EXCEPT ![r] = run]
  BY DEF Goes
<1>. HIDE DEF run
<1>5. /\ runs' \in Seq(Run)
      /\ Len(runs') = Len(runs)
      /\ runs'[r] = run
      /\ \A other \in 1..Len(runs) : other # r => runs'[other] = runs[other]
  BY <1>1, <1>3, <1>4, GoesEffect
<1>6. runs[r].job \in Ids
  BY <1>2 DEF Run
<1>7. /\ page' \in Page
      /\ page'.journey = page.journey /\ page'.leg = page.leg
      /\ page'.id \in {page.id, runs[r].job}
      /\ page'.first = page.first /\ page'.hasty = page.hasty
      /\ page'.run = page.run /\ page'.shown = page.shown /\ page'.error = page.error
      /\ page'.dates = page.dates
  BY <1>2, <1>6 DEF Page
<1>8. TypeOK'
  BY <1>1, <1>5, <1>7 DEF TypeOK
<1>9. AllIssued'
  BY <1>1, <1>3, <1>5, <1>7 DEF AllIssued, IsIssued
<1>10. OneGoesOn'
  BY <1>1, <1>2, <1>3, <1>5, <1>7 DEF OneGoesOn, Live, Loading
<1>11. ShowsItsJourney'
  <2>1. page.run # NoRun
    BY <1>2, <1>1, Types DEF NoRun
  <2>. QED
    BY <1>1, <1>2, <1>3, <1>5, <1>7, <2>1 DEF ShowsItsJourney, Loading, Waiting, IsOwn
<1>. QED
  BY <1>8, <1>9, <1>10, <1>11 DEF IInv

\* The search of the page is over: its results are shown, or an error.
LEMMA OverKeeps ==
    ASSUME IInv, NEW r \in 1..Len(runs), Live(r), IsOver(r), UNCHANGED <<answer, madeFor>>,
           \/ page' = [Ended(page, r) EXCEPT !.shown = runs[r].job] /\ runs[r].job # NoJob
           \/ page' = [Ended(page, r) EXCEPT !.error = TRUE]
    PROVE  IInv'
<1>1. TypeOK /\ AllIssued /\ OneGoesOn /\ ShowsItsJourney
  BY DEF IInv
<1>2. runs[r] \in Run /\ page \in Page /\ r = page.run /\ page.journey \in Journeys
  BY <1>1, Types DEF TypeOK, OneGoesOn
<1>3. Over \in Run /\ Over.stage = "over" /\ Over.job = NoJob
  BY <1>2 DEF Over, Run, Ids, NoJourney
<1>4. runs' = [runs EXCEPT ![r] = Over]
  BY DEF IsOver
<1>5. /\ runs' \in Seq(Run)
      /\ Len(runs') = Len(runs)
      /\ runs'[r] = Over
      /\ \A other \in 1..Len(runs) : other # r => runs'[other] = runs[other]
  BY <1>1, <1>3, <1>4, GoesEffect
<1>6. Loading /\ page.shown = NoJob /\ ~page.error
  <2>1. Loading
    BY <1>2 DEF Loading, NoRun
  <2>. QED
    BY <1>1, <2>1 DEF OneGoesOn
<1>7. /\ page' \in Page
      /\ page'.journey = page.journey /\ page'.leg = page.leg /\ page'.id = page.id
      /\ page'.first = page.first /\ page'.hasty = page.hasty /\ page'.dates = page.dates
      /\ page'.run = NoRun
      /\ \/ page'.shown = runs[r].job /\ runs[r].job # NoJob /\ page'.error = page.error
         \/ page'.shown = page.shown /\ page'.error = TRUE
  <2>1. runs[r].job \in Ids
    BY <1>2 DEF Run
  <2>. DEFINE p == Ended(page, r)
  <2>2. /\ p \in Page
        /\ p.journey = page.journey /\ p.leg = page.leg /\ p.id = page.id
        /\ p.first = page.first /\ p.hasty = page.hasty /\ p.dates = page.dates
        /\ p.run = NoRun /\ p.shown = page.shown /\ p.error = page.error
    BY <1>2 DEF Page, Ended, NoRun
  <2>. HIDE DEF p
  <2>3. CASE page' = [p EXCEPT !.shown = runs[r].job] /\ runs[r].job # NoJob
    BY <2>1, <2>2, <2>3 DEF Page
  <2>4. CASE page' = [p EXCEPT !.error = TRUE]
    BY <2>2, <2>4 DEF Page
  <2>. QED
    BY <2>3, <2>4 DEF p
<1>8. TypeOK'
  BY <1>1, <1>5, <1>7 DEF TypeOK
<1>9. AllIssued'
  BY <1>1, <1>3, <1>5, <1>7 DEF AllIssued, IsIssued
<1>10. OneGoesOn'
  BY <1>1, <1>2, <1>3, <1>5, <1>7 DEF OneGoesOn, Live, Loading
<1>11. ShowsItsJourney'
  BY <1>1, <1>2, <1>6, <1>7 DEF ShowsItsJourney, Loading, Waiting, IsOwn
<1>. QED
  BY <1>8, <1>9, <1>10, <1>11 DEF IInv

\* A search that was aborted ends without a word.
LEMMA AbortedKeeps ==
    ASSUME IInv, NEW r \in DOMAIN runs, NoticesAbort(r)
    PROVE  IInv'
<1>1. TypeOK /\ AllIssued /\ OneGoesOn /\ ShowsItsJourney
  BY DEF IInv
<1>2. r \in 1..Len(runs) /\ page \in Page /\ page.journey \in Journeys
  BY <1>1, Types DEF TypeOK
<1>3. r # page.run
  BY <1>1, <1>2 DEF NoticesAbort, OneGoesOn, Live, Loading, NoRun
<1>4. page' = page /\ runs' = [runs EXCEPT ![r] = Over] /\ UNCHANGED <<answer, madeFor>>
  BY <1>2, <1>3 DEF NoticesAbort, IsOver, Ended, Page
<1>5. Over \in Run /\ Over.stage = "over" /\ Over.job = NoJob
  BY <1>2 DEF Over, Run, Ids, NoJourney
<1>6. /\ runs' \in Seq(Run)
      /\ Len(runs') = Len(runs)
      /\ runs'[r] = Over
      /\ \A other \in 1..Len(runs) : other # r => runs'[other] = runs[other]
  BY <1>1, <1>2, <1>4, <1>5, GoesEffect
<1>7. TypeOK'
  BY <1>1, <1>4, <1>6 DEF TypeOK
<1>8. AllIssued'
  BY <1>1, <1>4, <1>5, <1>6 DEF AllIssued, IsIssued
<1>9. OneGoesOn'
  BY <1>1, <1>3, <1>4, <1>5, <1>6 DEF OneGoesOn, Live, Loading
<1>10. ShowsItsJourney'
  BY <1>1, <1>3, <1>4, <1>6 DEF ShowsItsJourney, OneGoesOn, Loading, Waiting, IsOwn
<1>. QED
  BY <1>7, <1>8, <1>9, <1>10 DEF IInv

\* Every answer of the service, every failure and every pause.
LEMMA AdvanceKeeps ==
    ASSUME IInv, NEW r \in DOMAIN runs, Advances(r) \/ PauseOver(r)
    PROVE  IInv'
<1>1. OneGoesOn /\ r \in 1..Len(runs)
  BY Types DEF IInv
<1>2. ASSUME NEW stage, stage # "over", IsAt(r, stage) PROVE Live(r)
  BY <1>2 DEF IsAt, Live
<1>3. CASE ServiceAccepts(r)
  BY <1>3, AcceptKeeps
<1>4. CASE CreateReply(r)
  BY <1>1, <1>2, <1>4, StageKeeps DEF CreateReply
<1>5. CASE PauseOver(r)
  BY <1>1, <1>2, <1>5, StageKeeps DEF PauseOver, OneGoesOn, IsAt
<1>6. CASE PollReply(r)
  <2>1. Live(r) /\ runs[r].job # NoJob
    BY <1>1, <1>2, <1>6 DEF PollReply, OneGoesOn, IsAt
  <2>2. CASE answer[runs[r].job] \in Jobs!ActiveAnswers
    BY <1>1, <1>6, <2>1, <2>2, StageKeeps DEF PollReply
  <2>3. CASE answer[runs[r].job] \notin Jobs!ActiveAnswers
    BY <1>1, <1>6, <2>1, <2>3, OverKeeps DEF PollReply
  <2>. QED
    BY <2>2, <2>3
<1>7. CASE CallFails(r)
  BY <1>1, <1>2, <1>7, OverKeeps DEF CallFails
<1>. QED
  BY <1>3, <1>4, <1>5, <1>6, <1>7 DEF Advances

-----------------------------------------------------------------------------
(* The theorem *)

\* The page is mounted for a journey and shows nothing.
LEMMA InitIInv == Init => IInv
<1>. SUFFICES ASSUME Init PROVE IInv
  OBVIOUS
<1>1. PICK trip \in Trips : page = Fresh([NoJourney EXCEPT !.trip = trip], NoJob, FALSE)
  BY DEF Init
<1>2. NoJourney \in Journeys
  <2>1. PICK intent \in Intents : TRUE
    BY IntentsAssumption
  <2>2. [trip |-> trip, intent |-> intent] \in Journeys
    BY DEF Journeys
  <2>. QED
    BY <2>2 DEF NoJourney
<1>3. [NoJourney EXCEPT !.trip = trip] \in Journeys
  BY <1>2 DEF Journeys
<1>. DEFINE journey == [NoJourney EXCEPT !.trip = trip]
<1>. HIDE DEF journey
<1>4. /\ page \in Page
      /\ page.journey = journey /\ page.leg = "outbound" /\ page.id = NoJob
      /\ page.first = {[journey |-> journey, id |-> NoJob]}
      /\ page.run = NoRun /\ page.shown = NoJob /\ ~page.error /\ page.dates = {}
  BY <1>1, <1>3 DEF Fresh, Page, Legs, Ids, NoRun, NoJob, journey
<1>5. runs = <<>> /\ runs \in Seq(Run) /\ Len(runs) = 0
  BY DEF Init
<1>6. answer \in [JobIds -> Answers] /\ madeFor \in [JobIds -> Journeys]
  BY <1>2 DEF Init, Jobs!Init, Answers
<1>7. TypeOK
  BY <1>4, <1>5, <1>6 DEF TypeOK
<1>8. AllIssued /\ OneGoesOn
  BY <1>4, <1>5 DEF AllIssued, IsIssued, OneGoesOn, Loading
<1>9. ShowsItsJourney
  BY <1>4 DEF ShowsItsJourney, Loading, Waiting, IsOwn
<1>. QED
  BY <1>7, <1>8, <1>9 DEF IInv

\* Whatever the user, the browser and the service do.
LEMMA NextIInv == IInv /\ [Next]_vars => IInv'
<1>. SUFFICES ASSUME IInv, [Next]_vars PROVE IInv'
  OBVIOUS
<1>1. CASE UNCHANGED vars
  BY <1>1 DEF vars, IInv, TypeOK, AllIssued, IsIssued, OneGoesOn, ShowsItsJourney, Live, Loading,
              Waiting, IsOwn
<1>2. CASE Forgets
  BY <1>2, ServiceStep DEF Forgets, Jobs!Next
<1>3. ASSUME NEW id \in JobIds, Works(id) PROVE IInv'
  BY <1>3, ServiceStep DEF Works, Jobs!Next
<1>4. ASSUME NEW leg \in {"outbound", "return"}, SelectLeg(leg) PROVE IInv'
  BY <1>4, LegKeeps DEF Legs
<1>. QED
  BY <1>1, <1>2, <1>3, <1>4, TimerKeeps, TripKeeps, AgainKeeps, MountsKeep, AdvanceKeeps,
     AbortedKeeps DEF Next

\* The invariant holds throughout.
THEOREM Invariance == Spec => []IInv
  BY InitIInv, NextIInv, PTL DEF Spec

\* Whatever the user does while searches go on, what the page shows, what a
\* reload would resume and the dates it offers belong to the journey it is
\* about; one search goes on, and when it is over there are results or an error
\* (results-workspace.tsx:517-690).  A user who acts before the first search has
\* started is the exception.
THEOREM ScreenIsAlwaysOfThisJourney == Spec => []ScreenIsOfThisJourney
<1>1. IInv => ScreenIsOfThisJourney
  <2>. SUFFICES ASSUME IInv, ~page.hasty PROVE ScreenIsOfThisJourney
    BY DEF ScreenIsOfThisJourney
  <2>1. /\ DOMAIN runs = 1..Len(runs)
        /\ \A r \in 1..Len(runs) : Live(r) => r = page.run
    BY Types DEF IInv, OneGoesOn
  <2>2. ASSUME NEW r \in 1..Len(runs), Live(r)
        PROVE  r = page.run /\ runs[r].journey = page.journey
    <3>1. r = page.run /\ Loading
      BY <2>1, <2>2 DEF Loading, NoRun
    <3>. QED
      BY <3>1 DEF IInv, ShowsItsJourney
  <2>. QED
    BY <2>1, <2>2 DEF IInv, ShowsItsJourney, ScreenIsOfThisJourney, IsOwn, Live
<1>. QED
  BY <1>1, Invariance, PTL
=============================================================================
