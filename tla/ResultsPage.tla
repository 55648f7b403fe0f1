----------------------------- MODULE ResultsPage -----------------------------
(* The results page in the browser: it starts searches and polls their jobs    *)
(* while the user changes the trip, the ranking or the leg, reloads the page   *)
(* or switches to another kind of ticket.  The job service it talks to is      *)
(* SearchJobLifecycle, which SearchJobs implements.  Offer filters and the     *)
(* wording of the progress bar are left out.                                   *)
EXTENDS Naturals, Sequences

CONSTANTS
    Trips,       \* the trips that may be asked for
    RoundTrips,  \* those with a way back
    Intents,     \* rankings
    JobIds,      \* identifiers the service may issue
    MaxRuns      \* bound: how many searches the page starts

ASSUME TripsAssumption   == RoundTrips \subseteq Trips
ASSUME IntentsAssumption == Intents # {}
ASSUME JobsAssumption    == JobIds \subseteq Nat \ {0}

VARIABLES
    answer,      \* what a poll of each job would be told
    madeFor,     \* the journey each job was created for
    runs,        \* the calls of runSearch, in the order they were made
    page         \* what the page shows and remembers

vars == <<answer, madeFor, runs, page>>

Jobs == INSTANCE SearchJobLifecycle

Journeys == [trip : Trips, intent : Intents]
NoJourney == CHOOSE journey \in Journeys : TRUE   \* where it does not matter
NoJob    == 0
NoRun    == 0

Loading == page.run # NoRun
Waiting == page.first # {}   \* for the timer of the first search

-----------------------------------------------------------------------------
(* The page.                                                                   *)

\* A page mounted for a journey, perhaps with the identifier of a job in its
\* address.  The first search waits for a timer of zero, but what it will look
\* for is settled now.  The address always shows the journey and the identifier
\* that the page has, so neither is a variable of its own.
Fresh(journey, id, hasty) ==
    [journey |-> journey, leg |-> "outbound", id |-> id,
     first   |-> {[journey |-> journey, id |-> id]}, hasty |-> hasty,
     run     |-> NoRun, shown |-> NoJob, error |-> FALSE,
     dates   |-> {}]

\* Rankings are alike, so it does not matter which one the page starts with.
Init ==
    /\ Jobs!Init
    /\ madeFor = [id \in JobIds |-> NoJourney]
    /\ runs = <<>>
    /\ \E trip \in Trips : page = Fresh([NoJourney EXCEPT !.trip = trip], NoJob, FALSE)

\* Nothing is aborted.
BugAbortCurrent == runs

AbortCurrent == IF Loading THEN [runs EXCEPT ![page.run].aborted = TRUE] ELSE runs

\* The page p once runSearch has started.
Started(p, id) ==
    [p EXCEPT !.run = Len(runs) + 1, !.error = FALSE, !.shown = NoJob, !.id = id]

\* Without an identifier a job is created, with one the page polls it at once.
StartRun(journey, id) ==
    /\ runs' = Append(AbortCurrent,
                      [journey |-> journey, job |-> id, aborted |-> FALSE,
                       stage   |-> IF id = NoJob THEN "creating" ELSE "pausing"])

\* The page p once loadNearbyDates has aborted its last call and made another: a
\* call that was aborted changes nothing any more, so the dates the page shows,
\* or will show, are those of the last call.
Nearby(p, trip, leg) ==
    IF leg = "return" /\ trip \notin RoundTrips THEN p
    ELSE [p EXCEPT !.dates = {[trip |-> trip, leg |-> leg]}]

\* The user does something before the first search has started.
Acts(p) == [p EXCEPT !.hasty = @ \/ Waiting]

\* The user may start as many searches, or mount as many pages, as leave the
\* timer one.
MoreRuns == Len(runs) + (IF Waiting THEN 1 ELSE 0) < MaxRuns

TimerFires ==
    /\ \E first \in page.first :
        /\ StartRun(first.journey, first.id)
        /\ page' = [Nearby(Started(page, first.id), first.journey.trip, "outbound")
                    EXCEPT !.first = {}]
    /\ UNCHANGED <<answer, madeFor>>

\* The toolbar, at any moment.
UpdateSearch(trip) ==
    LET leg == IF trip \in RoundTrips THEN page.leg ELSE "outbound"
        new == [Started(page, NoJob) EXCEPT !.journey.trip = trip, !.leg = leg, !.hasty = Waiting]
    IN  /\ MoreRuns
        /\ StartRun([page.journey EXCEPT !.trip = trip], NoJob)
        /\ page' = Nearby(new, trip, leg)
        /\ UNCHANGED <<answer, madeFor>>

\* Another date of the leg shown, from the rail of dates.
SelectDate(trip) ==
    /\ ~Loading /\ MoreRuns
    /\ (trip \in RoundTrips) = (page.journey.trip \in RoundTrips)
    /\ StartRun([page.journey EXCEPT !.trip = trip], NoJob)
    /\ page' = Nearby([Started(page, NoJob) EXCEPT !.journey.trip = trip, !.hasty = Waiting],
                      trip, page.leg)
    /\ UNCHANGED <<answer, madeFor>>

\* Another ranking is another search.
UpdateIntent(intent) ==
    /\ ~Loading /\ MoreRuns
    /\ StartRun([page.journey EXCEPT !.intent = intent], NoJob)
    /\ page' = Acts([Started(page, NoJob) EXCEPT !.journey.intent = intent])
    /\ UNCHANGED <<answer, madeFor>>

\* "Try again", below an error.
Retry ==
    /\ ~Loading /\ page.error /\ MoreRuns
    /\ StartRun(page.journey, NoJob)
    /\ page' = Acts(Started(page, NoJob))
    /\ UNCHANGED <<answer, madeFor>>

SelectLeg(leg) ==
    /\ leg # page.leg
    /\ leg = "return" => page.journey.trip \in RoundTrips
    /\ page' = Nearby(Acts([page EXCEPT !.leg = leg]), page.journey.trip, leg)
    /\ UNCHANGED <<answer, madeFor, runs>>

\* A reload keeps the address; another kind of ticket is another journey and has
\* no identifier.  Either way the page goes and so does its search.
Mount(journey, id, hasty) ==
    /\ Len(runs) < MaxRuns
    /\ runs' = AbortCurrent
    /\ page' = Fresh(journey, id, hasty)
    /\ UNCHANGED <<answer, madeFor>>

Reload == Mount(page.journey, page.id, page.hasty)

SwitchMode(trip) ==
    /\ trip # page.journey.trip
    /\ Mount([page.journey EXCEPT !.trip = trip], NoJob, FALSE)

-----------------------------------------------------------------------------
(* A search as it goes on.                                                     *)

IsAt(r, stage) == runs[r].stage = stage /\ ~runs[r].aborted

Goes(r, stage) == runs' = [runs EXCEPT ![r].stage = stage]

\* A run that is over is forgotten.
Over       == [journey |-> NoJourney, job |-> NoJob, aborted |-> FALSE, stage |-> "over"]
IsOver(r)  == runs' = [runs EXCEPT ![r] = Over]

\* The last thing a run does: the page stops loading, if the run is still its own.
Ended(p, r) == [p EXCEPT !.run = IF @ = r THEN NoRun ELSE @]

\* The request reaches the service, which has a job for it from then on, even
\* when nobody waits for the identifier any more.
ServiceAccepts(r) ==
    /\ runs[r].stage = "creating" /\ runs[r].job = NoJob
    /\ \E id \in JobIds :
        /\ \A other \in JobIds : other < id => answer[other] # Jobs!Absent
        /\ Jobs!Accept(id)
        /\ madeFor' = [madeFor EXCEPT ![id] = runs[r].journey]
        /\ runs' = [runs EXCEPT ![r].job = id]
    /\ UNCHANGED page

CreateReply(r) ==
    /\ IsAt(r, "creating") /\ runs[r].job # NoJob
    /\ Goes(r, "pausing")
    /\ page' = [page EXCEPT !.id = runs[r].job]
    /\ UNCHANGED <<answer, madeFor>>

PauseOver(r) ==
    /\ IsAt(r, "pausing")
    /\ Goes(r, "asking")
    /\ UNCHANGED <<answer, madeFor, page>>

\* Anything but results and a failure is taken for a job that goes on.
BugPollReply(r) ==
    LET told == answer[runs[r].job] IN
    /\ IsAt(r, "asking")
    /\ IF told \notin Jobs!SettledAnswers
       THEN Goes(r, "pausing") /\ UNCHANGED page
       ELSE /\ IsOver(r)
            /\ page' = IF told = Jobs!Completed
                       THEN [Ended(page, r) EXCEPT !.shown = runs[r].job]
                       ELSE [Ended(page, r) EXCEPT !.error = TRUE]
    /\ UNCHANGED <<answer, madeFor>>

\* A completed round trip always has its way back, so the run never ends for the
\* want of one.
PollReply(r) ==
    LET told == answer[runs[r].job] IN
    /\ IsAt(r, "asking")
    /\ IF told \in Jobs!ActiveAnswers
       THEN Goes(r, "pausing") /\ UNCHANGED page
       ELSE /\ IsOver(r)
            /\ page' = IF told = Jobs!Completed
                       THEN [Ended(page, r) EXCEPT !.shown = runs[r].job]
                       ELSE [Ended(page, r) EXCEPT !.error = TRUE]
    /\ UNCHANGED <<answer, madeFor>>

\* The proxy gives up after its own deadline, or the service refuses.
CallFails(r) ==
    /\ IsAt(r, "creating") \/ IsAt(r, "asking")
    /\ IsOver(r)
    /\ page' = [Ended(page, r) EXCEPT !.error = TRUE]
    /\ UNCHANGED <<answer, madeFor>>

\* The call or the pause is rejected, and the run returns without a word.
NoticesAbort(r) ==
    /\ runs[r].aborted /\ runs[r].stage # "over"
    /\ IsOver(r)
    /\ page' = Ended(page, r)
    /\ UNCHANGED <<answer, madeFor>>

\* The page treats all failures alike, so one stands for them.
Works(id) ==
    /\ \/ Jobs!Start(id)
       \/ Jobs!Complete(id)
       \/ Jobs!Fail(id) /\ answer'[id] = Jobs!Failed("search_failed")
    /\ UNCHANGED <<madeFor, runs, page>>

Forgets == Jobs!Forget /\ UNCHANGED <<madeFor, runs, page>>

Advances(r) == ServiceAccepts(r) \/ CreateReply(r) \/ PollReply(r) \/ CallFails(r)

Next ==
    \/ TimerFires \/ Retry \/ Reload \/ Forgets
    \/ \E trip \in Trips : UpdateSearch(trip) \/ SelectDate(trip) \/ SwitchMode(trip)
    \/ \E intent \in Intents : UpdateIntent(intent)
    \/ \E leg \in {"outbound", "return"} : SelectLeg(leg)
    \/ \E r \in DOMAIN runs : Advances(r) \/ PauseOver(r) \/ NoticesAbort(r)
    \/ \E id \in JobIds : Works(id)

Spec == Init /\ [][Next]_vars

\* Timers fire, every call through the proxy has a deadline, and every job is
\* settled, as the liveness of SearchJobs shows.
FairSpec ==
    /\ Spec
    /\ WF_vars(TimerFires)
    /\ \A r \in 1 .. MaxRuns :
        /\ WF_vars(r \in DOMAIN runs /\ Advances(r))
        /\ WF_vars(r \in DOMAIN runs /\ PauseOver(r))
    /\ \A id \in JobIds : WF_vars(Works(id))

-----------------------------------------------------------------------------
(* Correctness.                                                                *)

\* Whatever the user does while a search goes on, what the page shows belongs to
\* the journey the page is about: its results, the identifier in its address,
\* which a reload would resume, and the prices of the dates around, which also
\* belong to the leg shown.  Only the last search goes on, and once it is over
\* the page shows its results or an error, never both and never neither.  The
\* one exception is a user who acts before the first search, which waits for a
\* timer of zero, has started: that search is for the journey the page was
\* mounted with, it replaces the user's, and a reload would resume it; the next
\* trip or date chosen sets the page right.
ScreenIsOfThisJourney ==
    ~page.hasty =>
        /\ \A id \in {page.shown, page.id} \ {NoJob} : madeFor[id] = page.journey
        /\ \A r \in DOMAIN runs :
               (runs[r].stage # "over" /\ ~runs[r].aborted) =>
                   r = page.run /\ runs[r].journey = page.journey
        /\ page.dates \subseteq {[trip |-> page.journey.trip, leg |-> page.leg]}
        /\ (~Loading /\ ~Waiting) => (page.shown # NoJob) # page.error

\* A page that is loading, or about to, comes to show results or an error,
\* whatever becomes of the job and of the calls.
EverySearchIsAnswered ==
    (Waiting \/ Loading) ~>
        (~Waiting /\ ~Loading /\ (page.shown # NoJob \/ page.error))
=============================================================================
