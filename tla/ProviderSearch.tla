--------------------------- MODULE ProviderSearch ---------------------------
(* What an adapter does between being asked to search and its answer: it may   *)
(* decline the search, looks up the two cities in the provider's catalogue,    *)
(* asks for the rows, and, where the provider prepares them in the background, *)
(* polls for them.  The fourteen adapters differ in what they decline, in how  *)
(* they look up cities and in how the rows arrive; each has three definitions  *)
(* for that, and the actions below are common to all.  What becomes of a       *)
(* single row is the subject of ProviderRows.                                  *)
EXTENDS ProviderAdapters, Integers, Sequences, FiniteSets

CONSTANTS
    Adapters,   \* the adapters to look at
    Searches,   \* concurrent searches through one adapter
    MaxPolls    \* how often a result is polled for, 5 in the code

ASSUME PollsAssumption == MaxPolls \in Nat \ {0}

VARIABLES
    kept,       \* what it holds of the provider's catalogue of cities
    search      \* each search: where it is, the calls it awaits, its answer

vars == <<adapter, kept, search>>

-----------------------------------------------------------------------------
(* Wishes: what a search may ask for beyond a trip between two cities.         *)

Wishes == {"none", "seat", "vehicle", "passenger"}

\* An adapter declines wishes its provider cannot fulfil ("unavailable"),
\* ignores others (an answer without offers), and may refuse to search from a
\* city to itself.
SearchKind(declines, ignores, differ) ==
    [declines |-> declines, ignores |-> ignores, differ |-> differ]

AlibabaBusSearch      == SearchKind({}, {}, FALSE)
AlibabaFlightSearch   == SearchKind({}, {}, FALSE)
AlibabaTrainSearch    == SearchKind({"vehicle"}, {}, TRUE)
SnappTripFlightSearch == SearchKind({}, {}, FALSE)
SnappTripTrainSearch  == SearchKind({"vehicle", "passenger"}, {}, TRUE)
SnappTripBusSearch    == SearchKind({"seat"}, {}, TRUE)
MrBilitFlightSearch   == SearchKind({}, {}, TRUE)
MrBilitTrainSearch    == SearchKind({"vehicle"}, {}, TRUE)
MrBilitBusSearch      == SearchKind({}, {}, TRUE)
FlyTodayFlightSearch  == SearchKind({}, {}, TRUE)
FlyTodayBusSearch     == SearchKind({}, {"seat"}, TRUE)
BookingFlightSearch   == SearchKind({}, {}, TRUE)
PayanehaBusSearch     == SearchKind({}, {"seat"}, TRUE)
Safar724BusSearch     == SearchKind({}, {"seat"}, TRUE)

-----------------------------------------------------------------------------
(* Cities.  A lookup goes in rounds; the calls of one round are made together. *)
(* A reply says whether the names were found, missing, or fit several entries, *)
(* of which some adapters take the first and others none.  What was fetched    *)
(* may be kept: a document for every city, or what is known of one ("keyed").  *)

Replies == {"found", "missing", "several", "fault"}

CityKind(rounds, keeps, keyed, first) ==
    [rounds |-> rounds, keeps |-> keeps, keyed |-> keyed, first |-> first]

Table          == CityKind(<<{"table"}>>, {}, {}, FALSE)
Document       == CityKind(<<{"document"}>>, Replies \ {"fault"}, {}, FALSE)
Each           == CityKind(<<{"origin", "destination"}>>, {}, {}, FALSE)
FirstMatch(ck) == [ck EXCEPT !.first = TRUE]

AlibabaBusCities ==
    FirstMatch(CityKind(<<{"origin"}, {"destination"}>>, {"found", "several"},
                        {"origin", "destination"}, FALSE))
AlibabaFlightCities   == Table
AlibabaTrainCities    == Table
SnappTripFlightCities == FirstMatch(Document)
SnappTripTrainCities  == Document
SnappTripBusCities    == FirstMatch(Each)
MrBilitFlightCities   == Each
MrBilitTrainCities    == Table
MrBilitBusCities      == Document
FlyTodayFlightCities  == Each
FlyTodayBusCities     == Each
BookingFlightCities   == Document
PayanehaBusCities     ==
    CityKind(<<{"origins"}, {"destinations"}>>, Replies \ {"fault"}, {"destinations"}, FALSE)
Safar724BusCities     == Document

-----------------------------------------------------------------------------
(* Rows.  A list may be refused or malformed as a whole ("fault"), be empty,   *)
(* have rows that make offers, rows that are all dropped or all malformed; a   *)
(* few providers have a form of their own for saying there is nothing.         *)

ListReplies == {"fault", "empty", "offers", "dropped", "malformed"}

RowsKind(replies, polled) == [replies |-> replies, polled |-> polled]

List   == RowsKind(ListReplies, FALSE)
Polled == RowsKind({"fault", "created"}, TRUE)

AlibabaBusRows      == List
AlibabaFlightRows   == Polled
AlibabaTrainRows    == Polled
SnappTripFlightRows == List
SnappTripTrainRows  == List
SnappTripBusRows    == List
MrBilitFlightRows   == List
MrBilitTrainRows    == List
MrBilitBusRows      == List
FlyTodayFlightRows  == List
FlyTodayBusRows     == List
BookingFlightRows   == RowsKind(ListReplies \cup {"noFlights"}, FALSE)
PayanehaBusRows     == RowsKind((ListReplies \ {"empty"}) \cup {"blank"}, FALSE)
Safar724BusRows     == List

\* What a poll for a result brings: nothing usable, a result that is not ready,
\* one that is said to be completed but has no list, and lists as above, which
\* are taken as soon as they have rows, completed or not.
PollReplies ==
    ({"fault", "refused", "pending", "listless", "empty"} \X {"finished"}) \cup
    ({"offers", "dropped", "malformed"} \X {"finished", "partial"})

-----------------------------------------------------------------------------

Kind(s, c, r) == [search |-> s, cities |-> c, rows |-> r]

Its ==
    CASE adapter = "alibaba_bus" ->
            Kind(AlibabaBusSearch, AlibabaBusCities, AlibabaBusRows)
      [] adapter = "alibaba_flight" ->
            Kind(AlibabaFlightSearch, AlibabaFlightCities, AlibabaFlightRows)
      [] adapter = "alibaba_train" ->
            Kind(AlibabaTrainSearch, AlibabaTrainCities, AlibabaTrainRows)
      [] adapter = "snapptrip_flight" ->
            Kind(SnappTripFlightSearch, SnappTripFlightCities, SnappTripFlightRows)
      [] adapter = "snapptrip_train" ->
            Kind(SnappTripTrainSearch, SnappTripTrainCities, SnappTripTrainRows)
      [] adapter = "snapptrip_bus" ->
            Kind(SnappTripBusSearch, SnappTripBusCities, SnappTripBusRows)
      [] adapter = "mrbilit_flight" ->
            Kind(MrBilitFlightSearch, MrBilitFlightCities, MrBilitFlightRows)
      [] adapter = "mrbilit_train" ->
            Kind(MrBilitTrainSearch, MrBilitTrainCities, MrBilitTrainRows)
      [] adapter = "mrbilit_bus" ->
            Kind(MrBilitBusSearch, MrBilitBusCities, MrBilitBusRows)
      [] adapter = "flytoday_flight" ->
            Kind(FlyTodayFlightSearch, FlyTodayFlightCities, FlyTodayFlightRows)
      [] adapter = "flytoday_bus" ->
            Kind(FlyTodayBusSearch, FlyTodayBusCities, FlyTodayBusRows)
      [] adapter = "booking_flight" ->
            Kind(BookingFlightSearch, BookingFlightCities, BookingFlightRows)
      [] adapter = "payaneha_bus" ->
            Kind(PayanehaBusSearch, PayanehaBusCities, PayanehaBusRows)
      [] adapter = "safar724_bus" ->
            Kind(Safar724BusSearch, Safar724BusCities, Safar724BusRows)

ASSUME AdaptersAssumption == Adapters \subseteq AllAdapters

\* What a search of the adapter's mode can ask for.
PossibleWishes ==
    {"none"} \cup (IF adapter \in BusAdapters THEN {"seat"} ELSE {})
             \cup (IF adapter \in TrainAdapters THEN {"vehicle", "passenger"} ELSE {})

Init ==
    /\ adapter \in Adapters
    /\ kept = {"table"} \cup (IF adapter = "alibaba_bus" THEN {"origin", "destination"} ELSE {})
    /\ search = [s \in Searches |->
          [stage |-> "idle", round |-> 1, out |-> {}, polls |-> 0, last |-> "",
           answer |-> "", told |-> ""]]

Round(s) == Its.cities.rounds[search[s].round]

\* The answer, and what the provider said that it rests on.
Settled(r, answer, told) ==
    [r EXCEPT !.stage = "settled", !.answer = answer, !.told = told,
              !.polls = 0, !.last = ""]

ListAnswer(reply) ==
    CASE reply \in {"fault", "malformed"} -> "unavailable"
      [] reply = "offers" -> "offers"
      [] reply \in {"empty", "dropped", "noFlights", "blank"} -> "none"

-----------------------------------------------------------------------------
(* Actions.                                                                    *)

Begin(s) ==
    /\ search[s].stage = "idle"
    /\ \E wish \in PossibleWishes :
          search' = [search EXCEPT ![s] =
              IF wish \in Its.search.declines THEN Settled(@, "unavailable", "unasked")
              ELSE IF wish \in Its.search.ignores THEN Settled(@, "none", "wish")
              ELSE [@ EXCEPT !.stage = "cities"]]
    /\ UNCHANGED <<adapter, kept>>

\* The search with the cities of this round known.
Known(r) ==
    [r EXCEPT !.stage = IF r.round = Len(Its.cities.rounds) THEN "ready" ELSE "cities",
              !.round = IF @ = Len(Its.cities.rounds) THEN @ ELSE @ + 1]

Resolves(reply) == reply = "found" \/ (reply = "several" /\ Its.cities.first)

\* What is kept answers without a call.
FromMemory(s) ==
    /\ search[s].stage = "cities"
    /\ Round(s) \subseteq kept
    /\ \E reply \in Replies \ {"fault"} :
          /\ Round(s) \cap Its.cities.keyed # {} => reply \in Its.cities.keeps
          /\ search' = [search EXCEPT ![s] =
                IF Resolves(reply) THEN Known(@) ELSE Settled(@, "unavailable", "unasked")]
    /\ UNCHANGED <<adapter, kept>>

\* What is not kept is asked for; of a keyed entry another city's may be kept.
AskCities(s) ==
    /\ search[s].stage = "cities"
    /\ Round(s) \subseteq kept => Round(s) \cap Its.cities.keyed # {}
    /\ search' = [search EXCEPT ![s].stage = "lookup", ![s].out = Round(s)]
    /\ UNCHANGED <<adapter, kept>>

\* Mutant of Answered: the first of two lookups that succeeds is enough.
BugAnswered(r, item, reply) ==
    LET rest == [r EXCEPT !.out = @ \ {item}] IN
    IF r.stage # "lookup" THEN rest
    ELSE IF ~Resolves(reply) THEN Settled(rest, "unavailable", "unasked")
    ELSE Known(rest)

\* One of the calls of a round is answered.  A lookup that fails ends the
\* search at once, and the one made together with it goes on for nobody.
Answered(r, item, reply) ==
    LET rest == [r EXCEPT !.out = @ \ {item}] IN
    IF r.stage # "lookup" THEN rest
    ELSE IF ~Resolves(reply) THEN Settled(rest, "unavailable", "unasked")
    ELSE IF rest.out = {} THEN Known(rest) ELSE rest

CityReply(s, item) ==
    /\ item \in search[s].out
    /\ \E reply \in Replies :
          /\ search' = [search EXCEPT ![s] = Answered(@, item, reply)]
          /\ kept' = IF reply \in Its.cities.keeps THEN kept \cup {item} ELSE kept
    /\ UNCHANGED adapter

AskRows(s) ==
    /\ search[s].stage = "ready"
    /\ \E same \in BOOLEAN :
          search' = [search EXCEPT ![s] =
              IF same /\ Its.search.differ THEN Settled(@, "unavailable", "unasked")
              ELSE [@ EXCEPT !.stage = "rows"]]
    /\ UNCHANGED <<adapter, kept>>

RowsReply(s) ==
    /\ search[s].stage = "rows"
    /\ \E reply \in Its.rows.replies :
          search' = [search EXCEPT ![s] =
              IF reply = "created" THEN [@ EXCEPT !.stage = "polling", !.polls = 1]
              ELSE Settled(@, ListAnswer(reply),
                           IF reply \in {"noFlights", "blank"} THEN reply ELSE "finished")]
    /\ UNCHANGED <<adapter, kept>>

\* Mutant of OutOfPolls: any result at all passes for a completed one.
BugOutOfPolls(r) ==
    Settled(r, IF r.last # "" THEN "none" ELSE "unavailable", r.last)

\* Mutant of Unready: the polls are not counted.
BugUnready(r, last) == [r EXCEPT !.last = last, !.stage = "pause", !.polls = 0]

\* After the last poll only a result that said it was completed is an answer.
OutOfPolls(r) ==
    Settled(r, IF r.last = "listless" THEN "none" ELSE "unavailable", r.last)

Unready(r, last) ==
    IF r.polls = MaxPolls THEN OutOfPolls([r EXCEPT !.last = last])
    ELSE [r EXCEPT !.last = last, !.stage = "pause"]

\* The result is taken as soon as it has rows or is completed with a list.
PollReply(s) ==
    /\ search[s].stage = "polling"
    /\ \E reply \in PollReplies :
          search' = [search EXCEPT ![s] =
              CASE reply[1] = "refused"                 -> Unready(@, @.last)
                [] reply[1] \in {"pending", "listless"} -> Unready(@, reply[1])
                [] OTHER -> Settled(@, ListAnswer(reply[1]), reply[2])]
    /\ UNCHANGED <<adapter, kept>>

PauseOver(s) ==
    /\ search[s].stage = "pause"
    /\ search' = [search EXCEPT ![s].stage = "polling", ![s].polls = @ + 1]
    /\ UNCHANGED <<adapter, kept>>

\* The search is told to stop while it awaits something; its calls stop with it.
Cancel(s) ==
    /\ search[s].stage \in {"lookup", "rows", "polling", "pause"}
    /\ search' = [search EXCEPT ![s] = Settled([@ EXCEPT !.out = {}], "cancelled", "unasked")]
    /\ UNCHANGED <<adapter, kept>>

\* A document is forgotten some time after it was fetched; the stations that the
\* Alibaba bus adapter has seen are not.
Expire ==
    /\ kept # {"table"}
    /\ adapter # "alibaba_bus"
    /\ kept' = {"table"}
    /\ UNCHANGED <<adapter, search>>

Local(s) == Begin(s) \/ FromMemory(s) \/ AskCities(s) \/ AskRows(s) \/ PauseOver(s)

Provider(s) == RowsReply(s) \/ PollReply(s) \/ \E item \in search[s].out : CityReply(s, item)

Next == Expire \/ \E s \in Searches : Local(s) \/ Provider(s) \/ Cancel(s)

Spec == Init /\ [][Next]_vars

\* The event loop runs what is ready, and every call to the provider is answered
\* or fails: ProviderHttp!EveryRequestEnds.
Fairness ==
    \A s \in Searches :
        /\ WF_vars(FromMemory(s) \/ AskCities(s) \/ AskRows(s) \/ PauseOver(s))
        /\ WF_vars(Provider(s))

FairSpec == Spec /\ Fairness

-----------------------------------------------------------------------------
(* Properties.                                                                 *)

\* Answers without offers that rest on something else than a finished list: a
\* wish that the adapter ignores, a page without results, the provider's own
\* words, and, where results are polled for, rows of a result that was still
\* being prepared and a completed result without a list.
Excused(told) ==
    \/ told = "wish"      /\ adapter \in {"flytoday_bus", "payaneha_bus", "safar724_bus"}
    \/ told = "blank"     /\ adapter = "payaneha_bus"
    \/ told = "noFlights" /\ adapter = "booking_flight"
    \/ told \in {"partial", "listless"} /\ adapter \in {"alibaba_flight", "alibaba_train"}

\* A search is never told that there are no offers because a lookup failed, a
\* call was refused, or a result was not ready when the adapter stopped asking:
\* "no offers" is the provider's word, with the exceptions named above.
EmptyIsExplained ==
    \A s \in Searches :
        search[s].answer = "none" => search[s].told = "finished" \/ Excused(search[s].told)

\* Rows are asked for only when both cities are known, and the only calls that
\* outlive their search are lookups made together with one that failed.
CallsAreAccountedFor ==
    \A s \in Searches :
        search[s].out # {} =>
            \/ search[s].stage = "lookup"
            \/ /\ search[s].answer = "unavailable"
               /\ \E k \in DOMAIN Its.cities.rounds : Cardinality(Its.cities.rounds[k]) > 1

\* A search that was begun is answered, however long the provider says that its
\* result is not ready.
EverySearchEnds ==
    \A s \in Searches :
        search[s].stage \notin {"idle", "settled"} ~> search[s].stage = "settled"
=============================================================================
