--------------------------- MODULE ProviderProofs ---------------------------
(***************************************************************************)
(* Theorems about what the fourteen adapters make of their providers'      *)
(* answers: ProviderSearch, for every set of searches through any of the   *)
(* adapters, every limit of polls and every clock, ProviderRows, for every *)
(* set of rows that a provider may mix and every length of its list, and   *)
(* LocationSearch, for every finite set of names, every list of rows, any  *)
(* number of adapters and every number of suggestions.                     *)
(*                                                                         *)
(* IInv, the inductive invariant of ProviderSearch, says that each search  *)
(* is Coherent.  Besides what is to be shown of an empty answer and of the *)
(* calls that are out, this says that only the adapters that poll poll,    *)
(* that a poll is made only while there are polls left, and that the calls *)
(* of a round go out together, so that what is left of a round when one of *)
(* its lookups fails are calls of a round of several.                      *)
(*                                                                         *)
(* For the rows, one lemma per reader says what the reader's tests achieve *)
(* together (Reads): a row that passes all of them is Sound, and a test    *)
(* that drops one which the earlier tests let pass has a reason to.  Both  *)
(* have to be shown of the order of the tests, for the first that holds    *)
(* decides.  ListInv, the inductive invariant of ProviderRows, says that   *)
(* offers are those of sound rows, every row read is malformed, an offer   *)
(* or left out for a reason, and the answer is what the list came to.      *)
(*                                                                         *)
(* For the suggestions, Lined is shown to give each of finitely many       *)
(* things its place (LinedEffect), for how many are ahead of a thing tells *)
(* it from the others.  From there follow what the sorts do, what an       *)
(* adapter gives of its rows (LocatedEffect) and what the service merges   *)
(* (AnswerIsConfirmed).  SuggestInv, the inductive invariant, adds to the  *)
(* answer that what each adapter gave is Truthful: among what it had, and  *)
(* with the name that was typed if the adapter orders by match.            *)
(***************************************************************************)
EXTENDS ProviderSearch, ProviderRows, LocationSearch, FiniteSetTheorems, SequenceTheorems,
        NaturalsInduction, WellFoundedInduction, TLAPS

-----------------------------------------------------------------------------
(* The search: facts about the fourteen definitions *)

\* What lookups ask for.
Places == {"table", "document", "origin", "destination", "origins", "destinations"}

\* Who ignores a wish.
LEMMA SearchFacts ==
    ASSUME adapter \in AllAdapters, Its.search.ignores # {}
    PROVE  adapter \in {"flytoday_bus", "payaneha_bus", "safar724_bus"}
BY DEF AllAdapters, BusAdapters, TrainAdapters, FlightAdapters, Its, Kind, SearchKind,
   AlibabaBusSearch, AlibabaFlightSearch, AlibabaTrainSearch, SnappTripFlightSearch,
   SnappTripTrainSearch, SnappTripBusSearch, MrBilitFlightSearch, MrBilitTrainSearch,
   MrBilitBusSearch, FlyTodayFlightSearch, FlyTodayBusSearch, BookingFlightSearch,
   PayanehaBusSearch, Safar724BusSearch

\* Who answers in another form than a list of rows.
LEMMA RowsFacts ==
    ASSUME adapter \in AllAdapters, NEW reply \in Its.rows.replies
    PROVE  \/ reply \in ListReplies
           \/ reply = "noFlights" /\ adapter = "booking_flight"
           \/ reply = "blank" /\ adapter = "payaneha_bus"
           \/ reply = "created" /\ adapter \in {"alibaba_flight", "alibaba_train"}
BY DEF AllAdapters, BusAdapters, TrainAdapters, FlightAdapters, Its, Kind, RowsKind, List,
       Polled,
   ListReplies,
   AlibabaBusRows, AlibabaFlightRows, AlibabaTrainRows, SnappTripFlightRows,
   SnappTripTrainRows, SnappTripBusRows, MrBilitFlightRows, MrBilitTrainRows,
   MrBilitBusRows, FlyTodayFlightRows, FlyTodayBusRows, BookingFlightRows,
   PayanehaBusRows, Safar724BusRows

\* In which rounds cities are looked up.
LEMMA CityFacts ==
    ASSUME adapter \in AllAdapters
    PROVE  Its.cities.rounds \in {<<{"table"}>>, <<{"document"}>>, <<{"origin", "destination"}>>,
               <<{"origin"}, {"destination"}>>, <<{"origins"}, {"destinations"}>>}
<1>1. Its.cities \in {Table, Document, FirstMatch(Document), Each, FirstMatch(Each),
                      AlibabaBusCities, PayanehaBusCities}
  BY DEF AllAdapters, BusAdapters, TrainAdapters, FlightAdapters, Its, Kind,
     AlibabaFlightCities, AlibabaTrainCities, SnappTripFlightCities, SnappTripTrainCities,
     SnappTripBusCities, MrBilitFlightCities, MrBilitTrainCities, MrBilitBusCities,
     FlyTodayFlightCities, FlyTodayBusCities, BookingFlightCities, Safar724BusCities
<1>2. Table.rounds = <<{"table"}>>
  BY DEF Table, CityKind
<1>3. Document.rounds = <<{"document"}>> /\ FirstMatch(Document).rounds = <<{"document"}>>
  BY DEF Document, CityKind, FirstMatch
<1>4. Each.rounds = <<{"origin", "destination"}>> /\ FirstMatch(Each).rounds = <<{"origin", "destination"}>>
  BY DEF Each, CityKind, FirstMatch
<1>5. AlibabaBusCities.rounds = <<{"origin"}, {"destination"}>>
  BY DEF AlibabaBusCities, CityKind, FirstMatch
<1>6. PayanehaBusCities.rounds = <<{"origins"}, {"destinations"}>>
  BY DEF PayanehaBusCities, CityKind
<1>. QED
  BY <1>1, <1>2, <1>3, <1>4, <1>5, <1>6

\* Of two different calls of one round, the round has more than one.
LEMMA RoundFacts ==
    ASSUME adapter \in AllAdapters
    PROVE  /\ Len(Its.cities.rounds) \in Nat \ {0}
           /\ DOMAIN Its.cities.rounds = 1..Len(Its.cities.rounds)
           /\ \A k \in DOMAIN Its.cities.rounds :
                 /\ Its.cities.rounds[k] \in SUBSET Places
                 /\ \A x, y \in Its.cities.rounds[k] : x # y => Cardinality(Its.cities.rounds[k]) > 1
<1>1. \A x, y : x # y => Cardinality({x, y}) > 1
  <2>. SUFFICES ASSUME NEW x, NEW y, x # y PROVE Cardinality({x, y}) > 1
    OBVIOUS
  <2>1. IsFiniteSet({x}) /\ Cardinality({x}) = 1
    BY FS_Singleton
  <2>2. Cardinality({x} \cup {y}) = Cardinality({x}) + 1
    BY <2>1, FS_AddElement
  <2>3. {x} \cup {y} = {x, y}
    OBVIOUS
  <2>. QED
    BY <2>1, <2>2, <2>3
<1>2. Cardinality({"origin", "destination"}) > 1
  BY <1>1
<1>3. PICK rounds : rounds = Its.cities.rounds
  OBVIOUS
<1>4. CASE rounds \in {<<{"table"}>>, <<{"document"}>>, <<{"origin", "destination"}>>}
  <2>1. Len(rounds) = 1 /\ DOMAIN rounds = {1}
    BY <1>4
  <2>2. rounds[1] \in {{"table"}, {"document"}, {"origin", "destination"}}
    BY <1>4
  <2>3. /\ rounds[1] \in SUBSET Places
        /\ \A x, y \in rounds[1] : x # y => Cardinality(rounds[1]) > 1
    BY <1>2, <2>2 DEF Places
  <2>. QED
    BY <1>3, <2>1, <2>3
<1>5. CASE rounds \in {<<{"origin"}, {"destination"}>>, <<{"origins"}, {"destinations"}>>}
  <2>1. Len(rounds) = 2 /\ DOMAIN rounds = {1, 2} /\ DOMAIN rounds = 1..2
    BY <1>5
  <2>2. /\ rounds[1] \in {{"origin"}, {"origins"}}
        /\ rounds[2] \in {{"destination"}, {"destinations"}}
    BY <1>5
  <2>3. \A k \in {1, 2} : /\ rounds[k] \in SUBSET Places
                          /\ \A x, y \in rounds[k] : x = y
    BY <2>2 DEF Places
  <2>. QED
    BY <1>3, <2>1, <2>3
<1>. QED
  BY <1>3, <1>4, <1>5, CityFacts

-----------------------------------------------------------------------------
(* The invariant *)

\* The stages of a search, and what its record can hold.
Stages == {"idle", "cities", "lookup", "ready", "rows", "polling", "pause", "settled"}

Polling == {"polling", "pause"}

SearchRecord ==
    [stage : Stages, round : Nat, out : SUBSET Places, polls : 0..MaxPolls,
     last : {"", "pending", "listless"},
     answer : {"", "unavailable", "none", "offers", "cancelled"},
     told : {"", "unasked", "wish", "finished", "noFlights", "blank", "partial", "pending",
             "listless"}]

\* An answer of no offers is the provider's word, or excused.
Explained(r) == r.answer = "none" => r.told = "finished" \/ Excused(r.told)

\* Lookups that outlive a failed one: their round had several.
Stragglers(r) ==
    /\ r.answer = "unavailable"
    /\ \E k \in DOMAIN Its.cities.rounds : Cardinality(Its.cities.rounds[k]) > 1

\* Calls are out for the round that is looked up, or are stragglers.
OutAccounted(r) ==
    r.out # {} =>
        \/ r.stage = "lookup" /\ r.out \subseteq Its.cities.rounds[r.round]
        \/ r.stage = "settled" /\ Stragglers(r)

\* What holds of one search at any time.
Coherent(r) ==
    /\ r \in SearchRecord
    /\ r.round \in DOMAIN Its.cities.rounds
    /\ r.stage # "settled" => r.answer = ""
    /\ r.stage \in Polling => adapter \in {"alibaba_flight", "alibaba_train"} /\ r.polls >= 1
    /\ r.stage = "pause" => r.polls < MaxPolls
    /\ Explained(r)
    /\ OutAccounted(r)

\* The inductive invariant.
IInv ==
    /\ adapter \in AllAdapters
    /\ search = [s \in Searches |-> search[s]]
    /\ \A s \in Searches : Coherent(search[s])

-----------------------------------------------------------------------------
(* The transitions of one search *)

\* There are numbers of polls.
LEMMA PollsRange == 0 \in 0..MaxPolls /\ 1 \in 0..MaxPolls /\ MaxPolls \in Nat
BY PollsAssumption DEF PollsAssumption

\* A count that has not reached its limit is below it.
LEMMA BelowLimit == \A most \in Nat : \A n \in 0..most : n # most => n < most
OBVIOUS

\* A search is answered: with no offers only if that is explained, and with
\* calls still out only if they are stragglers.
LEMMA SettledCoherent ==
    ASSUME NEW r, Coherent(r),
           NEW result \in {"unavailable", "none", "offers", "cancelled"},
           NEW told \in {"", "unasked", "wish", "finished", "noFlights", "blank", "partial",
                         "pending", "listless"},
           result = "none" => told = "finished" \/ Excused(told),
           r.out # {} => /\ result = "unavailable"
                         /\ \E k \in DOMAIN Its.cities.rounds : Cardinality(Its.cities.rounds[k]) > 1
    PROVE  Coherent(Settled(r, result, told))
<1>1. PICK r2 : r2 = Settled(r, result, told)
  OBVIOUS
<1>2. r \in SearchRecord
  BY DEF Coherent
<1>0. r2 = [stage |-> "settled", round |-> r.round, out |-> r.out, polls |-> 0, last |-> "",
            answer |-> result, told |-> told]
  BY <1>1, <1>2 DEF Settled, SearchRecord
<1>3. /\ r2 \in SearchRecord
      /\ r2.stage = "settled" /\ r2.answer = result /\ r2.told = told
      /\ r2.round = r.round /\ r2.out = r.out
  <2>1. r.round \in Nat /\ r.out \in SUBSET Places
    BY <1>2 DEF SearchRecord
  <2>2. 0 \in 0..MaxPolls
    BY PollsRange
  <2>3. "settled" \in Stages
    BY DEF Stages
  <2>. QED
    BY <1>0, <2>1, <2>2, <2>3 DEF SearchRecord
<1>4. Coherent(r2)
  BY <1>3 DEF Coherent, Explained, OutAccounted, Stragglers, Polling
<1>. QED
  BY <1>1, <1>4

\* A round is done: the next one, or the rows.
LEMMA KnownCoherent ==
    ASSUME adapter \in AllAdapters, NEW r, Coherent(r), r.stage \in {"cities", "lookup"}, r.out = {}
    PROVE  Coherent(Known(r))
<1>1. PICK r2 : r2 = Known(r)
  OBVIOUS
<1>2. r \in SearchRecord /\ r.round \in 1..Len(Its.cities.rounds) /\ Len(Its.cities.rounds) \in Nat
  BY RoundFacts DEF Coherent
<1>0. \E stage \in {"cities", "ready"}, round \in 1..Len(Its.cities.rounds) :
         r2 = [r EXCEPT !.stage = stage, !.round = round]
  <2>1. CASE r.round = Len(Its.cities.rounds)
    BY <1>1, <1>2, <2>1 DEF Known
  <2>2. CASE r.round # Len(Its.cities.rounds)
    <3>1. r2 = [r EXCEPT !.stage = "cities", !.round = r.round + 1]
      BY <1>1, <2>2 DEF Known
    <3>2. r.round + 1 \in 1..Len(Its.cities.rounds)
      BY <1>2, <2>2
    <3>. QED
      BY <3>1, <3>2
  <2>. QED
    BY <2>1, <2>2
<1>3. /\ r2 \in SearchRecord
      /\ r2.stage \in {"cities", "ready"}
      /\ r2.round \in 1..Len(Its.cities.rounds)
      /\ r2.out = {} /\ r2.answer = r.answer /\ r2.told = r.told
  <2>1. PICK stage \in {"cities", "ready"}, round \in 1..Len(Its.cities.rounds) :
           r2 = [r EXCEPT !.stage = stage, !.round = round]
    BY <1>0
  <2>2. stage \in Stages /\ round \in Nat
    BY <1>2 DEF Stages
  <2>. QED
    BY <1>2, <2>1, <2>2 DEF SearchRecord
<1>4. Coherent(r2)
  BY <1>3, RoundFacts DEF Coherent, Explained, OutAccounted, Polling
<1>. QED
  BY <1>1, <1>4

-----------------------------------------------------------------------------
(* One lemma per operation: the invariant is preserved *)

\* It is enough that the one search that moves stays coherent.
LEMMA OneMoves ==
    ASSUME IInv, UNCHANGED adapter, NEW s \in Searches, NEW r, Coherent(r),
           search' = [search EXCEPT ![s] = r]
    PROVE  IInv'
<1>1. search'[s] = r /\ \A other \in Searches \ {s} : search'[other] = search[other]
  BY DEF IInv
<1>2. search' = [other \in Searches |-> search'[other]]
  BY DEF IInv
<1>3. Its' = Its
  BY DEF Its
<1>4. \A other \in Searches : Coherent(search'[other])
  BY <1>1 DEF IInv
<1>5. (\A other \in Searches : Coherent(search[other]))'
  BY <1>3, <1>4 DEF Coherent, Explained, Excused, OutAccounted, Stragglers
<1>. QED
  BY <1>2, <1>5 DEF IInv

\* Nothing is out, or is asked, before the answer but in a round of lookups.
LEMMA NothingOut ==
    ASSUME NEW r, Coherent(r), r.stage \notin {"lookup", "settled"}
    PROVE  r.out = {}
BY DEF Coherent, OutAccounted

\* A stage that has no calls of lookups out, and does not poll.
LEMMA StageCoherent ==
    ASSUME NEW r, Coherent(r), r.out = {}, r.stage # "settled",
           NEW stage \in Stages \ (Polling \cup {"settled"})
    PROVE  Coherent([r EXCEPT !.stage = stage])
<1>1. PICK r2 : r2 = [r EXCEPT !.stage = stage]
  OBVIOUS
<1>2. r2 \in SearchRecord /\ r2.stage = stage /\ r2.out = {}
      /\ r2.round = r.round /\ r2.answer = r.answer /\ r2.told = r.told
  BY <1>1 DEF Coherent, SearchRecord
<1>3. Coherent(r2)
  BY <1>2 DEF Coherent, Explained, OutAccounted, Polling
<1>. QED
  BY <1>1, <1>3

\* A wish that is ignored is an excuse the adapter is known for.
LEMMA BeginKeeps ==
    ASSUME IInv, NEW s \in Searches, Begin(s)
    PROVE  IInv'
<1>1. PICK r : r = search[s]
  OBVIOUS
<1>2. PICK wish \in PossibleWishes :
         search' = [search EXCEPT ![s] =
              IF wish \in Its.search.declines THEN Settled(r, "unavailable", "unasked")
              ELSE IF wish \in Its.search.ignores THEN Settled(r, "none", "wish")
              ELSE [r EXCEPT !.stage = "cities"]]
  BY <1>1 DEF Begin
<1>3. Coherent(r) /\ adapter \in AllAdapters /\ r.stage = "idle" /\ r.out = {}
  BY <1>1, NothingOut DEF Begin, IInv
<1>4. Coherent(Settled(r, "unavailable", "unasked"))
  BY <1>3, SettledCoherent
<1>5. wish \in Its.search.ignores => Coherent(Settled(r, "none", "wish"))
  <2>. HAVE wish \in Its.search.ignores
  <2>1. Excused("wish")
    BY <1>3, SearchFacts DEF Excused
  <2>. QED
    BY <1>3, <2>1, SettledCoherent
<1>6. Coherent([r EXCEPT !.stage = "cities"])
  BY <1>3, StageCoherent DEF Stages, Polling
<1>. QED
  BY <1>2, <1>4, <1>5, <1>6, OneMoves DEF Begin

\* Cities known from before are a round without calls.
LEMMA FromMemoryKeeps ==
    ASSUME IInv, NEW s \in Searches, FromMemory(s)
    PROVE  IInv'
<1>1. PICK r : r = search[s]
  OBVIOUS
<1>2. PICK reply \in Replies \ {"fault"} :
         search' = [search EXCEPT ![s] =
             IF Resolves(reply) THEN Known(r) ELSE Settled(r, "unavailable", "unasked")]
  BY <1>1 DEF FromMemory
<1>3. Coherent(r) /\ adapter \in AllAdapters /\ r.stage = "cities" /\ r.out = {}
  BY <1>1, NothingOut DEF FromMemory, IInv
<1>4. Coherent(Settled(r, "unavailable", "unasked"))
  BY <1>3, SettledCoherent
<1>5. Coherent(Known(r))
  BY <1>3, KnownCoherent
<1>. QED
  BY <1>2, <1>4, <1>5, OneMoves DEF FromMemory

\* The calls of a round go out together.
LEMMA AskCitiesKeeps ==
    ASSUME IInv, NEW s \in Searches, AskCities(s)
    PROVE  IInv'
<1>1. PICK r : r = search[s]
  OBVIOUS
<1>2. Coherent(r) /\ adapter \in AllAdapters /\ r.stage = "cities"
  BY <1>1 DEF AskCities, IInv
<1>3. PICK r2 : r2 = [r EXCEPT !.stage = "lookup", !.out = Its.cities.rounds[r.round]]
  OBVIOUS
<1>4. search' = [search EXCEPT ![s] = r2]
  <2>1. search' = [search EXCEPT ![s].stage = "lookup", ![s].out = Its.cities.rounds[r.round]]
    BY <1>1 DEF AskCities, Round
  <2>2. PICK moved : moved = [search EXCEPT ![s].stage = "lookup"]
    OBVIOUS
  <2>3. search' = [moved EXCEPT ![s].out = Its.cities.rounds[r.round]]
    BY <2>1, <2>2
  <2>4. moved = [search EXCEPT ![s] = [r EXCEPT !.stage = "lookup"]]
    BY <1>1, <2>2
  <2>. QED
    BY <1>1, <1>3, <2>3, <2>4 DEF IInv
<1>5. r \in SearchRecord /\ Its.cities.rounds[r.round] \in SUBSET Places
  BY <1>2, RoundFacts DEF Coherent
<1>6. /\ r2 \in SearchRecord /\ r2.stage = "lookup" /\ r2.out = Its.cities.rounds[r.round]
      /\ r2.round = r.round /\ r2.answer = r.answer /\ r2.told = r.told
  BY <1>3, <1>5 DEF SearchRecord, Stages
<1>7. Coherent(r2)
  BY <1>2, <1>6 DEF Coherent, Explained, OutAccounted, Polling
<1>. QED
  BY <1>4, <1>7, OneMoves DEF AskCities

\* A lookup that fails ends the search; what is out then was asked together
\* with it, so the round had several calls.
LEMMA CityReplyKeeps ==
    ASSUME IInv, NEW s \in Searches, NEW item, CityReply(s, item)
    PROVE  IInv'
<1>1. PICK r : r = search[s]
  OBVIOUS
<1>2. PICK rest : rest = [r EXCEPT !.out = @ \ {item}]
  OBVIOUS
<1>3. PICK reply \in Replies : search' = [search EXCEPT ![s] = Answered(r, item, reply)]
  BY <1>1 DEF CityReply
<1>4. Coherent(r) /\ adapter \in AllAdapters /\ item \in r.out
  BY <1>1 DEF CityReply, IInv
<1>5. /\ rest \in SearchRecord /\ rest.out = r.out \ {item} /\ rest.stage = r.stage
      /\ rest.round = r.round /\ rest.answer = r.answer /\ rest.told = r.told /\ rest.polls = r.polls
  BY <1>2, <1>4 DEF Coherent, SearchRecord
<1>6. Coherent(rest)
  BY <1>4, <1>5 DEF Coherent, Explained, OutAccounted, Stragglers
<1>7. r.stage = "lookup" => Coherent(Settled(rest, "unavailable", "unasked"))
  <2>. HAVE r.stage = "lookup"
  <2>1. rest.out # {} => \E k \in DOMAIN Its.cities.rounds : Cardinality(Its.cities.rounds[k]) > 1
    <3>. HAVE rest.out # {}
    <3>1. PICK other \in r.out : other # item
      BY <1>5
    <3>2. r.round \in DOMAIN Its.cities.rounds /\ r.out \subseteq Its.cities.rounds[r.round]
      BY <1>4 DEF Coherent, OutAccounted
    <3>3. item \in Its.cities.rounds[r.round] /\ other \in Its.cities.rounds[r.round]
      BY <1>4, <3>2
    <3>. QED
      BY <1>4, <3>1, <3>2, <3>3, RoundFacts
  <2>. QED
    BY <1>6, <2>1, SettledCoherent
<1>8. r.stage = "lookup" /\ rest.out = {} => Coherent(Known(rest))
  BY <1>4, <1>5, <1>6, KnownCoherent
<1>9. Coherent(Answered(r, item, reply))
  <2>1. Answered(r, item, reply) =
           IF r.stage # "lookup" THEN rest
           ELSE IF ~Resolves(reply) THEN Settled(rest, "unavailable", "unasked")
           ELSE IF rest.out = {} THEN Known(rest) ELSE rest
    BY <1>2 DEF Answered
  <2>. QED
    BY <1>6, <1>7, <1>8, <2>1
<1>. QED
  BY <1>3, <1>9, OneMoves DEF CityReply

\* The rows are asked for when no lookup is out.
LEMMA AskRowsKeeps ==
    ASSUME IInv, NEW s \in Searches, AskRows(s)
    PROVE  IInv'
<1>1. PICK r : r = search[s]
  OBVIOUS
<1>2. PICK same \in BOOLEAN :
         search' = [search EXCEPT ![s] =
             IF same /\ Its.search.differ THEN Settled(r, "unavailable", "unasked")
             ELSE [r EXCEPT !.stage = "rows"]]
  BY <1>1 DEF AskRows
<1>3. Coherent(r) /\ r.stage = "ready" /\ r.out = {}
  BY <1>1, NothingOut DEF AskRows, IInv
<1>4. Coherent(Settled(r, "unavailable", "unasked"))
  BY <1>3, SettledCoherent
<1>5. Coherent([r EXCEPT !.stage = "rows"])
  BY <1>3, StageCoherent DEF Stages, Polling
<1>. QED
  BY <1>2, <1>4, <1>5, OneMoves DEF AskRows

\* A poll that brings nothing yet: pause, or give up with what was said last.
LEMMA UnreadyCoherent ==
    ASSUME NEW r, Coherent(r), r.stage = "polling", NEW last \in {"", "pending", "listless"}
    PROVE  Coherent(Unready(r, last))
<1>1. r \in SearchRecord /\ r.out = {} /\ r.answer = ""
  BY NothingOut DEF Coherent
<1>2. adapter \in {"alibaba_flight", "alibaba_train"} /\ r.polls >= 1
  BY DEF Coherent, Polling
<1>3. CASE r.polls = MaxPolls
  <2>1. PICK r2 : r2 = [r EXCEPT !.last = last]
    OBVIOUS
  <2>2. /\ r2 \in SearchRecord /\ r2.last = last /\ r2.stage = r.stage /\ r2.polls = r.polls
        /\ r2.out = r.out /\ r2.round = r.round /\ r2.answer = r.answer /\ r2.told = r.told
    BY <1>1, <2>1 DEF SearchRecord
  <2>3. Coherent(r2)
    BY <2>2 DEF Coherent, Explained, OutAccounted, Stragglers
  <2>4. last = "listless" => Excused(last)
    BY <1>2 DEF Excused
  <2>5. Coherent(Settled(r2, "unavailable", last))
    BY <1>1, <2>2, <2>3, SettledCoherent
  <2>6. last = "listless" => Coherent(Settled(r2, "none", last))
    BY <1>1, <2>2, <2>3, <2>4, SettledCoherent
  <2>7. Unready(r, last) = Settled(r2, IF last = "listless" THEN "none" ELSE "unavailable", last)
    BY <1>3, <2>1, <2>2 DEF Unready, OutOfPolls
  <2>. QED
    BY <2>5, <2>6, <2>7
<1>4. CASE r.polls # MaxPolls
  <2>1. PICK r2 : r2 = [r EXCEPT !.last = last, !.stage = "pause"]
    OBVIOUS
  <2>2. /\ r2 \in SearchRecord /\ r2.last = last /\ r2.stage = "pause" /\ r2.polls = r.polls
        /\ r2.out = r.out /\ r2.round = r.round /\ r2.answer = r.answer /\ r2.told = r.told
    BY <1>1, <2>1 DEF SearchRecord, Stages
  <2>3. r.polls < MaxPolls
    <3>1. r.polls \in 0..MaxPolls
      BY <1>1 DEF SearchRecord
    <3>. QED
      BY <1>4, <3>1, PollsRange, BelowLimit
  <2>4. Coherent(r2)
    BY <1>1, <1>2, <2>2, <2>3 DEF Coherent, Explained, OutAccounted, Polling
  <2>5. Unready(r, last) = r2
    BY <1>4, <2>1 DEF Unready
  <2>. QED
    BY <2>4, <2>5
<1>. QED
  BY <1>3, <1>4

\* A list is taken at its word; who polls has its first poll to come.
LEMMA RowsReplyKeeps ==
    ASSUME IInv, NEW s \in Searches, RowsReply(s)
    PROVE  IInv'
<1>1. PICK r : r = search[s]
  OBVIOUS
<1>2. PICK reply \in Its.rows.replies :
         search' = [search EXCEPT ![s] =
              IF reply = "created" THEN [r EXCEPT !.stage = "polling", !.polls = 1]
              ELSE Settled(r, ListAnswer(reply),
                           IF reply \in {"noFlights", "blank"} THEN reply ELSE "finished")]
  BY <1>1 DEF RowsReply
<1>3. Coherent(r) /\ adapter \in AllAdapters /\ r.stage = "rows" /\ r.out = {}
  BY <1>1, NothingOut DEF RowsReply, IInv
<1>4. \/ reply \in ListReplies
      \/ reply = "noFlights" /\ adapter = "booking_flight"
      \/ reply = "blank" /\ adapter = "payaneha_bus"
      \/ reply = "created" /\ adapter \in {"alibaba_flight", "alibaba_train"}
  BY <1>3, RowsFacts
<1>5. CASE reply = "created"
  <2>1. adapter \in {"alibaba_flight", "alibaba_train"}
    BY <1>4, <1>5 DEF ListReplies
  <2>2. PICK r2 : r2 = [r EXCEPT !.stage = "polling", !.polls = 1]
    OBVIOUS
  <2>3. /\ r2 \in SearchRecord /\ r2.stage = "polling" /\ r2.polls = 1
        /\ r2.out = r.out /\ r2.round = r.round /\ r2.answer = r.answer /\ r2.told = r.told
    BY <1>3, <2>2, PollsRange DEF Coherent, SearchRecord, Stages
  <2>4. Coherent(r2)
    <3>1. r2.polls >= 1
      BY <2>3
    <3>2. r2.out = {} /\ r2.answer = "" /\ r2.round \in DOMAIN Its.cities.rounds
      BY <1>3, <2>3 DEF Coherent
    <3>. QED
      BY <2>1, <2>3, <3>1, <3>2 DEF Coherent, Explained, OutAccounted, Polling
  <2>. QED
    BY <1>2, <1>5, <2>2, <2>4, OneMoves DEF RowsReply
<1>6. CASE reply # "created"
  <2>1. PICK told : told = IF reply \in {"noFlights", "blank"} THEN reply ELSE "finished"
    OBVIOUS
  <2>2. told \in {"noFlights", "blank", "finished"} /\ (told = "finished" \/ Excused(told))
    BY <1>4, <1>6, <2>1 DEF ListReplies, Excused
  <2>3. ListAnswer(reply) \in {"unavailable", "offers", "none"}
    BY <1>4, <1>6 DEF ListReplies, ListAnswer
  <2>4. Coherent(Settled(r, ListAnswer(reply), told))
    BY <1>3, <2>2, <2>3, SettledCoherent
  <2>. QED
    BY <1>2, <1>6, <2>1, <2>4, OneMoves DEF RowsReply
<1>. QED
  BY <1>5, <1>6

\* A poll brings rows or a finished list, or another pause.
LEMMA PollReplyKeeps ==
    ASSUME IInv, NEW s \in Searches, PollReply(s)
    PROVE  IInv'
<1>1. PICK r : r = search[s]
  OBVIOUS
<1>2. PICK reply \in PollReplies :
         search' = [search EXCEPT ![s] =
              CASE reply[1] = "refused"                 -> Unready(r, r.last)
                [] reply[1] \in {"pending", "listless"} -> Unready(r, reply[1])
                [] OTHER -> Settled(r, ListAnswer(reply[1]), reply[2])]
  BY <1>1 DEF PollReply
<1>3. Coherent(r) /\ r.stage = "polling" /\ r.out = {} /\ r.last \in {"", "pending", "listless"}
  BY <1>1, NothingOut DEF PollReply, IInv, Coherent, SearchRecord
<1>4. adapter \in {"alibaba_flight", "alibaba_train"}
  BY <1>3 DEF Coherent, Polling
<1>5. PICK about, state : /\ reply[1] = about /\ reply[2] = state
                          /\ about \in {"fault", "refused", "pending", "listless", "empty",
                                        "offers", "dropped", "malformed"}
                          /\ state \in {"finished", "partial"}
  BY <1>2 DEF PollReplies
<1>6. CASE about = "refused"
  BY <1>2, <1>3, <1>5, <1>6, UnreadyCoherent, OneMoves DEF PollReply
<1>7. CASE about \in {"pending", "listless"}
  BY <1>2, <1>3, <1>5, <1>7, UnreadyCoherent, OneMoves DEF PollReply
<1>8. CASE about \notin {"refused", "pending", "listless"}
  <2>1. ListAnswer(about) \in {"unavailable", "offers", "none"}
    BY <1>5, <1>8 DEF ListAnswer
  <2>2. state = "finished" \/ Excused(state)
    BY <1>4, <1>5 DEF Excused
  <2>3. Coherent(Settled(r, ListAnswer(about), state))
    BY <1>3, <1>5, <2>1, <2>2, SettledCoherent
  <2>4. search' = [search EXCEPT ![s] = Settled(r, ListAnswer(about), state)]
    BY <1>2, <1>5, <1>8
  <2>. QED
    BY <2>3, <2>4, OneMoves DEF PollReply
<1>. QED
  BY <1>6, <1>7, <1>8

\* Another poll, of those that are left.
LEMMA PauseOverKeeps ==
    ASSUME IInv, NEW s \in Searches, PauseOver(s)
    PROVE  IInv'
<1>1. PICK r : r = search[s]
  OBVIOUS
<1>2. Coherent(r) /\ r.stage = "pause" /\ r.out = {}
  BY <1>1, NothingOut DEF PauseOver, IInv
<1>3. r \in SearchRecord /\ r.polls \in 0..MaxPolls /\ r.polls < MaxPolls /\ r.polls >= 1
  BY <1>2 DEF Coherent, SearchRecord, Polling
<1>4. r.polls + 1 \in 0..MaxPolls /\ r.polls + 1 >= 1
  BY <1>3, PollsRange
<1>5. PICK r2 : r2 = [r EXCEPT !.stage = "polling", !.polls = @ + 1]
  OBVIOUS
<1>6. /\ r2 \in SearchRecord /\ r2.stage = "polling" /\ r2.polls = r.polls + 1
      /\ r2.out = r.out /\ r2.round = r.round /\ r2.answer = r.answer /\ r2.told = r.told
  BY <1>3, <1>4, <1>5 DEF SearchRecord, Stages
<1>7. Coherent(r2)
  BY <1>2, <1>4, <1>6 DEF Coherent, Explained, OutAccounted, Polling
<1>8. search' = [search EXCEPT ![s] = r2]
  <2>1. PICK moved : moved = [search EXCEPT ![s].stage = "polling"]
    OBVIOUS
  <2>2. search' = [moved EXCEPT ![s].polls = @ + 1]
    BY <2>1 DEF PauseOver
  <2>3. moved = [search EXCEPT ![s] = [r EXCEPT !.stage = "polling"]]
    BY <1>1, <2>1
  <2>. QED
    BY <1>1, <1>3, <1>5, <2>2, <2>3 DEF IInv, SearchRecord
<1>. QED
  BY <1>7, <1>8, OneMoves DEF PauseOver

\* A search that is cancelled takes its calls with it.
LEMMA CancelKeeps ==
    ASSUME IInv, NEW s \in Searches, Cancel(s)
    PROVE  IInv'
<1>1. PICK r : r = search[s]
  OBVIOUS
<1>2. PICK r2 : r2 = [r EXCEPT !.out = {}]
  OBVIOUS
<1>3. Coherent(r)
  BY <1>1 DEF IInv
<1>4. /\ r2 \in SearchRecord /\ r2.stage = r.stage /\ r2.polls = r.polls
      /\ r2.out = {} /\ r2.round = r.round /\ r2.answer = r.answer /\ r2.told = r.told
  BY <1>2, <1>3 DEF Coherent, SearchRecord
<1>5. Coherent(r2)
  BY <1>3, <1>4 DEF Coherent, Explained, OutAccounted
<1>6. Coherent(Settled(r2, "cancelled", "unasked"))
  BY <1>4, <1>5, SettledCoherent
<1>7. search' = [search EXCEPT ![s] = Settled(r2, "cancelled", "unasked")]
  BY <1>1, <1>2 DEF Cancel
<1>. QED
  BY <1>6, <1>7, OneMoves DEF Cancel

\* The clock says nothing of the searches.
LEMMA StutterKeeps ==
    ASSUME IInv, UNCHANGED <<adapter, search>>
    PROVE  IInv'
<1>1. Its' = Its
  BY DEF Its
<1>2. \A s \in Searches : Coherent(search'[s])
  BY DEF IInv
<1>3. (\A s \in Searches : Coherent(search[s]))'
  BY <1>1, <1>2 DEF Coherent, Explained, Excused, OutAccounted, Stragglers
<1>. QED
  BY <1>3 DEF IInv

-----------------------------------------------------------------------------
(* The theorems *)

\* Every search is coherent throughout, whichever adapter it goes through.
THEOREM Invariance == Spec => []IInv
<1>1. Init => IInv
  <2>. SUFFICES ASSUME Init PROVE IInv
    OBVIOUS
  <2>1. adapter \in AllAdapters
    BY AdaptersAssumption DEF Init, AllAdapters, AdaptersAssumption
  <2>2. PICK r : r = [stage |-> "idle", round |-> 1, out |-> {}, polls |-> 0, last |-> "",
                      answer |-> "", told |-> ""]
    OBVIOUS
  <2>3. search = [s \in Searches |-> r]
    BY <2>2 DEF Init
  <2>4. r \in SearchRecord /\ r.stage = "idle" /\ r.round = 1 /\ r.out = {} /\ r.answer = ""
    BY <2>2, PollsRange DEF SearchRecord, Stages
  <2>5. 1 \in DOMAIN Its.cities.rounds
    BY <2>1, RoundFacts
  <2>6. Coherent(r)
    BY <2>4, <2>5 DEF Coherent, Explained, OutAccounted, Polling
  <2>. QED
    BY <2>1, <2>3, <2>6 DEF IInv
<1>2. IInv /\ [Next]_vars => IInv'
  <2>. SUFFICES ASSUME IInv, [Next]_vars PROVE IInv'
    OBVIOUS
  <2>1. ASSUME NEW s \in Searches, Local(s) PROVE IInv'
    BY <2>1, BeginKeeps, FromMemoryKeeps, AskCitiesKeeps, AskRowsKeeps, PauseOverKeeps
       DEF Local
  <2>2. ASSUME NEW s \in Searches, Provider(s) PROVE IInv'
    BY <2>2, RowsReplyKeeps, PollReplyKeeps, CityReplyKeeps DEF Provider
  <2>3. ASSUME NEW s \in Searches, Cancel(s) PROVE IInv'
    BY <2>3, CancelKeeps
  <2>4. CASE Expire
    BY <2>4, StutterKeeps DEF Expire
  <2>5. CASE UNCHANGED vars
    BY <2>5, StutterKeeps DEF vars
  <2>. QED
    BY <2>1, <2>2, <2>3, <2>4, <2>5 DEF Next
<1>. QED
  BY <1>1, <1>2, PTL DEF Spec

\* "No offers" is the provider's word, or one of the excuses that the adapter
\* is known for: never a failed lookup, a refused call or a result that was
\* not ready when the last poll came back.
THEOREM NoneIsExplained == Spec => []EmptyIsExplained
<1>1. IInv => EmptyIsExplained
  BY DEF IInv, Coherent, Explained, EmptyIsExplained
<1>. QED
  BY <1>1, Invariance, PTL

\* What is out belongs to a lookup, or was asked together with one that failed.
THEOREM CallsAreAlwaysAccountedFor == Spec => []CallsAreAccountedFor
<1>1. IInv => CallsAreAccountedFor
  BY DEF IInv, Coherent, OutAccounted, Stragglers, CallsAreAccountedFor
<1>. QED
  BY <1>1, Invariance, PTL

-----------------------------------------------------------------------------
(* The reading of rows *)

\* The first test that holds is one of those that hold.
LEMMA FirstHit ==
    ASSUME NEW hits \in SUBSET Nat, hits # {}
    PROVE  Min(hits) \in hits /\ \A y \in hits : Min(hits) =< y
<1>1. \E x \in hits : \A y \in hits : ~(<<y, x>> \in OpToRel(<, Nat))
  BY NatLessThanWellFounded, WFMin
<1>2. PICK x \in hits : \A y \in hits : ~(<<y, x>> \in OpToRel(<, Nat))
  BY <1>1
<1>3. \A y \in Nat : y < x => <<y, x>> \in OpToRel(<, Nat)
  BY DEF OpToRel
<1>4. \A y \in hits : ~(y < x)
  BY <1>2, <1>3, Zenon
<1>5. \A y \in hits : x =< y
  BY <1>4
<1>. QED
  BY <1>5 DEF Min

\* A list of tests lets a row pass only if none of them holds, and drops it
\* only if one that drops does, and none before it.
LEMMA VerdictMeaning ==
    ASSUME NEW tests, DOMAIN tests \in SUBSET Nat,
           \A i \in DOMAIN tests : tests[i].verdict \in {"malformed", "dropped"}
    PROVE  /\ Verdict(tests) \in {"offer", "malformed", "dropped"}
           /\ Verdict(tests) = "offer" => \A i \in DOMAIN tests : ~tests[i].holds
           /\ Verdict(tests) = "dropped" =>
                 \E i \in DOMAIN tests :
                    /\ tests[i].holds /\ tests[i].verdict = "dropped"
                    /\ \A j \in DOMAIN tests : j < i => ~tests[j].holds
<1>. DEFINE hits == {i \in DOMAIN tests : tests[i].holds}
<1>1. Verdict(tests) = IF hits = {} THEN "offer" ELSE tests[Min(hits)].verdict
  BY DEF Verdict
<1>2. CASE hits = {}
  BY <1>1, <1>2
<1>3. CASE hits # {}
  <2>1. Min(hits) \in hits /\ \A j \in hits : Min(hits) =< j
    BY <1>3, FirstHit
  <2>2. PICK i \in DOMAIN tests : i = Min(hits) /\ tests[i].holds
    BY <2>1
  <2>3. ASSUME NEW j \in DOMAIN tests, j < i, tests[j].holds PROVE FALSE
    <3>1. j \in Nat /\ i \in Nat /\ i =< j
      BY <2>1, <2>2, <2>3
    <3>. QED
      BY <2>3, <3>1
  <2>. QED
    BY <1>1, <1>3, <2>2, <2>3
<1>. QED
  BY <1>2, <1>3

\* The values a row's fields can have.
Typed(r) ==
    /\ r.when \in {"day", "other", "none"}
    /\ r.route \in {"same", "other", "none"}
    /\ r.picks \in {"yes", "no", "unknown"}
    /\ r.nested \in {"whole", "broken", "skipped"}
    /\ r.fare \in {"known", "zero", "negative", "none"}
    /\ r.seats \in {"enough", "few", "none", "negative", "fraction", "unknown"}
    /\ r.open \in {"yes", "no", "unknown"}

\* What an offer may be trusted to say.
Sound(r) ==
    /\ adapter \in TrustsDay \/ r.when = "day"
    /\ adapter \in TrustsRoute \/ r.route = "same"
    /\ adapter \in FlightAdapters \cup {"snapptrip_train", "mrbilit_train"} => r.fits

\* When a row may be left out without a word.
Refused(r) == Unsuitable(r) \/ ReadsAsRefusal(r)

\* The tests of a reader do their work together: what passes all of them is
\* sound, and each that drops a row the earlier ones let pass has a reason to.
Reads(tests, r) ==
    /\ DOMAIN tests \in SUBSET Nat
    /\ (\A i \in DOMAIN tests : ~tests[i].holds) => Sound(r)
    /\ \A i \in DOMAIN tests :
          \/ tests[i].verdict = "malformed"
          \/ /\ tests[i].verdict = "dropped"
             /\ tests[i].holds /\ (\A j \in DOMAIN tests : j < i => ~tests[j].holds)
                   => Refused(r)

\* The reader of Alibaba's buses.
LEMMA AlibabaBusReads ==
    ASSUME adapter = "alibaba_bus", NEW r, Typed(r)
    PROVE  Reads(AlibabaBusRow(r), r)
<1>. DEFINE test == AlibabaBusRow(r)
<1>1. DOMAIN test = {1, 2, 3}
  BY DEF AlibabaBusRow
<1>2. /\ test[1].verdict = "malformed"
      /\ test[2].verdict = "dropped"
      /\ test[3].verdict = "dropped"
  BY DEF AlibabaBusRow, Malformed, Dropped
<1>3. ~test[2].holds => Sound(r)
  BY DEF AlibabaBusRow, Malformed, Dropped, Sound, TrustsDay, TrustsRoute, FlightAdapters
<1>4. test[2].holds /\ ~test[1].holds => Refused(r)
  BY DEF AlibabaBusRow, Malformed, Dropped, Refused, Unsuitable, ReadsAsRefusal, TooFew,
         Uncounted, Typed
<1>5. test[3].holds => Refused(r)
  BY DEF AlibabaBusRow, Malformed, Dropped, Refused, Unsuitable, ReadsAsRefusal, TooFew,
         Uncounted, Typed
<1>. HIDE DEF test
<1>9. Reads(test, r)
  BY <1>1, <1>2, <1>3, <1>4, <1>5 DEF Reads
<1>. QED
  BY <1>9 DEF test

\* The reader of Alibaba's flights.
LEMMA AlibabaFlightReads ==
    ASSUME adapter = "alibaba_flight", NEW r, Typed(r)
    PROVE  Reads(AlibabaFlightRow(r), r)
<1>. DEFINE test == AlibabaFlightRow(r)
<1>1. DOMAIN test = {1, 2, 3, 4, 5, 6, 7}
  BY DEF AlibabaFlightRow
<1>2. /\ test[1].verdict = "dropped"
      /\ test[2].verdict = "malformed"
      /\ test[3].verdict = "malformed"
      /\ test[4].verdict = "dropped"
      /\ test[5].verdict = "dropped"
      /\ test[6].verdict = "malformed"
      /\ test[7].verdict = "malformed"
  BY DEF AlibabaFlightRow, Malformed, Dropped
<1>3. ~test[3].holds /\ ~test[4].holds => Sound(r)
  BY DEF AlibabaFlightRow, Malformed, Dropped, Sound, TrustsDay, TrustsRoute, FlightAdapters
<1>4. test[1].holds => Refused(r)
  BY DEF AlibabaFlightRow, Malformed, Dropped, Refused, Unsuitable, ReadsAsRefusal,
         TooFew, Uncounted, Typed
<1>5. test[4].holds => Refused(r)
  BY DEF AlibabaFlightRow, Malformed, Dropped, Refused, Unsuitable, ReadsAsRefusal,
         TooFew, Uncounted, Typed
<1>6. test[5].holds => Refused(r)
  BY DEF AlibabaFlightRow, Malformed, Dropped, Refused, Unsuitable, ReadsAsRefusal,
         TooFew, Uncounted, Typed
<1>. HIDE DEF test
<1>9. Reads(test, r)
  BY <1>1, <1>2, <1>3, <1>4, <1>5, <1>6 DEF Reads
<1>. QED
  BY <1>9 DEF test

\* The reader of Alibaba's trains.
LEMMA AlibabaTrainReads ==
    ASSUME adapter = "alibaba_train", NEW r, Typed(r)
    PROVE  Reads(AlibabaTrainRow(r), r)
<1>. DEFINE test == AlibabaTrainRow(r)
<1>1. DOMAIN test = {1, 2, 3, 4, 5}
  BY DEF AlibabaTrainRow
<1>2. /\ test[1].verdict = "malformed"
      /\ test[2].verdict = "dropped"
      /\ test[3].verdict = "malformed"
      /\ test[4].verdict = "dropped"
      /\ test[5].verdict = "malformed"
  BY DEF AlibabaTrainRow, Malformed, Dropped, Timeless
<1>3. ~test[2].holds => Sound(r)
  BY DEF AlibabaTrainRow, Malformed, Dropped, Timeless, Sound, TrustsDay, TrustsRoute,
         FlightAdapters
<1>4. test[2].holds /\ ~test[1].holds => Refused(r)
  BY DEF AlibabaTrainRow, Malformed, Dropped, Timeless, Refused, Unsuitable,
         ReadsAsRefusal, TooFew, Uncounted, Typed
<1>5. test[4].holds => Refused(r)
  BY DEF AlibabaTrainRow, Malformed, Dropped, Timeless, Refused, Unsuitable,
         ReadsAsRefusal, TooFew, Uncounted, Typed
<1>. HIDE DEF test
<1>9. Reads(test, r)
  BY <1>1, <1>2, <1>3, <1>4, <1>5 DEF Reads
<1>. QED
  BY <1>9 DEF test

\* The reader of SnappTrip's flights.
LEMMA SnappTripFlightReads ==
    ASSUME adapter = "snapptrip_flight", NEW r, Typed(r)
    PROVE  Reads(SnappTripFlightRow(r), r)
<1>. DEFINE test == SnappTripFlightRow(r)
<1>1. DOMAIN test = {1, 2, 3}
  BY DEF SnappTripFlightRow
<1>2. /\ test[1].verdict = "malformed"
      /\ test[2].verdict = "dropped"
      /\ test[3].verdict = "malformed"
  BY DEF SnappTripFlightRow, Malformed, Dropped
<1>3. ~test[1].holds /\ ~test[2].holds => Sound(r)
  BY DEF SnappTripFlightRow, Malformed, Dropped, Sound, TrustsDay, TrustsRoute, FlightAdapters
<1>4. test[2].holds => Refused(r)
  BY DEF SnappTripFlightRow, Malformed, Dropped, Refused, Unsuitable, ReadsAsRefusal,
         TooFew, Uncounted, Typed
<1>. HIDE DEF test
<1>9. Reads(test, r)
  BY <1>1, <1>2, <1>3, <1>4 DEF Reads
<1>. QED
  BY <1>9 DEF test

\* The reader of SnappTrip's trains.
LEMMA SnappTripTrainReads ==
    ASSUME adapter = "snapptrip_train", NEW r, Typed(r)
    PROVE  Reads(SnappTripTrainRow(r), r)
<1>. DEFINE test == SnappTripTrainRow(r)
<1>1. DOMAIN test = {1, 2, 3, 4, 5, 6}
  BY DEF SnappTripTrainRow
<1>2. /\ test[1].verdict = "malformed"
      /\ test[2].verdict = "malformed"
      /\ test[3].verdict = "dropped"
      /\ test[4].verdict = "dropped"
      /\ test[5].verdict = "malformed"
      /\ test[6].verdict = "malformed"
  BY DEF SnappTripTrainRow, Malformed, Dropped
<1>3. ~test[4].holds => Sound(r)
  BY DEF SnappTripTrainRow, Malformed, Dropped, Sound, TrustsDay, TrustsRoute, FlightAdapters
<1>4. test[3].holds => Refused(r)
  BY DEF SnappTripTrainRow, Malformed, Dropped, Refused, Unsuitable, ReadsAsRefusal,
         TooFew, Uncounted, Typed
<1>5. test[4].holds /\ ~test[1].holds => Refused(r)
  BY DEF SnappTripTrainRow, Malformed, Dropped, Refused, Unsuitable, ReadsAsRefusal,
         TooFew, Uncounted, Typed
<1>. HIDE DEF test
<1>9. Reads(test, r)
  BY <1>1, <1>2, <1>3, <1>4, <1>5 DEF Reads
<1>. QED
  BY <1>9 DEF test

\* The reader of SnappTrip's buses.
LEMMA SnappTripBusReads ==
    ASSUME adapter = "snapptrip_bus", NEW r, Typed(r)
    PROVE  Reads(SnappTripBusRow(r), r)
<1>. DEFINE test == SnappTripBusRow(r)
<1>1. DOMAIN test = {1, 2}
  BY DEF SnappTripBusRow
<1>2. /\ test[1].verdict = "malformed"
      /\ test[2].verdict = "dropped"
  BY DEF SnappTripBusRow, Malformed, Dropped
<1>3. ~test[2].holds => Sound(r)
  BY DEF SnappTripBusRow, Malformed, Dropped, Sound, TrustsDay, TrustsRoute, FlightAdapters
<1>4. test[2].holds /\ ~test[1].holds => Refused(r)
  BY DEF SnappTripBusRow, Malformed, Dropped, Refused, Unsuitable, ReadsAsRefusal, TooFew,
         Uncounted, Typed
<1>. HIDE DEF test
<1>9. Reads(test, r)
  BY <1>1, <1>2, <1>3, <1>4 DEF Reads
<1>. QED
  BY <1>9 DEF test

\* The reader of MrBilit's flights.
LEMMA MrBilitFlightReads ==
    ASSUME adapter = "mrbilit_flight", NEW r, Typed(r)
    PROVE  Reads(MrBilitFlightRow(r), r)
<1>. DEFINE test == MrBilitFlightRow(r)
<1>1. DOMAIN test = {1, 2, 3, 4, 5, 6, 7, 8}
  BY DEF MrBilitFlightRow
<1>2. /\ test[1].verdict = "malformed"
      /\ test[2].verdict = "dropped"
      /\ test[3].verdict = "malformed"
      /\ test[4].verdict = "dropped"
      /\ test[5].verdict = "dropped"
      /\ test[6].verdict = "malformed"
      /\ test[7].verdict = "dropped"
      /\ test[8].verdict = "malformed"
  BY DEF MrBilitFlightRow, Malformed, Dropped
<1>3. ~test[1].holds /\ ~test[7].holds => Sound(r)
  BY DEF MrBilitFlightRow, Malformed, Dropped, Sound, TrustsDay, TrustsRoute, FlightAdapters
<1>4. test[2].holds => Refused(r)
  BY DEF MrBilitFlightRow, Malformed, Dropped, Refused, Unsuitable, ReadsAsRefusal,
         TooFew, Uncounted, Typed
<1>5. test[4].holds => Refused(r)
  BY DEF MrBilitFlightRow, Malformed, Dropped, Refused, Unsuitable, ReadsAsRefusal,
         TooFew, Uncounted, Typed
<1>6. test[5].holds => Refused(r)
  BY DEF MrBilitFlightRow, Malformed, Dropped, Refused, Unsuitable, ReadsAsRefusal,
         TooFew, Uncounted, Typed
<1>7. test[7].holds => Refused(r)
  BY DEF MrBilitFlightRow, Malformed, Dropped, Refused, Unsuitable, ReadsAsRefusal,
         TooFew, Uncounted, Typed
<1>. HIDE DEF test
<1>9. Reads(test, r)
  BY <1>1, <1>2, <1>3, <1>4, <1>5, <1>6, <1>7 DEF Reads
<1>. QED
  BY <1>9 DEF test

\* The reader of MrBilit's trains.
LEMMA MrBilitTrainReads ==
    ASSUME adapter = "mrbilit_train", NEW r, Typed(r)
    PROVE  Reads(MrBilitTrainRow(r), r)
<1>. DEFINE test == MrBilitTrainRow(r)
<1>1. DOMAIN test = {1, 2, 3, 4, 5, 6, 7}
  BY DEF MrBilitTrainRow
<1>2. /\ test[1].verdict = "malformed"
      /\ test[2].verdict = "malformed"
      /\ test[3].verdict = "dropped"
      /\ test[4].verdict = "dropped"
      /\ test[5].verdict = "malformed"
      /\ test[6].verdict = "dropped"
      /\ test[7].verdict = "malformed"
  BY DEF MrBilitTrainRow, Malformed, Dropped
<1>3. ~test[1].holds /\ ~test[4].holds => Sound(r)
  BY DEF MrBilitTrainRow, Malformed, Dropped, Sound, TrustsDay, TrustsRoute, FlightAdapters
<1>4. test[3].holds => Refused(r)
  BY DEF MrBilitTrainRow, Malformed, Dropped, Refused, Unsuitable, ReadsAsRefusal,
         TooFew, Uncounted, Typed
<1>5. test[4].holds => Refused(r)
  BY DEF MrBilitTrainRow, Malformed, Dropped, Refused, Unsuitable, ReadsAsRefusal,
         TooFew, Uncounted, Typed
<1>6. test[6].holds => Refused(r)
  BY DEF MrBilitTrainRow, Malformed, Dropped, Refused, Unsuitable, ReadsAsRefusal,
         TooFew, Uncounted, Typed
<1>. HIDE DEF test
<1>9. Reads(test, r)
  BY <1>1, <1>2, <1>3, <1>4, <1>5, <1>6 DEF Reads
<1>. QED
  BY <1>9 DEF test

\* The reader of MrBilit's buses.
LEMMA MrBilitBusReads ==
    ASSUME adapter = "mrbilit_bus", NEW r, Typed(r)
    PROVE  Reads(MrBilitBusRow(r), r)
<1>. DEFINE test == MrBilitBusRow(r)
<1>1. DOMAIN test = {1, 2, 3}
  BY DEF MrBilitBusRow
<1>2. /\ test[1].verdict = "malformed"
      /\ test[2].verdict = "dropped"
      /\ test[3].verdict = "dropped"
  BY DEF MrBilitBusRow, Malformed, Dropped
<1>3. ~test[2].holds => Sound(r)
  BY DEF MrBilitBusRow, Malformed, Dropped, Sound, TrustsDay, TrustsRoute, FlightAdapters
<1>4. test[2].holds /\ ~test[1].holds => Refused(r)
  BY DEF MrBilitBusRow, Malformed, Dropped, Refused, Unsuitable, ReadsAsRefusal, TooFew,
         Uncounted, Typed
<1>5. test[3].holds => Refused(r)
  BY DEF MrBilitBusRow, Malformed, Dropped, Refused, Unsuitable, ReadsAsRefusal, TooFew,
         Uncounted, Typed
<1>. HIDE DEF test
<1>9. Reads(test, r)
  BY <1>1, <1>2, <1>3, <1>4, <1>5 DEF Reads
<1>. QED
  BY <1>9 DEF test

\* The reader of FlyToday's flights.
LEMMA FlyTodayFlightReads ==
    ASSUME adapter = "flytoday_flight", NEW r, Typed(r)
    PROVE  Reads(FlyTodayFlightRow(r), r)
<1>. DEFINE test == FlyTodayFlightRow(r)
<1>1. DOMAIN test = {1, 2, 3, 4, 5}
  BY DEF FlyTodayFlightRow
<1>2. /\ test[1].verdict = "malformed"
      /\ test[2].verdict = "dropped"
      /\ test[3].verdict = "malformed"
      /\ test[4].verdict = "dropped"
      /\ test[5].verdict = "malformed"
  BY DEF FlyTodayFlightRow, Malformed, Dropped
<1>3. ~test[1].holds /\ ~test[2].holds => Sound(r)
  BY DEF FlyTodayFlightRow, Malformed, Dropped, Sound, TrustsDay, TrustsRoute, FlightAdapters
<1>4. test[2].holds => Refused(r)
  BY DEF FlyTodayFlightRow, Malformed, Dropped, Refused, Unsuitable, ReadsAsRefusal,
         TooFew, Uncounted, Typed
<1>5. test[4].holds => Refused(r)
  BY DEF FlyTodayFlightRow, Malformed, Dropped, Refused, Unsuitable, ReadsAsRefusal,
         TooFew, Uncounted, Typed
<1>. HIDE DEF test
<1>9. Reads(test, r)
  BY <1>1, <1>2, <1>3, <1>4, <1>5 DEF Reads
<1>. QED
  BY <1>9 DEF test

\* The reader of FlyToday's buses.
LEMMA FlyTodayBusReads ==
    ASSUME adapter = "flytoday_bus", NEW r, Typed(r)
    PROVE  Reads(FlyTodayBusRow(r), r)
<1>. DEFINE test == FlyTodayBusRow(r)
<1>1. DOMAIN test = {1, 2}
  BY DEF FlyTodayBusRow
<1>2. /\ test[1].verdict = "malformed"
      /\ test[2].verdict = "dropped"
  BY DEF FlyTodayBusRow, Malformed, Dropped
<1>3. ~test[1].holds => Sound(r)
  BY DEF FlyTodayBusRow, Malformed, Dropped, Sound, TrustsDay, TrustsRoute, FlightAdapters
<1>4. test[2].holds => Refused(r)
  BY DEF FlyTodayBusRow, Malformed, Dropped, Refused, Unsuitable, ReadsAsRefusal, TooFew,
         Uncounted, Typed
<1>. HIDE DEF test
<1>9. Reads(test, r)
  BY <1>1, <1>2, <1>3, <1>4 DEF Reads
<1>. QED
  BY <1>9 DEF test

\* The reader of Booking's flights.
LEMMA BookingFlightReads ==
    ASSUME adapter = "booking_flight", NEW r, Typed(r)
    PROVE  Reads(BookingFlightRow(r), r)
<1>. DEFINE test == BookingFlightRow(r)
<1>1. DOMAIN test = {1, 2, 3, 4, 5, 6, 7, 8}
  BY DEF BookingFlightRow
<1>2. /\ test[1].verdict = "dropped"
      /\ test[2].verdict = "malformed"
      /\ test[3].verdict = "malformed"
      /\ test[4].verdict = "malformed"
      /\ test[5].verdict = "malformed"
      /\ test[6].verdict = "dropped"
      /\ test[7].verdict = "malformed"
      /\ test[8].verdict = "dropped"
  BY DEF BookingFlightRow, Malformed, Dropped
<1>3. ~test[4].holds /\ ~test[6].holds => Sound(r)
  BY DEF BookingFlightRow, Malformed, Dropped, Sound, TrustsDay, TrustsRoute, FlightAdapters
<1>4. test[1].holds => Refused(r)
  BY DEF BookingFlightRow, Malformed, Dropped, Refused, Unsuitable, ReadsAsRefusal,
         TooFew, Uncounted, Typed
<1>5. test[6].holds => Refused(r)
  BY DEF BookingFlightRow, Malformed, Dropped, Refused, Unsuitable, ReadsAsRefusal,
         TooFew, Uncounted, Typed
<1>6. test[8].holds => Refused(r)
  BY DEF BookingFlightRow, Malformed, Dropped, Refused, Unsuitable, ReadsAsRefusal,
         TooFew, Uncounted, Typed
<1>. HIDE DEF test
<1>9. Reads(test, r)
  BY <1>1, <1>2, <1>3, <1>4, <1>5, <1>6 DEF Reads
<1>. QED
  BY <1>9 DEF test

\* The reader of Payaneha's buses.
LEMMA PayanehaBusReads ==
    ASSUME adapter = "payaneha_bus", NEW r, Typed(r)
    PROVE  Reads(PayanehaBusRow(r), r)
<1>. DEFINE test == PayanehaBusRow(r)
<1>1. DOMAIN test = {1, 2}
  BY DEF PayanehaBusRow
<1>2. /\ test[1].verdict = "malformed"
      /\ test[2].verdict = "dropped"
  BY DEF PayanehaBusRow, Malformed, Dropped
<1>3. Sound(r)
  BY DEF PayanehaBusRow, Malformed, Dropped, Sound, TrustsDay, TrustsRoute, FlightAdapters
<1>4. test[2].holds => Refused(r)
  BY DEF PayanehaBusRow, Malformed, Dropped, Refused, Unsuitable, ReadsAsRefusal, TooFew,
         Uncounted, Typed
<1>. HIDE DEF test
<1>9. Reads(test, r)
  BY <1>1, <1>2, <1>3, <1>4 DEF Reads
<1>. QED
  BY <1>9 DEF test

\* The reader of Safar724's buses.
LEMMA Safar724BusReads ==
    ASSUME adapter = "safar724_bus", NEW r, Typed(r)
    PROVE  Reads(Safar724BusRow(r), r)
<1>. DEFINE test == Safar724BusRow(r)
<1>1. DOMAIN test = {1, 2}
  BY DEF Safar724BusRow
<1>2. /\ test[1].verdict = "malformed"
      /\ test[2].verdict = "dropped"
  BY DEF Safar724BusRow, Malformed, Dropped
<1>3. Sound(r)
  BY DEF Safar724BusRow, Malformed, Dropped, Sound, TrustsDay, TrustsRoute, FlightAdapters
<1>4. test[2].holds => Refused(r)
  BY DEF Safar724BusRow, Malformed, Dropped, Refused, Unsuitable, ReadsAsRefusal, TooFew,
         Uncounted, Typed
<1>. HIDE DEF test
<1>9. Reads(test, r)
  BY <1>1, <1>2, <1>3, <1>4 DEF Reads
<1>. QED
  BY <1>9 DEF test

\* Every reader reads.
LEMMA EveryReaderReads ==
    ASSUME adapter \in AllAdapters, NEW r \in Rows
    PROVE  Reads(Tests(r), r)
<1>1. Typed(r)
  BY RowsAssumption DEF RowsAssumption, RowField, Typed
<1>. QED
  BY <1>1, AlibabaBusReads, AlibabaFlightReads, AlibabaTrainReads, SnappTripFlightReads,
     SnappTripTrainReads, SnappTripBusReads, MrBilitFlightReads, MrBilitTrainReads,
     MrBilitBusReads, FlyTodayFlightReads, FlyTodayBusReads, BookingFlightReads,
     PayanehaBusReads, Safar724BusReads
     DEF Tests, AllAdapters, FlightAdapters, TrainAdapters, BusAdapters

\* What becomes of a row: a sound offer, a row left out for a reason, or a
\* malformed one.
LEMMA ReadingMeaning ==
    ASSUME adapter \in AllAdapters, NEW r \in Rows
    PROVE  /\ Reading(r) \in {"offer", "malformed", "dropped"}
           /\ Reading(r) = "offer" => Sound(r)
           /\ Reading(r) = "dropped" => Refused(r)
<1>1. PICK tests : tests = Tests(r)
  OBVIOUS
<1>2. Reads(tests, r)
  BY <1>1, EveryReaderReads
<1>3. /\ DOMAIN tests \in SUBSET Nat
      /\ \A i \in DOMAIN tests : tests[i].verdict \in {"malformed", "dropped"}
  BY <1>2 DEF Reads
<1>4. /\ Verdict(tests) \in {"offer", "malformed", "dropped"}
      /\ Verdict(tests) = "offer" => \A i \in DOMAIN tests : ~tests[i].holds
      /\ Verdict(tests) = "dropped" =>
            \E i \in DOMAIN tests :
               /\ tests[i].holds /\ tests[i].verdict = "dropped"
               /\ \A j \in DOMAIN tests : j < i => ~tests[j].holds
  BY <1>3, VerdictMeaning
<1>5. Reading(r) = Verdict(tests)
  BY <1>1 DEF Reading
<1>6. Verdict(tests) = "offer" => Sound(r)
  BY <1>2, <1>4 DEF Reads
<1>7. Verdict(tests) = "dropped" => Refused(r)
  BY <1>2, <1>4 DEF Reads
<1>. QED
  BY <1>4, <1>5, <1>6, <1>7

-----------------------------------------------------------------------------
(* The list *)

\* Each offer was made of a row that its reader let pass.
OffersAreOfRows ==
    \A o \in offers : \E r \in Rows : o = OfferOf(r) /\ Sound(r)

\* Rows are malformed, offers, or left out for a reason.
RowsAreAccountedFor ==
    /\ read \in Nat /\ malformed \in Nat /\ malformed =< read
    /\ malformed < read => offers # {} \/ reasons # {}
    /\ offers # {} => malformed < read

\* Items are rows or make their list unreadable, and only a leg that is of this
\* search has any.
ItemsAreAccountedFor ==
    /\ items \in Nat /\ read =< items
    /\ list \in {"empty", "odd", "rows"}
    /\ legs # "matched" => items = 0
    /\ list = "odd" => items > 0
    /\ list = "rows" => read > 0
    /\ unread => items > 0 /\ adapter = "flytoday_bus"
    /\ items > 0 => read > 0 \/ Unreadable
    /\ adapter # "flytoday_bus" /\ list # "rows" => read = 0

\* The answer is what the list amounts to.
AnswerFits ==
    /\ answer = "none" => ~NoLegFits /\ ~Unreadable /\ ~NoneReadable /\ offers = {}
    /\ answer = "unavailable" => NoLegFits \/ Unreadable \/ NoneReadable

\* The inductive invariant.
ListInv ==
    /\ adapter \in AllAdapters
    /\ OffersAreOfRows
    /\ RowsAreAccountedFor
    /\ ItemsAreAccountedFor
    /\ AnswerFits

\* A row that is read keeps the invariant, whichever reader reads it.
LEMMA ReadPreserves ==
    ASSUME ListInv, NEW r \in Rows, Read(r)
    PROVE  ListInv'
<1>1. /\ Reading(r) \in {"offer", "malformed", "dropped"}
      /\ Reading(r) = "offer" => Sound(r)
      /\ Reading(r) = "dropped" => Refused(r)
  BY ReadingMeaning DEF ListInv
<1>2. /\ adapter' = adapter /\ seatWish' = seatWish /\ answer' = answer /\ answer = ""
      /\ read' = read + 1 /\ items' = items + 1
      /\ legs' = legs /\ legs = "matched" /\ unread' = unread /\ list' = "rows"
      /\ malformed' = IF Reading(r) = "malformed" THEN malformed + 1 ELSE malformed
      /\ offers' = IF Reading(r) = "offer" THEN offers \cup {OfferOf(r)} ELSE offers
  BY DEF Read, More
<1>3. reasons \subseteq reasons' /\ (Reading(r) = "dropped" => reasons' # {})
  BY <1>1 DEF Read, Refused, ReasonsOf
<1>4. OffersAreOfRows'
  <2>1. \A o \in offers' : \E row \in Rows : o = OfferOf(row) /\ Sound(row)
    BY <1>1, <1>2 DEF ListInv, OffersAreOfRows
  <2>. QED
    BY <1>2, <2>1 DEF OffersAreOfRows, Sound
<1>5. RowsAreAccountedFor'
  <2>1. /\ read \in Nat /\ malformed \in Nat /\ malformed =< read
        /\ malformed < read => offers # {} \/ reasons # {}
        /\ offers # {} => malformed < read
    BY DEF ListInv, RowsAreAccountedFor
  <2>2. CASE Reading(r) = "malformed"
    <3>1. read' = read + 1 /\ malformed' = malformed + 1 /\ offers' = offers
      BY <1>2, <2>2
    <3>. QED
      BY <1>3, <2>1, <3>1 DEF RowsAreAccountedFor
  <2>3. CASE Reading(r) = "offer"
    <3>1. read' = read + 1 /\ malformed' = malformed /\ offers' # {}
      BY <1>2, <2>3
    <3>. QED
      BY <2>1, <3>1 DEF RowsAreAccountedFor
  <2>4. CASE Reading(r) = "dropped"
    <3>1. read' = read + 1 /\ malformed' = malformed /\ reasons' # {}
      BY <1>2, <1>3, <2>4
    <3>. QED
      BY <2>1, <3>1 DEF RowsAreAccountedFor
  <2>. QED
    BY <1>1, <2>2, <2>3, <2>4
<1>6. ItemsAreAccountedFor'
  <2>1. items \in Nat /\ read \in Nat /\ read =< items
    BY DEF ListInv, RowsAreAccountedFor, ItemsAreAccountedFor
  <2>2. items' \in Nat /\ read' =< items' /\ items' > 0 /\ read' > 0
    <3>1. items' = items + 1 /\ read' = read + 1
      BY <1>2
    <3>. QED
      BY <2>1, <3>1
  <2>3. unread' => adapter' = "flytoday_bus"
    BY <1>2 DEF ListInv, ItemsAreAccountedFor
  <2>. QED
    BY <1>2, <2>2, <2>3 DEF ItemsAreAccountedFor
<1>7. AnswerFits'
  BY <1>2 DEF AnswerFits
<1>. QED
  BY <1>2, <1>4, <1>5, <1>6, <1>7 DEF ListInv

\* What a step that reads no row leaves as it is.
LEMMA RowsStay ==
    ASSUME ListInv, UNCHANGED <<adapter, read, malformed, reasons, offers>>
    PROVE  adapter' \in AllAdapters /\ OffersAreOfRows' /\ RowsAreAccountedFor'
  BY DEF ListInv, OffersAreOfRows, RowsAreAccountedFor, Sound

\* A leg keeps the invariant: if the list before it was unreadable, that is
\* remembered.
LEMMA LegPreserves ==
    ASSUME ListInv, NEW kind \in {"odd", "mismatched", "matched"}, Leg(kind)
    PROVE  ListInv'
<1>1. /\ UNCHANGED <<adapter, items, read, malformed, reasons, offers, answer>>
      /\ answer = "" /\ adapter = "flytoday_bus"
  BY DEF Leg
<1>2. ItemsAreAccountedFor'
  <2>1. CASE kind = "matched"
    <3>1. legs' = "matched" /\ list' = "empty" /\ unread' = (unread \/ list = "odd")
      BY <2>1 DEF Leg, Unreadable
    <3>. QED
      BY <1>1, <3>1 DEF ListInv, ItemsAreAccountedFor, Unreadable
  <2>2. CASE kind # "matched"
    <3>1. list' = list /\ unread' = unread /\ (legs = "matched" => legs' = "matched")
      BY <2>2 DEF Leg
    <3>. QED
      BY <1>1, <3>1 DEF ListInv, ItemsAreAccountedFor, Unreadable
  <2>. QED
    BY <2>1, <2>2
<1>3. AnswerFits'
  BY <1>1 DEF AnswerFits
<1>. QED
  BY <1>1, <1>2, <1>3, RowsStay DEF ListInv

\* So does an item that is no object.
LEMMA SkipPreserves ==
    ASSUME ListInv, Skip
    PROVE  ListInv'
<1>1. /\ UNCHANGED <<adapter, legs, unread, read, malformed, reasons, offers, answer>>
      /\ answer = "" /\ legs = "matched" /\ items' = items + 1
      /\ list' = IF list = "empty" THEN "odd" ELSE list
  BY DEF Skip, More
<1>2. ItemsAreAccountedFor'
  <2>1. items \in Nat /\ read \in Nat /\ read =< items
    BY DEF ListInv, RowsAreAccountedFor, ItemsAreAccountedFor
  <2>2. items' \in Nat /\ read' =< items' /\ items' > 0
    <3>1. items' = items + 1 /\ read' = read
      BY <1>1
    <3>. QED
      BY <2>1, <3>1
  <2>3. /\ list' \in {"empty", "odd", "rows"}
        /\ list' = "rows" => read' > 0
        /\ unread' => adapter' = "flytoday_bus"
        /\ adapter' # "flytoday_bus" /\ list' # "rows" => read' = 0
    BY <1>1 DEF ListInv, ItemsAreAccountedFor
  <2>4. read' > 0 \/ Unreadable'
    <3>1. CASE list = "rows"
      BY <1>1, <3>1 DEF ListInv, ItemsAreAccountedFor
    <3>2. CASE list # "rows" /\ items = 0
      <4>1. list' = "odd" \/ list \notin {"empty", "odd", "rows"}
        BY <1>1, <3>2
      <4>. QED
        BY <4>1 DEF ListInv, ItemsAreAccountedFor, Unreadable
    <3>3. CASE list # "rows" /\ items > 0
      <4>1. read > 0 \/ unread \/ list = "odd"
        BY <3>3 DEF ListInv, ItemsAreAccountedFor, Unreadable
      <4>2. list = "odd" => list' = "odd"
        BY <1>1
      <4>. QED
        BY <1>1, <4>1, <4>2 DEF Unreadable
    <3>. QED
      BY <2>1, <3>1, <3>2, <3>3
  <2>. QED
    BY <1>1, <2>2, <2>3, <2>4 DEF ItemsAreAccountedFor
<1>3. AnswerFits'
  BY <1>1 DEF AnswerFits
<1>. QED
  BY <1>1, <1>2, <1>3, RowsStay DEF ListInv

\* And the answer is what the list amounts to.
LEMMA FinishPreserves ==
    ASSUME ListInv, Finish
    PROVE  ListInv'
<1>1. UNCHANGED <<adapter, legs, list, unread, items, read, malformed, reasons, offers>>
  BY DEF Finish, legVars
<1>2. ItemsAreAccountedFor'
  BY <1>1 DEF ListInv, ItemsAreAccountedFor, Unreadable
<1>3. AnswerFits'
  BY <1>1 DEF Finish, AnswerFits, NoLegFits, Unreadable, NoneReadable
<1>. QED
  BY <1>1, <1>2, <1>3, RowsStay DEF ListInv

\* The invariant holds throughout, whatever rows a provider mixes.
THEOREM ListInvariance == ListSpec => []ListInv
<1>1. ListInit => ListInv
  <2>. SUFFICES ASSUME ListInit PROVE ListInv
    OBVIOUS
  <2>1. adapter \in AllAdapters
    BY DEF ListInit, AllAdapters
  <2>2. OffersAreOfRows
    BY DEF ListInit, OffersAreOfRows
  <2>3. RowsAreAccountedFor
    <3>1. read = 0 /\ malformed = 0 /\ offers = {}
      BY DEF ListInit
    <3>. QED
      BY <3>1 DEF RowsAreAccountedFor
  <2>4. ItemsAreAccountedFor
    <3>1. items = 0 /\ read = 0 /\ list = "empty" /\ unread = FALSE
      BY DEF ListInit
    <3>. QED
      BY <3>1 DEF ItemsAreAccountedFor, Unreadable
  <2>5. AnswerFits
    <3>1. answer = ""
      BY DEF ListInit
    <3>. QED
      BY <3>1 DEF AnswerFits
  <2>. QED
    BY <2>1, <2>2, <2>3, <2>4, <2>5 DEF ListInv
<1>2. ListInv /\ [ListNext]_listVars => ListInv'
  <2>. SUFFICES ASSUME ListInv, [ListNext]_listVars PROVE ListInv'
    OBVIOUS
  <2>1. ASSUME NEW r \in Rows, Read(r) PROVE ListInv'
    BY <2>1, ReadPreserves
  <2>2. ASSUME NEW kind \in {"odd", "mismatched", "matched"}, Leg(kind) PROVE ListInv'
    BY <2>2, LegPreserves
  <2>3. CASE Skip
    BY <2>3, SkipPreserves
  <2>4. CASE Finish
    BY <2>4, FinishPreserves
  <2>5. CASE Done \/ UNCHANGED listVars
    <3>1. UNCHANGED <<adapter, legs, list, unread, items, read, malformed, reasons, offers, answer>>
      BY <2>5 DEF Done, listVars, legVars
    <3>2. ItemsAreAccountedFor'
      BY <3>1 DEF ListInv, ItemsAreAccountedFor, Unreadable
    <3>3. AnswerFits'
      BY <3>1 DEF ListInv, AnswerFits, NoLegFits, Unreadable, NoneReadable
    <3>. QED
      BY <3>1, <3>2, <3>3, RowsStay DEF ListInv
  <2>. QED
    BY <2>1, <2>2, <2>3, <2>4, <2>5 DEF ListNext
<1>. QED
  BY <1>1, <1>2, PTL DEF ListSpec

\* Every offer that a search keeps is for the day and the route asked for, of
\* the kind asked for, with a price, and never of a vehicle known to have too
\* few seats, whatever the provider mixed into its list.
THEOREM OffersAreAlwaysSound == ListSpec => []OffersAreSound
<1>1. ListInv => OffersAreSound
  <2>. SUFFICES ASSUME ListInv, NEW o \in OnSale
                PROVE  /\ adapter \in TrustsDay \/ o.when = "day"
                       /\ adapter \in TrustsRoute \/ o.route = "same"
                       /\ adapter \in FlightAdapters \cup {"snapptrip_train", "mrbilit_train"} => o.fits
                       /\ o.fare = "known"
                       /\ o.seats \notin {"few", "none", "negative"}
    BY DEF OffersAreSound
  <2>1. o \in offers /\ o.fare = "known" /\ o.seats \in {"enough", "fraction", "unknown"}
    BY DEF OnSale
  <2>2. PICK r \in Rows : o = OfferOf(r) /\ Sound(r)
    BY <2>1 DEF ListInv, OffersAreOfRows
  <2>3. o.when = r.when /\ o.route = r.route /\ o.fits = r.fits
    BY <2>2 DEF OfferOf
  <2>. QED
    BY <2>1, <2>2, <2>3 DEF Sound
<1>. QED
  BY <1>1, ListInvariance, PTL

\* "No offers" is said of legs or rows only where a row was dropped for a
\* reason, and "unavailable" only where not one row could be read, or a whole
\* leg's list of FlyToday's could not.
THEOREM AnswerIsAlwaysHonest == ListSpec => []AnswerIsHonest
<1>1. ListInv => AnswerIsHonest
  <2>. SUFFICES ASSUME ListInv PROVE AnswerIsHonest
    OBVIOUS
  <2>1. /\ read \in Nat /\ malformed \in Nat /\ malformed =< read
        /\ malformed < read => offers # {} \/ reasons # {}
    BY DEF ListInv, RowsAreAccountedFor
  <2>2. /\ items \in Nat /\ read =< items
        /\ legs # "matched" => items = 0
        /\ list = "odd" => items > 0
        /\ unread => items > 0 /\ adapter = "flytoday_bus"
        /\ items > 0 => read > 0 \/ Unreadable
        /\ adapter # "flytoday_bus" /\ list # "rows" => read = 0
    BY DEF ListInv, ItemsAreAccountedFor
  <2>3. ASSUME answer = "none", items > 0 \/ NoLegFits PROVE reasons # {}
    <3>1. ~NoLegFits /\ ~Unreadable /\ ~NoneReadable /\ offers = {}
      BY <2>3 DEF ListInv, AnswerFits
    <3>2. read > 0 /\ malformed < read
      BY <2>1, <2>2, <2>3, <3>1 DEF NoneReadable
    <3>. QED
      BY <2>1, <3>1, <3>2
  <2>4. ASSUME answer = "unavailable"
        PROVE  (items > 0 \/ NoLegFits) /\ (malformed = read \/ LegUnreadable)
    <3>1. NoLegFits \/ Unreadable \/ NoneReadable
      BY <2>4 DEF ListInv, AnswerFits
    <3>2. CASE NoLegFits
      BY <2>1, <2>2, <3>2 DEF NoLegFits
    <3>3. CASE Unreadable
      BY <2>1, <2>2, <3>3 DEF Unreadable, LegUnreadable
    <3>4. CASE NoneReadable
      BY <2>1, <2>2, <3>4 DEF NoneReadable
    <3>. QED
      BY <3>1, <3>2, <3>3, <3>4
  <2>. QED
    BY <2>3, <2>4 DEF AnswerIsHonest
<1>. QED
  BY <1>1, ListInvariance, PTL

-----------------------------------------------------------------------------
(* Suggestions: lines of things that know what is ahead of them *)

\* A line of finitely many things that are ordered has each of them once, in
\* order.
LEMMA LinedEffect ==
    ASSUME NEW K, IsFiniteSet(K), NEW ahead \in [K -> SUBSET K],
           \A i \in K : i \notin ahead[i],
           \A i, j \in K : i # j => i \in ahead[j] \/ j \in ahead[i],
           \A i, j \in K : i \in ahead[j] => ahead[i] \subseteq ahead[j]
    PROVE  LET line == Lined(ahead) IN
           /\ Cardinality(K) \in Nat
           /\ line \in [1 .. Cardinality(K) -> K]
           /\ \A i \in K : \E n \in 1 .. Cardinality(K) : line[n] = i
           /\ \A m, n \in 1 .. Cardinality(K) : m < n => line[m] \in ahead[line[n]]
<1>. DEFINE size == Cardinality(K)
            rank == [i \in K |-> Cardinality(ahead[i]) + 1]
            line == Lined(ahead)
<1>1. size \in Nat
  BY FS_CardinalityType
<1>2. ASSUME NEW i \in K
      PROVE  IsFiniteSet(ahead[i]) /\ Cardinality(ahead[i]) \in Nat /\ Cardinality(ahead[i]) < size
  <2>1. ahead[i] \in SUBSET K /\ ahead[i] # K
    OBVIOUS
  <2>2. IsFiniteSet(ahead[i]) /\ Cardinality(ahead[i]) =< size /\ Cardinality(ahead[i]) # size
    BY <2>1, FS_Subset
  <2>. QED
    BY <1>1, <2>2, FS_CardinalityType
<1>3. ASSUME NEW i \in K, NEW j \in K, i \in ahead[j]
      PROVE  Cardinality(ahead[i]) < Cardinality(ahead[j])
  <2>1. ahead[i] \in SUBSET ahead[j] /\ ahead[i] # ahead[j]
    BY <1>3
  <2>2. Cardinality(ahead[i]) =< Cardinality(ahead[j]) /\ Cardinality(ahead[i]) # Cardinality(ahead[j])
    BY <1>2, <2>1, FS_Subset
  <2>. QED
    BY <1>2, <2>2
<1>4. rank \in [K -> 1 .. size]
  BY <1>1, <1>2
<1>5. \A i, j \in K : i \in ahead[j] => rank[i] < rank[j]
  BY <1>2, <1>3
<1>6. \A i \in K : Cardinality(ahead[i]) = rank[i] - 1 /\ rank[i] \in 1 .. size
  BY <1>2, <1>4
<1>7. line = [n \in 1 .. size |-> CHOOSE i \in K : Cardinality(ahead[i]) = n - 1]
  BY DEF Lined
<1>. HIDE DEF rank, line
<1>8. \A i, j \in K : rank[i] = rank[j] => i = j
  BY <1>4, <1>5
<1>9. \A n \in 1 .. size : \E i \in K : rank[i] = n
  <2>1. IsFiniteSet(1 .. size) /\ Cardinality(1 .. size) = size
    BY <1>1, FS_Interval
  <2>2. rank \in Injection(K, 1 .. size)
    BY <1>4, <1>8 DEF Injection, IsInjective
  <2>3. rank \in Surjection(K, 1 .. size)
    BY <2>1, <2>2, FS_Injection
  <2>. QED
    BY <2>3 DEF Surjection
<1>10. ASSUME NEW n \in 1 .. size PROVE line[n] \in K /\ rank[line[n]] = n
  <2>1. \E i \in K : Cardinality(ahead[i]) = n - 1
    BY <1>6, <1>9
  <2>2. line[n] \in K /\ Cardinality(ahead[line[n]]) = n - 1
    BY <1>7, <2>1
  <2>. QED
    BY <1>1, <1>6, <2>2
<1>11. line \in [1 .. size -> K]
  BY <1>7, <1>10
<1>12. \A i \in K : \E n \in 1 .. size : line[n] = i
  BY <1>4, <1>8, <1>10
<1>13. ASSUME NEW m \in 1 .. size, NEW n \in 1 .. size, m < n PROVE line[m] \in ahead[line[n]]
  <2>1. line[m] \in K /\ line[n] \in K /\ rank[line[m]] = m /\ rank[line[n]] = n
    BY <1>10
  <2>2. line[m] # line[n]
    BY <1>1, <1>13, <2>1
  <2>3. ~(line[n] \in ahead[line[m]])
    BY <1>1, <1>5, <1>13, <2>1
  <2>. QED
    BY <2>1, <2>2, <2>3
<1>. QED
  BY <1>1, <1>11, <1>12, <1>13 DEF line

-----------------------------------------------------------------------------
(* Places in order *)

\* What suggestions are made from.
Named == [name : Names, popular : BOOLEAN]

PlaceRow == [name : Names, code : Nat, popular : BOOLEAN, kind : {"good", "skipped", "unfit"}]

\* What has a place in the order: a place, or a suggestion.
Ordered(a) == a.name \in Names /\ a.popular \in BOOLEAN

LEMMA RankType == ASSUME NEW name \in Names PROVE Rank(name) \in Nat /\ name \in Nat
<1>1. name \in Nat /\ Match[name] \in 0 .. 3
  BY LocationAssumption DEF LocationAssumption
<1>2. CASE text = "" \/ Match[name] = 3
  BY <1>1, <1>2 DEF Rank
<1>3. CASE ~(text = "" \/ Match[name] = 3)
  <2>1. Rank(name) = Match[name]
    BY <1>3 DEF Rank
  <2>. QED
    BY <1>1, <2>1
<1>. QED
  BY <1>2, <1>3

\* The parts of a key.
Part(order, a, i) == Key(order, a)[i]

LEMMA KeyParts ==
    ASSUME NEW order, NEW a, Ordered(a)
    PROVE  /\ Part(order, a, 1) \in Nat /\ Part(order, a, 2) \in Nat /\ Part(order, a, 3) \in Nat
           /\ Part(order, a, 3) = a.name
           /\ order \in {"match", "matchPopular"} => Part(order, a, 1) = Rank(a.name)
           /\ Key(order, a) = <<Part(order, a, 1), Part(order, a, 2), Part(order, a, 3)>>
BY RankType DEF Part, Key, Unless, Ordered

\* The order of two places, part by part.
LEMMA KeyOrder ==
    ASSUME NEW order, NEW a, NEW b, Ordered(a), Ordered(b)
    PROVE  /\ Key(order, a) = Key(order, b) <=> \A i \in 1 .. 3 : Part(order, a, i) = Part(order, b, i)
           /\ Smaller(Key(order, a), Key(order, b))
              <=> \/ Part(order, a, 1) < Part(order, b, 1)
                  \/ /\ Part(order, a, 1) = Part(order, b, 1)
                     /\ Part(order, a, 2) < Part(order, b, 2)
                  \/ /\ Part(order, a, 1) = Part(order, b, 1)
                     /\ Part(order, a, 2) = Part(order, b, 2)
                     /\ Part(order, a, 3) < Part(order, b, 3)
<1>. DEFINE k == Key(order, a)
            l == Key(order, b)
            x == Part(order, a, 1)
            y == Part(order, a, 2)
            z == Part(order, a, 3)
            u == Part(order, b, 1)
            v == Part(order, b, 2)
            w == Part(order, b, 3)
<1>1. /\ x \in Nat /\ y \in Nat /\ z \in Nat /\ k = <<x, y, z>>
      /\ u \in Nat /\ v \in Nat /\ w \in Nat /\ l = <<u, v, w>>
  BY KeyParts, Zenon
<1>2. k = l <=> \A i \in 1 .. 3 : Part(order, a, i) = Part(order, b, i)
  <2>1. k = l <=> x = u /\ y = v /\ z = w
    <3>. HIDE DEF k, l, x, y, z, u, v, w
    <3>. QED
      BY <1>1
  <2>2. 1 .. 3 = {1, 2, 3}
    OBVIOUS
  <2>. QED
    BY <2>1, <2>2, Zenon
<1>3. Smaller(k, l) <=> x < u \/ (x = u /\ y < v) \/ (x = u /\ y = v /\ z < w)
  <2>. HIDE DEF k, l, x, y, z, u, v, w
  <2>1. k[1] = x /\ k[2] = y /\ k[3] = z /\ l[1] = u /\ l[2] = v /\ l[3] = w
    BY <1>1
  <2>2. <<x, y, z>> \in Seq(Nat)
    BY <1>1
  <2>3. Len(<<x, y, z>>) = 3
    OBVIOUS
  <2>4. DOMAIN k = 1 .. 3
    BY <1>1, <2>2, <2>3
  <2>5. Smaller(k, l) <=> \E i \in 1 .. 3 : k[i] < l[i] /\ \A j \in 1 .. (i - 1) : k[j] = l[j]
    BY <2>4 DEF Smaller
  <2>. QED
    BY <2>1, <2>5
<1>. QED
  BY <1>2, <1>3

LEMMA SmallerOrder ==
    ASSUME NEW order, NEW a, NEW b, NEW c, Ordered(a), Ordered(b), Ordered(c)
    PROVE  /\ ~Smaller(Key(order, a), Key(order, a))
           /\ Smaller(Key(order, a), Key(order, b)) /\ Smaller(Key(order, b), Key(order, c))
              => Smaller(Key(order, a), Key(order, c))
           /\ \/ Smaller(Key(order, a), Key(order, b))
              \/ Smaller(Key(order, b), Key(order, a))
              \/ Key(order, a) = Key(order, b)
           /\ Key(order, a) = Key(order, b) => a.name = b.name
           /\ order \in {"match", "matchPopular"} /\ Smaller(Key(order, a), Key(order, b))
              => Rank(a.name) <= Rank(b.name)
<1>. DEFINE ka == Key(order, a)
            kb == Key(order, b)
            kc == Key(order, c)
            a1 == Part(order, a, 1)
            a2 == Part(order, a, 2)
            a3 == Part(order, a, 3)
            b1 == Part(order, b, 1)
            b2 == Part(order, b, 2)
            b3 == Part(order, b, 3)
            c1 == Part(order, c, 1)
            c2 == Part(order, c, 2)
            c3 == Part(order, c, 3)
            Precedes(x1, x2, x3, y1, y2, y3) ==
                x1 < y1 \/ (x1 = y1 /\ x2 < y2) \/ (x1 = y1 /\ x2 = y2 /\ x3 < y3)
<1>1. /\ a1 \in Nat /\ a2 \in Nat /\ a3 \in Nat
      /\ b1 \in Nat /\ b2 \in Nat /\ b3 \in Nat
      /\ c1 \in Nat /\ c2 \in Nat /\ c3 \in Nat
      /\ a3 = a.name /\ b3 = b.name
      /\ order \in {"match", "matchPopular"} => a1 = Rank(a.name) /\ b1 = Rank(b.name)
  BY KeyParts, Zenon
<1>2. ka = kb <=> (a1 = b1 /\ a2 = b2 /\ a3 = b3)
  <2>1. 1 .. 3 = {1, 2, 3}
    OBVIOUS
  <2>2. ka = kb <=> \A i \in {1, 2, 3} : Part(order, a, i) = Part(order, b, i)
    BY <2>1, KeyOrder, Zenon
  <2>. QED
    BY <2>2, Zenon
<1>3. /\ Smaller(ka, ka) <=> Precedes(a1, a2, a3, a1, a2, a3)
      /\ Smaller(ka, kb) <=> Precedes(a1, a2, a3, b1, b2, b3)
      /\ Smaller(kb, ka) <=> Precedes(b1, b2, b3, a1, a2, a3)
      /\ Smaller(kb, kc) <=> Precedes(b1, b2, b3, c1, c2, c3)
      /\ Smaller(ka, kc) <=> Precedes(a1, a2, a3, c1, c2, c3)
  BY KeyOrder, Zenon
<1>4. /\ ~Precedes(a1, a2, a3, a1, a2, a3)
      /\ Precedes(a1, a2, a3, b1, b2, b3) /\ Precedes(b1, b2, b3, c1, c2, c3)
         => Precedes(a1, a2, a3, c1, c2, c3)
      /\ \/ Precedes(a1, a2, a3, b1, b2, b3)
         \/ Precedes(b1, b2, b3, a1, a2, a3)
         \/ a1 = b1 /\ a2 = b2 /\ a3 = b3
      /\ Precedes(a1, a2, a3, b1, b2, b3) => a1 <= b1
  <2>1. /\ a1 \in Nat /\ a2 \in Nat /\ a3 \in Nat
        /\ b1 \in Nat /\ b2 \in Nat /\ b3 \in Nat
        /\ c1 \in Nat /\ c2 \in Nat /\ c3 \in Nat
    BY <1>1, Zenon
  <2>. HIDE DEF a1, a2, a3, b1, b2, b3, c1, c2, c3
  <2>. QED
    BY <2>1
<1>. HIDE DEF Precedes, a1, a2, a3, b1, b2, b3, c1, c2, c3
<1>. QED
  BY <1>1, <1>2, <1>3, <1>4, Zenon

\* Places of one name each are in order, and each has its place there.
LEMMA SortedSetEffect ==
    ASSUME NEW order, NEW places, IsFiniteSet(places), \A a \in places : Ordered(a),
           \A a, b \in places : a.name = b.name => a = b
    PROVE  LET s == SortedSet(order, places) IN
           /\ Cardinality(places) \in Nat
           /\ s \in [1 .. Cardinality(places) -> places]
           /\ \A a \in places : \E n \in 1 .. Cardinality(places) : s[n] = a
           /\ \A m, n \in 1 .. Cardinality(places) :
                 m < n => Smaller(Key(order, s[m]), Key(order, s[n]))
<1>. DEFINE ahead == [b \in places |-> {a \in places : Smaller(Key(order, a), Key(order, b))}]
<1>1. ahead \in [places -> SUBSET places]
  OBVIOUS
<1>2. \A a, b \in places : a \in ahead[b] <=> Smaller(Key(order, a), Key(order, b))
  OBVIOUS
<1>3. SortedSet(order, places) = Lined(ahead)
  BY DEF SortedSet
<1>. HIDE DEF ahead
<1>4. \A a \in places : a \notin ahead[a]
  BY <1>2, SmallerOrder
<1>5. ASSUME NEW a \in places, NEW b \in places, a # b PROVE a \in ahead[b] \/ b \in ahead[a]
  <2>1. Ordered(a) /\ Ordered(b) /\ a.name # b.name
    BY <1>5
  <2>. QED
    BY <1>2, <2>1, SmallerOrder
<1>6. ASSUME NEW a \in places, NEW b \in places, a \in ahead[b] PROVE ahead[a] \subseteq ahead[b]
  <2>1. ASSUME NEW c \in ahead[a] PROVE c \in ahead[b]
    <3>1. c \in places
      BY <1>1
    <3>2. Smaller(Key(order, c), Key(order, a)) /\ Smaller(Key(order, a), Key(order, b))
      BY <1>2, <1>6, <2>1, <3>1
    <3>. QED
      BY <1>2, <3>1, <3>2, SmallerOrder
  <2>. QED
    BY <2>1
<1>7. LET line == Lined(ahead) IN
      /\ Cardinality(places) \in Nat
      /\ line \in [1 .. Cardinality(places) -> places]
      /\ \A i \in places : \E n \in 1 .. Cardinality(places) : line[n] = i
      /\ \A m, n \in 1 .. Cardinality(places) : m < n => line[m] \in ahead[line[n]]
  BY <1>1, <1>4, <1>5, <1>6, LinedEffect
<1>. QED
  BY <1>2, <1>3, <1>7

\* A sequence in order has what it had, and nothing is ahead of what is smaller.
LEMMA SortedEffect ==
    ASSUME NEW order, NEW places \in Seq(Named)
    PROVE  LET s == Sorted(order, places) IN
           /\ s \in Seq(Named)
           /\ \A n \in DOMAIN s : \E i \in DOMAIN places : s[n] = places[i]
           /\ \A i \in DOMAIN places : \E n \in DOMAIN s : s[n] = places[i]
           /\ order # "given" =>
                 \A m, n \in DOMAIN s : m < n => ~Smaller(Key(order, s[n]), Key(order, s[m]))
<1>. DEFINE Before(i, j) == \/ Smaller(Key(order, places[i]), Key(order, places[j]))
                            \/ Key(order, places[i]) = Key(order, places[j]) /\ i < j
            ahead == [j \in DOMAIN places |-> {i \in DOMAIN places : Before(i, j)}]
            s == Sorted(order, places)
<1>1. CASE order = "given"
  <2>1. s = places
    BY <1>1 DEF Sorted
  <2>. QED
    BY <1>1, <2>1
<1>2. CASE order # "given"
  <2>1. s = Along(Lined(ahead), places)
    BY <1>2 DEF Sorted
  <2>2. DOMAIN places = 1 .. Len(places) /\ Len(places) \in Nat /\ DOMAIN places \subseteq Int
    OBVIOUS
  <2>3. IsFiniteSet(DOMAIN places)
    BY <2>2, FS_Interval
  <2>4. \A i \in DOMAIN places : places[i] \in Named /\ Ordered(places[i])
    <3>1. \A i \in DOMAIN places : places[i] \in Named
      BY <2>2
    <3>. QED
      BY <3>1 DEF Named, Ordered
  <2>5. ahead \in [DOMAIN places -> SUBSET DOMAIN places]
    OBVIOUS
  <2>6. \A i, j \in DOMAIN places : i \in ahead[j] <=> Before(i, j)
    OBVIOUS
  <2>. HIDE DEF ahead, s
  <2>7. \A i \in DOMAIN places : i \notin ahead[i]
    <3>1. ASSUME NEW i \in DOMAIN places PROVE ~Before(i, i)
      <4>1. ~Smaller(Key(order, places[i]), Key(order, places[i]))
        BY <2>4, SmallerOrder, Zenon
      <4>2. ~(i < i)
        BY <2>2
      <4>. QED
        BY <4>1, <4>2, Zenon
    <3>. QED
      BY <2>6, <3>1
  <2>8. ASSUME NEW i \in DOMAIN places, NEW j \in DOMAIN places, i # j
        PROVE  i \in ahead[j] \/ j \in ahead[i]
    <3>1. \/ Smaller(Key(order, places[i]), Key(order, places[j]))
          \/ Smaller(Key(order, places[j]), Key(order, places[i]))
          \/ Key(order, places[i]) = Key(order, places[j])
      BY <2>4, SmallerOrder
    <3>2. i < j \/ j < i
      BY <2>2, <2>8
    <3>. QED
      BY <2>6, <3>1, <3>2
  <2>9. ASSUME NEW i \in DOMAIN places, NEW j \in DOMAIN places, i \in ahead[j]
        PROVE  ahead[i] \subseteq ahead[j]
    <3>1. ASSUME NEW k \in ahead[i] PROVE k \in ahead[j]
      <4>1. k \in DOMAIN places
        BY <2>5
      <4>2. Before(k, i) /\ Before(i, j)
        BY <2>6, <2>9, <3>1, <4>1
      <4>3. k \in Int /\ i \in Int /\ j \in Int
        BY <2>2, <4>1
      <4>4. Smaller(Key(order, places[k]), Key(order, places[i])) /\
            Smaller(Key(order, places[i]), Key(order, places[j]))
            => Smaller(Key(order, places[k]), Key(order, places[j]))
        BY <2>4, <4>1, SmallerOrder
      <4>5. Before(k, j)
        BY <4>2, <4>3, <4>4
      <4>. QED
        BY <2>6, <4>1, <4>5
    <3>. QED
      BY <3>1
  <2>. DEFINE size == Cardinality(DOMAIN places)
              line == Lined(ahead)
  <2>10. /\ size \in Nat
         /\ line \in [1 .. size -> DOMAIN places]
         /\ \A i \in DOMAIN places : \E n \in 1 .. size : line[n] = i
         /\ \A m, n \in 1 .. size : m < n => line[m] \in ahead[line[n]]
    BY <2>3, <2>5, <2>7, <2>8, <2>9, LinedEffect
  <2>. HIDE DEF size, line
  <2>11. s = [n \in 1 .. size |-> places[line[n]]]
    BY <2>1, <2>10 DEF Along, line
  <2>12. s \in [1 .. size -> Named]
    BY <2>4, <2>10, <2>11
  <2>13. s \in Seq(Named) /\ DOMAIN s = 1 .. size
    BY <2>10, <2>12, SeqDef
  <2>14. \A n \in DOMAIN s : \E i \in DOMAIN places : s[n] = places[i]
    BY <2>10, <2>11, <2>13
  <2>15. \A i \in DOMAIN places : \E n \in DOMAIN s : s[n] = places[i]
    BY <2>10, <2>11, <2>13
  <2>16. ASSUME NEW m \in DOMAIN s, NEW n \in DOMAIN s, m < n
         PROVE  ~Smaller(Key(order, s[n]), Key(order, s[m]))
    <3>1. /\ line[m] \in DOMAIN places /\ line[n] \in DOMAIN places
          /\ s[m] = places[line[m]] /\ s[n] = places[line[n]]
      BY <2>10, <2>11, <2>13
    <3>2. Before(line[m], line[n])
      BY <2>6, <2>10, <2>13, <2>16, <3>1
    <3>3. \/ Smaller(Key(order, s[m]), Key(order, s[n]))
          \/ Key(order, s[m]) = Key(order, s[n])
      BY <3>1, <3>2
    <3>4. Ordered(s[m]) /\ Ordered(s[n])
      BY <2>4, <3>1
    <3>. QED
      BY <3>3, <3>4, SmallerOrder
  <2>. QED
    BY <2>13, <2>14, <2>15, <2>16 DEF s
<1>. QED
  BY <1>1, <1>2

-----------------------------------------------------------------------------
(* Suggestions: what an adapter makes of rows *)

\* The first few of a sequence are its beginning.
LEMMA FirstOfEffect ==
    ASSUME NEW S, NEW s \in Seq(S), NEW n \in Nat
    PROVE  /\ FirstOf(s, n) \in Seq(S)
           /\ Len(FirstOf(s, n)) = (IF Len(s) < n THEN Len(s) ELSE n)
           /\ DOMAIN FirstOf(s, n) = 1 .. Len(FirstOf(s, n))
           /\ DOMAIN FirstOf(s, n) \subseteq DOMAIN s
           /\ \A i \in DOMAIN FirstOf(s, n) : FirstOf(s, n)[i] = s[i]
<1>. DEFINE m == IF Len(s) < n THEN Len(s) ELSE n
<1>1. Len(s) \in Nat /\ DOMAIN s = 1 .. Len(s) /\ m \in Nat /\ m <= Len(s)
  OBVIOUS
<1>2. FirstOf(s, n) = SubSeq(s, 1, m)
  BY DEF FirstOf
<1>. HIDE DEF m
<1>3. \A i \in 1 .. m : s[i] \in S
  BY <1>1
<1>4. /\ SubSeq(s, 1, m) \in Seq(S)
      /\ Len(SubSeq(s, 1, m)) = m
      /\ \A i \in 1 .. m : SubSeq(s, 1, m)[i] = s[i]
  BY <1>1
<1>5. DOMAIN FirstOf(s, n) = 1 .. m
  BY <1>1, <1>2, <1>4
<1>. QED
  BY <1>1, <1>2, <1>4, <1>5 DEF m

\* Of the rows of a provider some are kept.
LEMMA KeptEffect ==
    ASSUME NEW source, NEW rows \in Seq(PlaceRow)
    PROVE  Kept(source, rows) \in Seq(PlaceRow)
<1>. DEFINE passing == {i \in DOMAIN rows : Passes(source, rows[i])}
            chosen == {i \in passing : source.once =>
                                        \A j \in passing : j < i => rows[j].code # rows[i].code}
            ahead == [i \in chosen |-> {j \in chosen : j < i}]
<1>1. DOMAIN rows = 1 .. Len(rows) /\ Len(rows) \in Nat
  OBVIOUS
<1>2. chosen \subseteq DOMAIN rows /\ chosen \subseteq Int
  BY <1>1
<1>3. IsFiniteSet(chosen)
  <2>1. IsFiniteSet(DOMAIN rows)
    BY <1>1, FS_Interval
  <2>. QED
    BY <1>2, <2>1, FS_Subset
<1>4. Kept(source, rows) = Along(Lined(ahead), rows)
  BY DEF Kept
<1>. HIDE DEF passing, chosen
<1>5. /\ ahead \in [chosen -> SUBSET chosen]
      /\ \A i, j \in chosen : i \in ahead[j] <=> i < j
  OBVIOUS
<1>. DEFINE line == Lined(ahead)
<1>. HIDE DEF ahead
<1>6. /\ \A i \in chosen : i \notin ahead[i]
      /\ \A i, j \in chosen : i # j => i \in ahead[j] \/ j \in ahead[i]
      /\ \A i, j \in chosen : i \in ahead[j] => ahead[i] \subseteq ahead[j]
  BY <1>2, <1>5
<1>7. Cardinality(chosen) \in Nat /\ line \in [1 .. Cardinality(chosen) -> chosen]
  BY <1>3, <1>5, <1>6, LinedEffect
<1>. DEFINE size == Cardinality(chosen)
<1>. HIDE DEF size, line
<1>8. size \in Nat /\ line \in [1 .. size -> DOMAIN rows]
  BY <1>2, <1>7 DEF size
<1>9. Along(line, rows) = [n \in 1 .. size |-> rows[line[n]]]
  BY <1>8 DEF Along
<1>10. \A i \in DOMAIN rows : rows[i] \in PlaceRow
  BY <1>1
<1>11. Along(line, rows) \in [1 .. size -> PlaceRow]
  BY <1>8, <1>9, <1>10
<1>. QED
  BY <1>4, <1>8, <1>11, SeqDef DEF line

\* An adapter keeps the order of the rows or looks at all of them.
LEMMA TakenEffect ==
    ASSUME NEW source, NEW rows \in Seq(PlaceRow), limit \in Nat
    PROVE  /\ Taken(source, rows) \in Seq(PlaceRow)
           /\ NamesOf(Taken(source, rows)) \subseteq NamesOf(Kept(source, rows))
           /\ source.order # "given" => Taken(source, rows) = Kept(source, rows)
<1>1. Kept(source, rows) \in Seq(PlaceRow)
  BY KeptEffect
<1>2. CASE source.order = "given"
  BY <1>1, <1>2, FirstOfEffect DEF Taken, NamesOf
<1>3. CASE source.order # "given"
  BY <1>1, <1>3 DEF Taken
<1>. QED
  BY <1>2, <1>3

\* A row makes a place of the same name.
LEMMA PlacedEffect ==
    ASSUME NEW source, source.popular \in {"always", "never", "row"},
           NEW rows \in Seq(PlaceRow)
    PROVE  /\ Placed(source, rows) \in Seq(Named)
           /\ NamesOf(Placed(source, rows)) = NamesOf(rows)
<1>. DEFINE s == Placed(source, rows)
<1>1. DOMAIN rows = 1 .. Len(rows) /\ Len(rows) \in Nat
  OBVIOUS
<1>2. \A i \in 1 .. Len(rows) : rows[i] \in PlaceRow
  OBVIOUS
<1>3. \A i \in 1 .. Len(rows) : rows[i].name \in Names /\ rows[i].popular \in BOOLEAN
  BY <1>2 DEF PlaceRow
<1>4. DOMAIN s = 1 .. Len(rows)
  BY DEF Placed
<1>5. ASSUME NEW i \in 1 .. Len(rows) PROVE s[i] \in Named /\ s[i].name = rows[i].name
  <2>. DEFINE popular == CASE source.popular = "always" -> TRUE
                           [] source.popular = "never"  -> FALSE
                           [] source.popular = "row"    -> rows[i].popular
  <2>1. s[i] = [name |-> rows[i].name, popular |-> popular]
    BY DEF Placed
  <2>2. popular \in BOOLEAN
    BY <1>3
  <2>. HIDE DEF s, popular
  <2>. QED
    BY <1>3, <2>1, <2>2 DEF Named
<1>6. s \in Seq(Named)
  <2>1. s \in [1 .. Len(rows) -> Named]
    BY <1>4, <1>5 DEF Placed
  <2>. QED
    BY <1>1, <2>1, SeqDef
<1>7. NamesOf(s) = NamesOf(rows)
  <2>. HIDE DEF s
  <2>. QED
    BY <1>1, <1>4, <1>5 DEF NamesOf
<1>. QED
  BY <1>6, <1>7

\* Nobody but the name itself matches it.
LEMMA OneMatches ==
    ASSUME NEW m \in Names, NEW n \in Names, Rank(m) <= Rank(n), Rank(n) = 0
    PROVE  m = n
<1>1. Rank(m) = 0
  BY RankType
<1>2. ASSUME NEW name \in Names, Rank(name) = 0 PROVE Match[name] = 0
  <2>1. ~(text = "" \/ Match[name] = 3)
    <3>1. Rank(name) # 2
      BY <1>2
    <3>. QED
      BY <3>1, Zenon DEF Rank
  <2>2. Rank(name) = Match[name]
    BY <2>1, Zenon DEF Rank
  <2>. QED
    BY <1>2, <2>2
<1>. QED
  BY <1>1, <1>2, LocationAssumption DEF LocationAssumption

\* Of what is kept no more is given than may be, and who orders by match gives
\* the name that was typed.
LEMMA LocatedEffect ==
    ASSUME NEW source, source.popular \in {"always", "never", "row"},
           NEW rows \in Seq(PlaceRow), limit \in Nat \ {0}
    PROVE  /\ Located(source, rows) \in Seq(Named)
           /\ NamesOf(Located(source, rows)) \subseteq NamesOf(Kept(source, rows))
           /\ \A name \in NamesOf(Kept(source, rows)) :
                 source.order \in {"match", "matchPopular"} /\ Rank(name) = 0
                 => name \in NamesOf(Located(source, rows))
<1>. DEFINE taken == Taken(source, rows)
            placed == Placed(source, taken)
            sorted == Sorted(source.order, placed)
            located == Located(source, rows)
<1>1. /\ taken \in Seq(PlaceRow)
      /\ NamesOf(taken) \subseteq NamesOf(Kept(source, rows))
      /\ source.order # "given" => taken = Kept(source, rows)
  BY TakenEffect
<1>. HIDE DEF taken
<1>2. placed \in Seq(Named) /\ NamesOf(placed) = NamesOf(taken)
  BY <1>1, PlacedEffect
<1>. HIDE DEF placed
<1>3. /\ sorted \in Seq(Named)
      /\ \A n \in DOMAIN sorted : \E i \in DOMAIN placed : sorted[n] = placed[i]
      /\ \A i \in DOMAIN placed : \E n \in DOMAIN sorted : sorted[n] = placed[i]
      /\ source.order # "given" =>
            \A m, n \in DOMAIN sorted :
               m < n => ~Smaller(Key(source.order, sorted[n]), Key(source.order, sorted[m]))
  BY <1>2, SortedEffect
<1>4. located = FirstOf(sorted, limit)
  BY DEF Located, taken, placed
<1>. HIDE DEF sorted
<1>5. NamesOf(sorted) = NamesOf(taken)
  <2>1. ASSUME NEW name \in NamesOf(sorted) PROVE name \in NamesOf(placed)
    <3>1. PICK n \in DOMAIN sorted : name = sorted[n].name
      BY <2>1, Zenon DEF NamesOf
    <3>2. PICK i \in DOMAIN placed : sorted[n] = placed[i]
      BY <1>3, <3>1, Zenon
    <3>. QED
      BY <3>1, <3>2, Zenon DEF NamesOf
  <2>2. ASSUME NEW name \in NamesOf(placed) PROVE name \in NamesOf(sorted)
    <3>1. PICK i \in DOMAIN placed : name = placed[i].name
      BY <2>2, Zenon DEF NamesOf
    <3>2. PICK n \in DOMAIN sorted : sorted[n] = placed[i]
      BY <1>3, <3>1, Zenon
    <3>. QED
      BY <3>1, <3>2, Zenon DEF NamesOf
  <2>. QED
    BY <1>2, <2>1, <2>2
<1>. HIDE DEF located
<1>6. /\ located \in Seq(Named)
      /\ Len(located) = (IF Len(sorted) < limit THEN Len(sorted) ELSE limit)
      /\ DOMAIN located = 1 .. Len(located)
      /\ DOMAIN located \subseteq DOMAIN sorted
      /\ \A i \in DOMAIN located : located[i] = sorted[i]
  BY <1>3, <1>4, FirstOfEffect
<1>7. NamesOf(located) \subseteq NamesOf(sorted)
  BY <1>6 DEF NamesOf
<1>8. ASSUME NEW name \in NamesOf(Kept(source, rows)),
             source.order \in {"match", "matchPopular"}, Rank(name) = 0
      PROVE  name \in NamesOf(located)
  <2>1. name \in NamesOf(sorted)
    BY <1>1, <1>5, <1>8
  <2>2. PICK n \in DOMAIN sorted : sorted[n].name = name
    BY <2>1 DEF NamesOf
  <2>3. DOMAIN sorted = 1 .. Len(sorted) /\ Len(sorted) \in Nat /\ n \in Nat
    BY <1>3
  <2>4. 1 \in DOMAIN sorted /\ 1 \in DOMAIN located
    BY <1>6, <2>2, <2>3
  <2>5. /\ Ordered(sorted[1]) /\ Ordered(sorted[n])
    <3>1. sorted[1] \in Named /\ sorted[n] \in Named
      BY <1>3, <2>3, <2>4
    <3>. QED
      BY <3>1 DEF Named, Ordered
  <2>6. sorted[1].name = name
    <3>1. CASE n = 1
      BY <2>2, <3>1
    <3>2. CASE n # 1
      <4>1. ~Smaller(Key(source.order, sorted[n]), Key(source.order, sorted[1]))
        <5>1. source.order # "given"
          BY <1>8
        <5>2. 1 < n
          BY <2>2, <2>3, <3>2
        <5>. QED
          BY <1>3, <2>4, <5>1, <5>2, Zenon
      <4>2. \/ Smaller(Key(source.order, sorted[1]), Key(source.order, sorted[n]))
            \/ Key(source.order, sorted[n]) = Key(source.order, sorted[1])
        BY <2>5, <4>1, SmallerOrder, Zenon
      <4>3. \/ sorted[n].name = sorted[1].name
            \/ Rank(sorted[1].name) <= Rank(sorted[n].name)
        BY <1>8, <2>5, <4>2, SmallerOrder, Zenon
      <4>4. sorted[1].name \in Names /\ sorted[n].name \in Names
        BY <2>5 DEF Ordered
      <4>. QED
        BY <1>8, <2>2, <4>3, <4>4, OneMatches
    <3>. QED
      BY <3>1, <3>2
  <2>. QED
    BY <1>6, <2>4, <2>6 DEF NamesOf
<1>9. NamesOf(located) \subseteq NamesOf(Kept(source, rows))
  BY <1>1, <1>5, <1>7
<1>. QED
  BY <1>6, <1>8, <1>9 DEF located

-----------------------------------------------------------------------------
(* Suggestions: the fourteen adapters *)

\* What places of an adapter are popular, and who orders by match.
LEMMA AdapterFacts ==
    ASSUME mode \in DOMAIN AdaptersFor, NEW p \in DOMAIN AdaptersFor[mode]
    PROVE  /\ Adapter(p).popular \in {"always", "never", "row"}
           /\ CutsByMatch(p) => Adapter(p).order \in {"match", "matchPopular"}
<1>1. mode \in {"flight", "train", "bus"}
  BY DEF AdaptersFor
<1>2. CASE mode = "flight"
  <2>1. p \in {"alibaba", "mrbilit", "snapptrip", "flytoday", "booking"}
    BY <1>2 DEF AdaptersFor
  <2>2. CASE p = "alibaba"
    <3>1. Adapter(p) = AlibabaFlightPlaces
      BY <1>2, <2>2 DEF Adapter, AdaptersFor
    <3>2. ~CutsByMatch(p)
      BY <1>2, <2>2 DEF CutsByMatch
    <3>. QED
      BY <3>1, <3>2 DEF AlibabaFlightPlaces, Source
  <2>3. CASE p = "mrbilit"
    <3>1. Adapter(p) = MrBilitFlightPlaces
      BY <1>2, <2>3 DEF Adapter, AdaptersFor
    <3>. QED
      BY <3>1 DEF MrBilitFlightPlaces, Source
  <2>4. CASE p = "snapptrip"
    <3>1. Adapter(p) = SnappTripFlightPlaces
      BY <1>2, <2>4 DEF Adapter, AdaptersFor
    <3>2. ~CutsByMatch(p)
      BY <1>2, <2>4 DEF CutsByMatch
    <3>. QED
      BY <3>1, <3>2 DEF SnappTripFlightPlaces, Source
  <2>5. CASE p = "flytoday"
    <3>1. Adapter(p) = FlyTodayFlightPlaces
      BY <1>2, <2>5 DEF Adapter, AdaptersFor
    <3>. QED
      BY <3>1 DEF FlyTodayFlightPlaces, Source
  <2>6. CASE p = "booking"
    <3>1. Adapter(p) = BookingFlightPlaces
      BY <1>2, <2>6 DEF Adapter, AdaptersFor
    <3>. QED
      BY <3>1 DEF BookingFlightPlaces, Source
  <2>. QED
    BY <2>1, <2>2, <2>3, <2>4, <2>5, <2>6
<1>3. CASE mode = "train"
  <2>1. p \in {"alibaba", "mrbilit", "snapptrip"}
    BY <1>3 DEF AdaptersFor
  <2>2. CASE p = "alibaba"
    <3>1. Adapter(p) = AlibabaTrainPlaces
      BY <1>3, <2>2 DEF Adapter, AdaptersFor
    <3>2. ~CutsByMatch(p)
      BY <1>3, <2>2 DEF CutsByMatch
    <3>. QED
      BY <3>1, <3>2 DEF AlibabaTrainPlaces, Source
  <2>3. CASE p = "mrbilit"
    <3>1. Adapter(p) = MrBilitTrainPlaces
      BY <1>3, <2>3 DEF Adapter, AdaptersFor
    <3>. QED
      BY <3>1 DEF MrBilitTrainPlaces, Source
  <2>4. CASE p = "snapptrip"
    <3>1. Adapter(p) = SnappTripTrainPlaces
      BY <1>3, <2>4 DEF Adapter, AdaptersFor
    <3>. QED
      BY <3>1 DEF SnappTripTrainPlaces, Source
  <2>. QED
    BY <2>1, <2>2, <2>3, <2>4
<1>4. CASE mode = "bus"
  <2>1. p \in {"alibaba", "mrbilit", "snapptrip", "flytoday", "payaneha", "safar724"}
    BY <1>4 DEF AdaptersFor
  <2>2. CASE p = "alibaba"
    <3>1. Adapter(p) = AlibabaBusPlaces
      BY <1>4, <2>2 DEF Adapter, AdaptersFor
    <3>2. ~CutsByMatch(p)
      BY <1>4, <2>2 DEF CutsByMatch
    <3>. QED
      BY <3>1, <3>2 DEF AlibabaBusPlaces, Source
  <2>3. CASE p = "mrbilit"
    <3>1. Adapter(p) = MrBilitBusPlaces
      BY <1>4, <2>3 DEF Adapter, AdaptersFor
    <3>. QED
      BY <3>1 DEF MrBilitBusPlaces, Source
  <2>4. CASE p = "snapptrip"
    <3>1. Adapter(p) = SnappTripBusPlaces
      BY <1>4, <2>4 DEF Adapter, AdaptersFor
    <3>2. ~CutsByMatch(p)
      BY <1>4, <2>4 DEF CutsByMatch
    <3>. QED
      BY <3>1, <3>2 DEF SnappTripBusPlaces, Source
  <2>5. CASE p = "flytoday"
    <3>1. Adapter(p) = FlyTodayBusPlaces
      BY <1>4, <2>5 DEF Adapter, AdaptersFor
    <3>. QED
      BY <3>1 DEF FlyTodayBusPlaces, Source
  <2>6. CASE p = "payaneha"
    <3>1. Adapter(p) = PayanehaBusPlaces
      BY <1>4, <2>6 DEF Adapter, AdaptersFor
    <3>. QED
      BY <3>1 DEF PayanehaBusPlaces, Source
  <2>7. CASE p = "safar724"
    <3>1. Adapter(p) = Safar724BusPlaces
      BY <1>4, <2>7 DEF Adapter, AdaptersFor
    <3>. QED
      BY <3>1 DEF Safar724BusPlaces, Source
  <2>. QED
    BY <2>1, <2>2, <2>3, <2>4, <2>5, <2>6, <2>7
<1>. QED
  BY <1>1, <1>2, <1>3, <1>4

\* The records of finitely many names are finitely many.
LEMMA NamedFinitely ==
    ASSUME NEW N, IsFiniteSet(N), NEW S, NEW f \in [N -> S], \A s \in S : \E n \in N : f[n] = s
    PROVE  IsFiniteSet(S)
<1>1. f \in Surjection(N, S)
  BY DEF Surjection
<1>. QED
  BY <1>1, FS_Surjection

\* What stands in for a provider are stations it told before.
LEMMA RememberedEffect ==
    ASSUME stations \subseteq Names, limit \in Nat
    PROVE  Remembered \in Seq(Named) /\ NamesOf(Remembered) \subseteq stations
<1>. DEFINE matching == {n \in stations : text = "" \/ Match[n] < 3}
            places == [name : matching, popular : {TRUE}]
            s == SortedSet("name", places)
<1>1. IsFiniteSet(matching) /\ matching \subseteq stations
  BY LocationAssumption, FS_Subset DEF LocationAssumption
<1>2. Remembered = FirstOf(s, limit)
  BY DEF Remembered
<1>. HIDE DEF matching
<1>3. IsFiniteSet(places)
  <2>. DEFINE f == [n \in matching |-> [name |-> n, popular |-> TRUE]]
  <2>1. f \in [matching -> places]
    OBVIOUS
  <2>2. ASSUME NEW a \in places PROVE \E n \in matching : f[n] = a
    <3>1. a.name \in matching /\ a.popular = TRUE /\ a = [name |-> a.name, popular |-> a.popular]
      OBVIOUS
    <3>2. f[a.name] = [name |-> a.name, popular |-> TRUE]
      BY <3>1
    <3>. QED
      BY <3>1, <3>2, Zenon
  <2>. HIDE DEF places, f
  <2>. QED
    BY <1>1, <2>1, <2>2, NamedFinitely
<1>4. \A a \in places : a \in Named /\ Ordered(a) /\ a.name \in matching
  BY <1>1 DEF Named, Ordered
<1>5. ASSUME NEW a \in places, NEW b \in places, a.name = b.name PROVE a = b
  <2>1. /\ a = [name |-> a.name, popular |-> TRUE]
        /\ b = [name |-> b.name, popular |-> TRUE]
    OBVIOUS
  <2>. QED
    BY <1>5, <2>1, Zenon
<1>. HIDE DEF places
<1>6. Cardinality(places) \in Nat /\ s \in [1 .. Cardinality(places) -> places]
  BY <1>3, <1>4, <1>5, SortedSetEffect
<1>. HIDE DEF s
<1>7. s \in Seq(Named) /\ \A i \in DOMAIN s : s[i].name \in stations
  <2>1. s \in [1 .. Cardinality(places) -> Named]
    BY <1>4, <1>6
  <2>2. \A i \in DOMAIN s : s[i] \in places
    BY <1>6
  <2>. QED
    BY <1>1, <1>4, <1>6, <2>1, <2>2, SeqDef
<1>8. /\ Remembered \in Seq(Named)
      /\ DOMAIN Remembered \subseteq DOMAIN s
      /\ \A i \in DOMAIN Remembered : Remembered[i] = s[i]
  BY <1>2, <1>7, FirstOfEffect
<1>. QED
  BY <1>7, <1>8 DEF NamesOf

-----------------------------------------------------------------------------
(* Suggestions: the inductive invariant *)

SuggestTypeOK ==
    /\ mode \in DOMAIN AdaptersFor
    /\ limit \in Limits
    /\ asked \subseteq DOMAIN AdaptersFor[mode]
    /\ status \in [asked -> {"asked", "answered", "failed"}]
    /\ held \in [asked -> SUBSET Names]
    /\ given \in [asked -> Seq(Named)]
    /\ stations \subseteq Names

\* A provider gives what it had, and the name that was typed if it orders by it.
Truthful(names, places, byMatch) ==
    /\ NamesOf(places) \subseteq names
    /\ byMatch => \A name \in names : Rank(name) = 0 => name \in NamesOf(places)

AnswersAreTruthful == \A p \in Answering : Truthful(held[p], given[p], CutsByMatch(p))

NobodyIsOut == done => \A p \in asked : status[p] # "asked"

SuggestInv == SuggestTypeOK /\ AnswersAreTruthful /\ NobodyIsOut /\ SuggestionsAreConfirmed

\* What SuggestionsAreConfirmed says of an answer.
Confirmed(shown) ==
    LET showing(name) == {i \in DOMAIN shown : shown[i].name = name} IN
    /\ \A i \in DOMAIN shown : \A p \in shown[i].providers :
           status[p] = "answered" /\ shown[i].name \in held[p]
    /\ \A name \in Names : Cardinality(showing(name)) <= 1
    /\ \A p \in Answering : \A name \in NamesOf(given[p]) :
           \/ \E i \in showing(name) : p \in shown[i].providers
           \/ /\ Len(shown) = limit
              /\ \A i \in DOMAIN shown : Rank(shown[i].name) <= Rank(name)
    /\ \A p \in Answering : \A name \in held[p] :
           (Rank(name) = 0 /\ CutsByMatch(p)) =>
               showing(name) = {1} /\ p \in shown[1].providers

-----------------------------------------------------------------------------
(* Suggestions: the answer *)

\* Each name that a provider gave is merged once, with those who gave it.
LEMMA MergedEffect ==
    ASSUME SuggestTypeOK
    PROVE  /\ IsFiniteSet(Merged)
           /\ \A a \in Merged : Ordered(a)
           /\ \A a, b \in Merged : a.name = b.name => a = b
           /\ \A a \in Merged : \A p \in a.providers : p \in Answering /\ a.name \in NamesOf(given[p])
           /\ \A p \in Answering : \A name \in NamesOf(given[p]) :
                 \E a \in Merged : a.name = name /\ p \in a.providers
<1>. DEFINE namers(n)  == {p \in Answering : n \in NamesOf(given[p])}
            popular(n) == \E p \in Answering : \E i \in DOMAIN given[p] :
                              given[p][i] = [name |-> n, popular |-> TRUE]
            merged(n) == [name |-> n, popular |-> popular(n), providers |-> namers(n)]
            names == UNION {NamesOf(given[p]) : p \in Answering}
<1>1. Merged = {merged(n) : n \in names}
  BY DEF Merged
<1>2. names \subseteq Names
  <2>1. ASSUME NEW p \in Answering, NEW name \in NamesOf(given[p]) PROVE name \in Names
    <3>1. p \in asked
      BY DEF Answering
    <3>2. given[p] \in Seq(Named)
      BY <3>1 DEF SuggestTypeOK
    <3>3. \A i \in DOMAIN given[p] : given[p][i] \in Named
      BY <3>2
    <3>. QED
      BY <2>1, <3>3 DEF NamesOf, Named
  <2>. QED
    BY <2>1
<1>3. IsFiniteSet(names)
  BY <1>2, LocationAssumption, FS_Subset DEF LocationAssumption
<1>4. \A n : popular(n) \in BOOLEAN
  OBVIOUS
<1>5. \A n : merged(n).name = n /\ merged(n).popular \in BOOLEAN /\ merged(n).providers = namers(n)
  <2>. HIDE DEF namers, popular
  <2>. QED
    BY <1>4
<1>6. \A p \in Answering : \A name \in NamesOf(given[p]) : name \in names /\ p \in namers(name)
  OBVIOUS
<1>7. \A n : \A p \in namers(n) : p \in Answering /\ n \in NamesOf(given[p])
  OBVIOUS
<1>. HIDE DEF namers, popular, merged, names
<1>8. IsFiniteSet(Merged)
  <2>. DEFINE f == [n \in names |-> merged(n)]
  <2>1. f \in [names -> Merged]
    BY <1>1
  <2>2. \A a \in Merged : \E n \in names : f[n] = a
    BY <1>1
  <2>. HIDE DEF f
  <2>. QED
    BY <1>3, <2>1, <2>2, NamedFinitely
<1>9. \A a \in Merged : a.name \in names /\ a = merged(a.name)
  BY <1>1, <1>5
<1>10. \A a \in Merged : Ordered(a)
  BY <1>2, <1>5, <1>9 DEF Ordered
<1>11. \A a, b \in Merged : a.name = b.name => a = b
  BY <1>9, Zenon
<1>12. ASSUME NEW a \in Merged, NEW p \in a.providers
       PROVE  p \in Answering /\ a.name \in NamesOf(given[p])
  <2>1. p \in namers(a.name)
    BY <1>5, <1>9, <1>12
  <2>. QED
    BY <1>7, <2>1
<1>13. ASSUME NEW p \in Answering, NEW name \in NamesOf(given[p])
       PROVE  \E a \in Merged : a.name = name /\ p \in a.providers
  <2>1. merged(name) \in Merged
    BY <1>1, <1>6
  <2>2. merged(name).name = name /\ p \in merged(name).providers
    BY <1>5, <1>6
  <2>. QED
    BY <2>1, <2>2
<1>. QED
  BY <1>8, <1>10, <1>11, <1>12, <1>13

\* What is merged of truthful answers is confirmed.
LEMMA AnswerIsConfirmed ==
    ASSUME SuggestTypeOK, AnswersAreTruthful, NEW shown,
           shown = FirstOf(SortedSet("matchPopular", Merged), limit)
    PROVE  Confirmed(shown)
<1>. DEFINE size == Cardinality(Merged)
            s == SortedSet("matchPopular", Merged)
            showing(name) == {i \in DOMAIN shown : shown[i].name = name}
<1>1. /\ IsFiniteSet(Merged)
      /\ \A a \in Merged : Ordered(a)
      /\ \A a, b \in Merged : a.name = b.name => a = b
      /\ \A a \in Merged : \A p \in a.providers : p \in Answering /\ a.name \in NamesOf(given[p])
      /\ \A p \in Answering : \A name \in NamesOf(given[p]) :
            \E a \in Merged : a.name = name /\ p \in a.providers
  BY MergedEffect
<1>2. /\ size \in Nat
      /\ s \in [1 .. size -> Merged]
      /\ \A a \in Merged : \E n \in 1 .. size : s[n] = a
      /\ \A m, n \in 1 .. size :
            m < n => Smaller(Key("matchPopular", s[m]), Key("matchPopular", s[n]))
  BY <1>1, SortedSetEffect
<1>3. limit \in Nat \ {0}
  BY LocationAssumption DEF LocationAssumption, SuggestTypeOK
<1>4. shown = FirstOf(s, limit)
  OBVIOUS
<1>. HIDE DEF size, s
<1>5. s \in Seq(Merged) /\ DOMAIN s = 1 .. size /\ Len(s) = size
  <2>1. s \in Seq(Merged) /\ DOMAIN s = 1 .. size
    BY <1>2, SeqDef
  <2>. QED
    BY <1>2, <2>1
<1>6. /\ shown \in Seq(Merged)
      /\ Len(shown) = (IF size < limit THEN size ELSE limit)
      /\ DOMAIN shown = 1 .. Len(shown)
      /\ \A i \in DOMAIN shown : i \in 1 .. size /\ shown[i] = s[i]
  BY <1>3, <1>4, <1>5, FirstOfEffect
<1>7. \A i \in DOMAIN shown : shown[i] \in Merged /\ s[i] \in Merged
  BY <1>2, <1>6
<1>8. ASSUME NEW m \in 1 .. size, NEW n \in 1 .. size, m < n
      PROVE  s[m].name # s[n].name /\ Rank(s[m].name) <= Rank(s[n].name)
  <2>1. s[m] \in Merged /\ s[n] \in Merged
    BY <1>2
  <2>2. Ordered(s[m]) /\ Ordered(s[n])
    BY <1>1, <2>1
  <2>3. Smaller(Key("matchPopular", s[m]), Key("matchPopular", s[n]))
    BY <1>2, <1>8
  <2>4. s[m] # s[n]
    BY <2>2, <2>3, SmallerOrder
  <2>5. Rank(s[m].name) <= Rank(s[n].name)
    BY <2>2, <2>3, SmallerOrder
  <2>. QED
    BY <1>1, <2>1, <2>4, <2>5
<1>9. \A i, j \in DOMAIN shown : shown[i].name = shown[j].name => i = j
  <2>1. \A i, j \in DOMAIN shown : i < j \/ j < i \/ i = j
    BY <1>2, <1>6
  <2>. QED
    BY <1>6, <1>8, <2>1
<1>10. ASSUME NEW i \in DOMAIN shown, NEW p \in shown[i].providers
       PROVE  status[p] = "answered" /\ shown[i].name \in held[p]
  <2>1. p \in Answering /\ shown[i].name \in NamesOf(given[p])
    BY <1>1, <1>7, <1>10
  <2>. QED
    BY <2>1 DEF AnswersAreTruthful, Truthful, Answering
<1>11. ASSUME NEW name \in Names PROVE Cardinality(showing(name)) <= 1
  <2>1. CASE showing(name) = {}
    BY <2>1, FS_EmptySet
  <2>2. CASE showing(name) # {}
    <3>1. PICK i : i \in showing(name)
      BY <2>2
    <3>2. showing(name) = {i}
      BY <1>9, <3>1
    <3>3. Cardinality(showing(name)) = 1
      BY <3>2, FS_Singleton, Zenon
    <3>. QED
      BY <3>3
  <2>. QED
    BY <2>1, <2>2
<1>12. ASSUME NEW p \in Answering, NEW name \in NamesOf(given[p])
       PROVE  \/ \E i \in showing(name) : p \in shown[i].providers
              \/ /\ Len(shown) = limit
                 /\ \A i \in DOMAIN shown : Rank(shown[i].name) <= Rank(name)
  <2>1. PICK a \in Merged : a.name = name /\ p \in a.providers
    BY <1>1
  <2>2. PICK n \in 1 .. size : s[n] = a
    BY <1>2
  <2>3. CASE n \in DOMAIN shown
    BY <1>6, <2>1, <2>2, <2>3
  <2>4. CASE n \notin DOMAIN shown
    <3>1. Len(shown) = limit /\ \A i \in DOMAIN shown : i < n
      BY <1>2, <1>3, <1>6, <2>4
    <3>2. \A i \in DOMAIN shown : Rank(shown[i].name) <= Rank(name)
      BY <1>6, <1>8, <2>1, <2>2, <3>1
    <3>. QED
      BY <3>1, <3>2
  <2>. QED
    BY <2>3, <2>4
<1>13. ASSUME NEW p \in Answering, NEW name \in held[p], Rank(name) = 0, CutsByMatch(p)
       PROVE  showing(name) = {1} /\ p \in shown[1].providers
  <2>1. name \in NamesOf(given[p])
    BY <1>13 DEF AnswersAreTruthful, Truthful
  <2>2. PICK a \in Merged : a.name = name /\ p \in a.providers
    BY <1>1, <2>1
  <2>3. PICK n \in 1 .. size : s[n] = a
    BY <1>2
  <2>4. 1 \in 1 .. size /\ 1 \in DOMAIN shown /\ s[1] \in Merged
    BY <1>2, <1>3, <1>6, <2>3
  <2>5. n = 1
    <3>1. SUFFICES ASSUME 1 < n PROVE FALSE
      BY <1>2, <2>3
    <3>2. s[1].name # name /\ Rank(s[1].name) <= Rank(name)
      BY <1>8, <2>2, <2>3, <2>4, <3>1
    <3>3. s[1].name \in Names /\ name \in Names
      BY <1>1, <2>2, <2>4 DEF Ordered
    <3>. QED
      BY <1>13, <3>2, <3>3, OneMatches
  <2>6. shown[1] = a
    BY <1>6, <2>3, <2>4, <2>5
  <2>7. showing(name) = {1}
    BY <1>9, <2>2, <2>4, <2>6
  <2>. QED
    BY <2>2, <2>6, <2>7
<1>. QED
  BY <1>10, <1>11, <1>12, <1>13 DEF Confirmed

-----------------------------------------------------------------------------
(* Suggestions: one lemma per action *)

LEMMA SuggestInitEffect == SuggestInit => SuggestInv
<1>. SUFFICES ASSUME SuggestInit PROVE SuggestInv
  OBVIOUS
<1>1. SuggestTypeOK
  <2>1. <<>> \in Seq(Named) /\ {} \in SUBSET Names
    OBVIOUS
  <2>2. stations \subseteq Names
    BY DEF SuggestInit
  <2>. QED
    BY <2>1, <2>2 DEF SuggestInit, SuggestTypeOK
<1>2. Answering = {}
  BY DEF SuggestInit, Answering
<1>. QED
  BY <1>1, <1>2 DEF SuggestInit, SuggestInv, AnswersAreTruthful, NobodyIsOut,
     SuggestionsAreConfirmed

\* While the answer is out, what an adapter gives has to be truthful and what is
\* remembered the name of a city; nothing else can be disturbed.
LEMMA AnswerOf ==
    ASSUME SuggestInv, NEW p \in asked, status[p] = "asked", UNCHANGED Request, stations' \subseteq Names,
           \/ Fails(p)
           \/ \E names \in SUBSET Names, places \in Seq(Named) :
                 Truthful(names, places, CutsByMatch(p)) /\ Answers(p, names, places)
    PROVE  SuggestInv'
<1>1. UNCHANGED <<mode, text, limit, asked, suggestions, done>> /\ ~done'
  <2>1. UNCHANGED <<mode, text, limit, asked, suggestions, done>>
    BY DEF Request
  <2>. QED
    BY <2>1 DEF SuggestInv, NobodyIsOut
<1>2. SuggestTypeOK'
  <2>1. CASE Fails(p)
    BY <1>1, <2>1 DEF SuggestInv, SuggestTypeOK, Fails
  <2>2. ASSUME NEW names \in SUBSET Names, NEW places \in Seq(Named), Answers(p, names, places)
        PROVE  SuggestTypeOK'
    BY <1>1, <2>2 DEF SuggestInv, SuggestTypeOK, Answers
  <2>. QED
    BY <2>1, <2>2
<1>3. ASSUME NEW q \in Answering' PROVE Truthful(held[q], given[q], CutsByMatch(q))'
  <2>1. \A n : Rank(n)' = Rank(n)
    BY <1>1 DEF Rank
  <2>2. CutsByMatch(q)' <=> CutsByMatch(q)
    BY <1>1 DEF CutsByMatch
  <2>3. q \in asked /\ status'[q] = "answered"
    BY <1>1 DEF Answering
  <2>4. Truthful(held'[q], given'[q], CutsByMatch(q))
    <3>1. CASE q = p
      <4>1. ASSUME NEW names \in SUBSET Names, NEW places \in Seq(Named),
                   Truthful(names, places, CutsByMatch(p)), Answers(p, names, places)
            PROVE  Truthful(held'[q], given'[q], CutsByMatch(q))
        <5>1. held'[q] = names /\ given'[q] = places
          BY <3>1, <4>1 DEF Answers, SuggestInv, SuggestTypeOK
        <5>. QED
          BY <3>1, <4>1, <5>1
      <4>2. ~Fails(p)
        BY <2>3, <3>1 DEF Fails, SuggestInv, SuggestTypeOK
      <4>. QED
        BY <4>1, <4>2
    <3>2. CASE q # p
      <4>1. status[q] = "answered" /\ held'[q] = held[q] /\ given'[q] = given[q]
        BY <2>3, <3>2 DEF Fails, Answers, SuggestInv, SuggestTypeOK
      <4>. QED
        BY <2>3, <4>1 DEF SuggestInv, AnswersAreTruthful, Answering
    <3>. QED
      BY <3>1, <3>2
  <2>. QED
    BY <2>1, <2>2, <2>4 DEF Truthful, NamesOf
<1>4. AnswersAreTruthful'
  BY <1>3 DEF AnswersAreTruthful
<1>. QED
  BY <1>1, <1>2, <1>4 DEF SuggestInv, NobodyIsOut, SuggestionsAreConfirmed

\* What the lemmas above take for granted of a state of the search.
LEMMA RequestFacts ==
    ASSUME SuggestTypeOK, NEW p \in asked
    PROVE  /\ limit \in Nat \ {0}
           /\ Adapter(p).popular \in {"always", "never", "row"}
           /\ CutsByMatch(p) => Adapter(p).order \in {"match", "matchPopular"}
BY AdapterFacts, LocationAssumption DEF SuggestTypeOK, LocationAssumption

LEMMA ReplyEffect == ASSUME SuggestInv, NEW p \in asked, Reply(p) PROVE SuggestInv'
<1>1. PICK rows \in IF Adapter(p).from = "table" THEN TableRows ELSE PlaceLists :
         LET taken == Taken(Adapter(p), rows)
             seen  == {i \in DOMAIN taken : \A j \in 1 .. i - 1 : taken[j].kind = "good"}
             seenAs(kind) == {taken[i].name : i \in {i \in seen : taken[i].kind = kind}}
         IN
         /\ IF IsFit(Kept(Adapter(p), rows)) \/ (Adapter(p).order = "given" /\ IsFit(taken))
            THEN Answers(p, NamesOf(Kept(Adapter(p), rows)), Located(Adapter(p), rows))
            ELSE Fails(p)
         /\ IF Remembers(p)
            THEN /\ stations' = stations \cup {taken[i].name : i \in seen}
                 /\ unfit' = (unfit \ seenAs("good")) \cup seenAs("unfit")
            ELSE UNCHANGED <<stations, unfit>>
  BY DEF Reply
<1>2. status[p] = "asked" /\ UNCHANGED Request
  BY DEF Reply
<1>3. rows \in Seq(PlaceRow)
  <2>1. rows \in PlaceLists
    BY DEF TableRows
  <2>. QED
    BY <2>1, LocationAssumption DEF LocationAssumption, PlaceRow
<1>4. /\ limit \in Nat \ {0}
      /\ Adapter(p).popular \in {"always", "never", "row"}
      /\ CutsByMatch(p) => Adapter(p).order \in {"match", "matchPopular"}
  BY RequestFacts DEF SuggestInv
<1>. DEFINE chosen == Kept(Adapter(p), rows)
            taken == Taken(Adapter(p), rows)
            located == Located(Adapter(p), rows)
<1>5. chosen \in Seq(PlaceRow) /\ taken \in Seq(PlaceRow)
  BY <1>3, <1>4, KeptEffect, TakenEffect
<1>6. /\ located \in Seq(Named)
      /\ NamesOf(located) \subseteq NamesOf(chosen)
      /\ \A name \in NamesOf(chosen) :
            Adapter(p).order \in {"match", "matchPopular"} /\ Rank(name) = 0
            => name \in NamesOf(located)
  BY <1>3, <1>4, LocatedEffect
<1>7. Truthful(NamesOf(chosen), located, CutsByMatch(p))
  BY <1>4, <1>6 DEF Truthful
<1>8. NamesOf(chosen) \subseteq Names /\ NamesOf(taken) \subseteq Names
  <2>1. ASSUME NEW s \in Seq(PlaceRow) PROVE NamesOf(s) \subseteq Names
    <3>1. \A i \in DOMAIN s : s[i] \in PlaceRow
      OBVIOUS
    <3>. QED
      BY <3>1 DEF PlaceRow, NamesOf
  <2>. QED
    BY <1>5, <2>1
<1>. HIDE DEF chosen, taken, located
<1>9. stations' \subseteq stations \cup NamesOf(taken)
  BY <1>1 DEF taken, NamesOf
<1>10. stations' \subseteq Names
  BY <1>8, <1>9 DEF SuggestInv, SuggestTypeOK
<1>11. Fails(p) \/ Answers(p, NamesOf(chosen), located)
  BY <1>1 DEF chosen, located
<1>. QED
  BY <1>2, <1>6, <1>7, <1>8, <1>10, <1>11, AnswerOf

LEMMA FallsBackEffect ==
    ASSUME SuggestInv, NEW p \in asked, status[p] = "asked", FallsBack(p),
           UNCHANGED <<Request, stations>>
    PROVE  SuggestInv'
<1>1. SuggestTypeOK /\ stations \subseteq Names /\ limit \in Nat
  BY RequestFacts DEF SuggestInv, SuggestTypeOK
<1>2. UNCHANGED Request /\ stations' \subseteq Names
  BY <1>1
<1>3. CASE Fails(p)
  BY <1>2, <1>3, AnswerOf
<1>4. CASE ~Fails(p)
  <2>1. Remembers(p) /\ Answers(p, stations, Remembered)
    BY <1>4 DEF FallsBack
  <2>2. ~CutsByMatch(p)
    BY <2>1 DEF Remembers, CutsByMatch
  <2>3. Remembered \in Seq(Named) /\ NamesOf(Remembered) \subseteq stations
    BY <1>1, RememberedEffect
  <2>4. Truthful(stations, Remembered, CutsByMatch(p))
    BY <2>2, <2>3 DEF Truthful
  <2>. QED
    BY <1>1, <1>2, <2>1, <2>3, <2>4, AnswerOf
<1>. QED
  BY <1>3, <1>4

LEMMA AnswerEffect == ASSUME SuggestInv, Answer PROVE SuggestInv'
<1>1. /\ UNCHANGED <<mode, text, limit, asked, status, held, given, stations, unfit>>
      /\ \A p \in asked : status[p] # "asked"
  BY DEF Answer
<1>2. Confirmed(suggestions')
  BY AnswerIsConfirmed DEF SuggestInv, Answer
<1>3. SuggestTypeOK'
  BY <1>1 DEF SuggestInv, SuggestTypeOK
<1>4. \A n : Rank(n)' = Rank(n) /\ CutsByMatch(n)' = CutsByMatch(n)
  BY <1>1 DEF Rank, CutsByMatch
<1>5. Answering' = Answering
  BY <1>1 DEF Answering
<1>6. AnswersAreTruthful'
  BY <1>1, <1>4, <1>5 DEF SuggestInv, AnswersAreTruthful, Truthful, NamesOf
<1>7. NobodyIsOut'
  BY <1>1 DEF NobodyIsOut
<1>8. SuggestionsAreConfirmed'
  BY <1>1, <1>2, <1>4, <1>5 DEF SuggestionsAreConfirmed, Confirmed, Showing, NamesOf
<1>. QED
  BY <1>3, <1>6, <1>7, <1>8 DEF SuggestInv

-----------------------------------------------------------------------------
(* Suggestions: the theorem *)

LEMMA SuggestStep == SuggestInv /\ [SuggestNext]_suggestVars => SuggestInv'
<1>1. ASSUME SuggestInv, SuggestNext PROVE SuggestInv'
  <2>1. CASE \E p \in asked : Reply(p) \/ Unreachable(p) \/ TimesOut(p)
    BY <1>1, <2>1, ReplyEffect, FallsBackEffect DEF Unreachable, TimesOut
  <2>2. CASE Answer
    BY <1>1, <2>2, AnswerEffect
  <2>. QED
    BY <1>1, <2>1, <2>2 DEF SuggestNext
<1>2. ASSUME SuggestInv, UNCHANGED suggestVars PROVE SuggestInv'
  <2>1. UNCHANGED <<mode, text, limit, asked, status, held, given, stations, unfit, suggestions, done>>
    BY <1>2 DEF suggestVars
  <2>2. \A n : Rank(n)' = Rank(n) /\ CutsByMatch(n)' = CutsByMatch(n) /\ Showing(n)' = Showing(n)
    BY <2>1 DEF Rank, CutsByMatch, Showing
  <2>3. Answering' = Answering
    BY <2>1 DEF Answering
  <2>4. SuggestTypeOK' /\ NobodyIsOut'
    BY <1>2, <2>1 DEF SuggestInv, SuggestTypeOK, NobodyIsOut
  <2>5. AnswersAreTruthful'
    BY <1>2, <2>1, <2>2, <2>3 DEF SuggestInv, AnswersAreTruthful, Truthful, NamesOf
  <2>6. SuggestionsAreConfirmed'
    BY <1>2, <2>1, <2>2, <2>3 DEF SuggestInv, SuggestionsAreConfirmed, NamesOf
  <2>. QED
    BY <2>4, <2>5, <2>6 DEF SuggestInv
<1>. QED
  BY <1>1, <1>2

\* Whatever the providers send, however many are asked and for however many
\* suggestions, and in whatever order they answer, fail or time out: a
\* suggestion is confirmed by the providers it names, nothing that was given is
\* missing but for want of room, and the whole name of a city brings it first.
\* This is about fetch_locations of the adapters and LocationSearchService.
THEOREM SuggestionsAreAlwaysConfirmed == SuggestSpec => []SuggestionsAreConfirmed
<1>1. SuggestInv => SuggestionsAreConfirmed
  BY DEF SuggestInv
<1>. QED
  BY SuggestInitEffect, SuggestStep, <1>1, PTL DEF SuggestSpec
=============================================================================
