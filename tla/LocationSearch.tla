--------------------------- MODULE LocationSearch ---------------------------
(* The city suggestions under the search form.  Every adapter of the mode is   *)
(* asked at once, each under its own deadline; an adapter that cannot be       *)
(* reached may fall back on what it remembers, any other failure leaves its    *)
(* provider out, and what the rest gave is merged by name, ordered by how well *)
(* it matches and cut.  The fourteen adapters differ in which rows they keep   *)
(* and in which order they cut them.                                           *)
EXTENDS Integers, Sequences, FiniteSets

CONSTANTS
    Names,      \* names of cities, numbered in alphabetical order
    Match,      \* how a name compares with the text typed, see Rank
    PlaceLists, \* the lists of rows a provider may send
    AtOnce,     \* how many adapters of a mode are looked at together
    Limits      \* how many suggestions may be asked for

\* Names are told apart by what the service compares, so one of them at most is
\* the text.  The API asks for one suggestion at least.
ASSUME LocationAssumption ==
    /\ IsFiniteSet(Names) /\ Names \subseteq Nat
    /\ Match \in [Names -> 0 .. 3]
    /\ \A m, n \in Names : Match[m] = 0 /\ Match[n] = 0 => m = n
    /\ PlaceLists \subseteq Seq([name : Names, code : Nat, popular : BOOLEAN,
                               kind : {"good", "skipped", "unfit"}])
    /\ Limits \subseteq Nat \ {0}

VARIABLES
    mode, text, limit,  \* the request: text is "" or "typed"
    asked,              \* the adapters asked
    status,             \* of each: "asked", "answered" or "failed"
    held,               \* the names each had to choose from
    given,              \* what each gave
    stations,           \* the names the adapter of Alibaba's buses remembers
    unfit,              \* those of them that a location refuses
    suggestions,        \* the answer
    done                \* whether it has been given

suggestVars == <<mode, text, limit, asked, status, held, given, stations, unfit,
                 suggestions, done>>

-----------------------------------------------------------------------------
(* The order of suggestions.                                                   *)

\* 0: the very name, 1: it begins with the text, 2: it holds the text or its
\* provider thinks so, 3: it does not.  The last two rank alike, and any name
\* does when nothing was typed.
Rank(name) == IF text = "" \/ Match[name] = 3 THEN 2 ELSE Match[name]

Unless(condition) == IF condition THEN 0 ELSE 1

\* What an order does not look at counts as the same.
Key(order, place) ==
    <<IF order \in {"match", "matchPopular"} THEN Rank(place.name) ELSE 0,
      IF order \in {"popular", "matchPopular"} THEN Unless(place.popular) ELSE 0,
      place.name>>

\* k is smaller than l in the order of tuples.
Smaller(k, l) ==
    \E i \in DOMAIN k : k[i] < l[i] /\ \A j \in 1 .. i - 1 : k[j] = l[j]

\* Things in a line, when one knows of each which others are ahead of it.
Lined(ahead) ==
    [n \in 1 .. Cardinality(DOMAIN ahead) |->
        CHOOSE i \in DOMAIN ahead : Cardinality(ahead[i]) = n - 1]

\* The elements of a sequence at the indices of a line.
Along(line, s) == [n \in DOMAIN line |-> s[line[n]]]

\* Places of the same key stay as they were.
Sorted(order, places) ==
    LET Before(i, j) == \/ Smaller(Key(order, places[i]), Key(order, places[j]))
                        \/ Key(order, places[i]) = Key(order, places[j]) /\ i < j
        ahead == [j \in DOMAIN places |-> {i \in DOMAIN places : Before(i, j)}]
    IN  IF order = "given" THEN places ELSE Along(Lined(ahead), places)

\* Places of one name each, in order.
SortedSet(order, places) ==
    Lined([b \in places |-> {a \in places : Smaller(Key(order, a), Key(order, b))}])

FirstOf(s, n) == SubSeq(s, 1, IF Len(s) < n THEN Len(s) ELSE n)

-----------------------------------------------------------------------------
(* Adapters: which order they cut in, which rows pass ("all", those that hold  *)
(* the text, or "capitals" of them when nothing was typed), whether a code     *)
(* counts once, which places are popular, and where the rows come from.        *)

Source(order, rows, once, popular, from) ==
    [order |-> order, rows |-> rows, once |-> once, popular |-> popular, from |-> from]

\* Most popular places first, then by name.
BugSafar724BusPlaces  == Source("popular", "capitals", FALSE, "row", "live")

AlibabaBusPlaces      == Source("given", "all", FALSE, "row", "live")
AlibabaFlightPlaces   == Source("name", "matching", TRUE, "always", "table")
AlibabaTrainPlaces    == Source("name", "matching", TRUE, "never", "table")
SnappTripFlightPlaces == Source("popular", "matching", FALSE, "row", "live")
SnappTripTrainPlaces  == Source("match", "matching", TRUE, "never", "live")
SnappTripBusPlaces    == Source("name", "all", TRUE, "never", "live")
MrBilitFlightPlaces   == Source("match", "matching", TRUE, "never", "live")
MrBilitTrainPlaces    == Source("match", "matching", FALSE, "never", "table")
MrBilitBusPlaces      == Source("match", "matching", FALSE, "never", "live")
FlyTodayFlightPlaces  == Source("match", "matching", TRUE, "never", "live")
FlyTodayBusPlaces     == Source("match", "matching", TRUE, "never", "live")
BookingFlightPlaces   == Source("matchPopular", "matching", FALSE, "row", "live")
PayanehaBusPlaces     == Source("match", "matching", FALSE, "never", "live")
Safar724BusPlaces     == Source("matchPopular", "capitals", FALSE, "row", "live")

AdaptersFor ==
    [flight |-> [alibaba   |-> AlibabaFlightPlaces,   mrbilit  |-> MrBilitFlightPlaces,
                 snapptrip |-> SnappTripFlightPlaces, flytoday |-> FlyTodayFlightPlaces,
                 booking   |-> BookingFlightPlaces],
     train  |-> [alibaba   |-> AlibabaTrainPlaces,    mrbilit  |-> MrBilitTrainPlaces,
                 snapptrip |-> SnappTripTrainPlaces],
     bus    |-> [alibaba   |-> AlibabaBusPlaces,      mrbilit  |-> MrBilitBusPlaces,
                 snapptrip |-> SnappTripBusPlaces,    flytoday |-> FlyTodayBusPlaces,
                 payaneha  |-> PayanehaBusPlaces,     safar724 |-> Safar724BusPlaces]]

Adapter(p) == AdaptersFor[mode][p]

\* Only the adapter of Alibaba's buses remembers places.
Remembers(p) == mode = "bus" /\ p = "alibaba"

-----------------------------------------------------------------------------
(* What an adapter makes of rows.  A row is "good", "skipped" because a name   *)
(* or code is missing, or "unfit": a location refuses its name or its code.    *)

Passes(source, row) ==
    /\ row.kind # "skipped"
    /\ row.kind = "good" =>
        CASE source.rows = "all"      -> TRUE
          [] source.rows = "matching" -> text = "" \/ Match[row.name] < 3
          [] source.rows = "capitals" -> IF text = "" THEN row.popular ELSE Match[row.name] < 3

\* The rows that pass; where a code counts once, the first of each code.
Kept(source, rows) ==
    LET passing == {i \in DOMAIN rows : Passes(source, rows[i])}
        kept == {i \in passing : source.once =>
                                    \A j \in passing : j < i => rows[j].code # rows[i].code}
    IN  Along(Lined([i \in kept |-> {j \in kept : j < i}]), rows)

\* An adapter that keeps the provider's order stops at the limit.
Taken(source, rows) ==
    IF source.order = "given" THEN FirstOf(Kept(source, rows), limit)
    ELSE Kept(source, rows)

Placed(source, rows) ==
    [i \in 1 .. Len(rows) |->
        [name    |-> rows[i].name,
         popular |-> CASE source.popular = "always" -> TRUE
                       [] source.popular = "never"  -> FALSE
                       [] source.popular = "row"    -> rows[i].popular]]

Located(source, rows) ==
    FirstOf(Sorted(source.order, Placed(source, Taken(source, rows))), limit)

IsFit(rows) == \A i \in DOMAIN rows : rows[i].kind = "good"

NamesOf(places) == {places[i].name : i \in DOMAIN places}

\* A table is the program's own: its rows are good and no code comes twice.
TableRows ==
    {rows \in PlaceLists : IsFit(rows) /\ \A i, j \in DOMAIN rows :
                                           rows[i].code = rows[j].code => i = j}

\* The names that come with something a location refuses.
RefusedStations ==
    {n \in Names : \E rows \in PlaceLists : \E i \in DOMAIN rows :
                      rows[i].name = n /\ rows[i].kind = "unfit"}

\* What is remembered is asked for by name, and popular.
Remembered ==
    LET matching == {n \in stations : text = "" \/ Match[n] < 3}
    IN  FirstOf(SortedSet("name", [name : matching, popular : {TRUE}]), limit)

-----------------------------------------------------------------------------
(* The search.                                                                 *)

SuggestInit ==
    /\ mode \in DOMAIN AdaptersFor
    /\ text \in {"", "typed"}
    /\ limit \in Limits
    /\ asked \in {A \in SUBSET DOMAIN AdaptersFor[mode] : Cardinality(A) = AtOnce}
    /\ status = [p \in asked |-> "asked"]
    /\ held  = [p \in asked |-> {}]
    /\ given = [p \in asked |-> <<>>]
    /\ stations \in IF mode = "bus" /\ "alibaba" \in asked THEN SUBSET Names ELSE {{}}
    /\ unfit \in SUBSET (stations \cap RefusedStations)
    /\ suggestions = <<>>
    /\ done = FALSE

Request == <<mode, text, limit, asked, suggestions, done>>

Answers(p, names, places) ==
    /\ status' = [status EXCEPT ![p] = "answered"]
    /\ held'   = [held EXCEPT ![p] = names]
    /\ given'  = [given EXCEPT ![p] = places]

Fails(p) ==
    /\ status' = [status EXCEPT ![p] = "failed"]
    /\ UNCHANGED <<held, given>>

\* The rows arrive, or were in the program all along.  One row that a location
\* refuses loses the others.  A station is remembered before it is made a
\* location of, so that the first one refused is remembered too.
Reply(p) ==
    /\ status[p] = "asked"
    /\ \E rows \in IF Adapter(p).from = "table" THEN TableRows ELSE PlaceLists :
        LET taken == Taken(Adapter(p), rows)
            seen  == {i \in DOMAIN taken : \A j \in 1 .. i - 1 : taken[j].kind = "good"}
            seenAs(kind) == {taken[i].name : i \in {i \in seen : taken[i].kind = kind}}
        IN
        /\ IF IsFit(Kept(Adapter(p), rows)) \/ (Adapter(p).order = "given" /\ IsFit(taken))
           THEN Answers(p, NamesOf(Kept(Adapter(p), rows)),
                        Located(Adapter(p), rows))
           ELSE Fails(p)
        /\ IF Remembers(p)
           THEN /\ stations' = stations \cup {taken[i].name : i \in seen}
                /\ unfit' = (unfit \ seenAs("good")) \cup seenAs("unfit")
           ELSE UNCHANGED <<stations, unfit>>
    /\ UNCHANGED Request

\* What an adapter remembers stands in for the provider, unless it is nothing or
\* one of the places to be shown is again refused.
FallsBack(p) ==
    IF Remembers(p) /\ Remembered # <<>> /\ NamesOf(Remembered) \cap unfit = {}
    THEN Answers(p, stations, Remembered)
    ELSE Fails(p)

\* The provider cannot be reached or answers something else than a list: the
\* adapter itself falls back.
Unreachable(p) ==
    /\ status[p] = "asked"
    /\ Adapter(p).from = "live"
    /\ FallsBack(p)
    /\ UNCHANGED <<Request, stations, unfit>>

\* The deadline: the service falls back, for adapters that remember.
TimesOut(p) ==
    /\ status[p] = "asked"
    /\ Adapter(p).from = "live"
    /\ FallsBack(p)
    /\ UNCHANGED <<Request, stations, unfit>>

Answering == {p \in asked : status[p] = "answered"}

\* One suggestion per name, popular if any provider says so.
Merged ==
    LET namers(n)  == {p \in Answering : n \in NamesOf(given[p])}
        popular(n) == \E p \in Answering : \E i \in DOMAIN given[p] :
                          given[p][i] = [name |-> n, popular |-> TRUE]
    IN  {[name |-> n, popular |-> popular(n), providers |-> namers(n)] :
            n \in UNION {NamesOf(given[p]) : p \in Answering}}

\* When every adapter has answered or failed.
Answer ==
    /\ \A p \in asked : status[p] # "asked"
    /\ ~done
    /\ done' = TRUE
    /\ suggestions' = FirstOf(SortedSet("matchPopular", Merged), limit)
    /\ UNCHANGED <<mode, text, limit, asked, status, held, given, stations, unfit>>

SuggestNext == \/ \E p \in asked : Reply(p) \/ Unreachable(p) \/ TimesOut(p)
               \/ Answer

SuggestSpec == SuggestInit /\ [][SuggestNext]_suggestVars

-----------------------------------------------------------------------------
(* Correctness.                                                                *)

\* Alibaba's adapters and SnappTrip's of flights and buses cut their list by
\* name, by popularity or in the provider's order, and may cut off the very name
\* that was typed: the named exceptions to what follows.
CutsByMatch(p) == p # "alibaba" /\ (p = "snapptrip" => mode = "train")

Showing(name) == {i \in DOMAIN suggestions : suggestions[i].name = name}

\* A suggestion is confirmed: each provider named with it answered, live or from
\* what it remembers, and had that very name; no provider that failed is named
\* and no name is suggested twice.  A slow or broken provider hides nothing: a
\* name another one gave is suggested with that provider's name, or the list is
\* full of names that match at least as well.  And whoever types the whole name
\* of a city finds it on top if any provider had it that cuts by match, however
\* few suggestions were asked for and whatever else is popular.
SuggestionsAreConfirmed ==
    done =>
        /\ \A i \in DOMAIN suggestions : \A p \in suggestions[i].providers :
               status[p] = "answered" /\ suggestions[i].name \in held[p]
        /\ \A name \in Names : Cardinality(Showing(name)) <= 1
        /\ \A p \in Answering : \A name \in NamesOf(given[p]) :
               \/ \E i \in Showing(name) : p \in suggestions[i].providers
               \/ /\ Len(suggestions) = limit
                  /\ \A i \in DOMAIN suggestions : Rank(suggestions[i].name) <= Rank(name)
        /\ \A p \in Answering : \A name \in held[p] :
               (Rank(name) = 0 /\ CutsByMatch(p)) =>
                   Showing(name) = {1} /\ p \in suggestions[1].providers
=============================================================================
