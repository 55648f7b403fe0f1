---------------------------- MODULE ProviderRows ----------------------------
(* How a provider adapter reads the list of rows its provider sent: every row  *)
(* becomes an offer, is dropped because it is nothing to sell for this search, *)
(* or is malformed.  The list as a whole then answers the search with the      *)
(* offers, with none, or with "the provider is unavailable" when not one row   *)
(* could be read.                                                              *)
(*                                                                             *)
(* A row is what its reader can tell apart: whether the identity and the texts *)
(* it needs are there, and how its times, route, fare and seats stand to the   *)
(* search.  The order of the tests is the code's, for it decides whether a row *)
(* with two defects is malformed or dropped.                                   *)
(*                                                                             *)
(* FlyToday sends its buses as a list of legs, each with a list of rows; the   *)
(* other providers send the list of rows itself.                               *)
EXTENDS ProviderAdapters, Integers, Sequences, FiniteSets, FiniteSetsExt

CONSTANTS
    Rows,       \* the rows a provider may send
    MaxItems    \* bound: the items of a list

VARIABLES
    seatWish,   \* whether the search requires choosing a seat
    legs,       \* the best of the legs so far; a list without legs is its own
    list,       \* what the list of the leg had so far
    unread,     \* the list of an earlier leg had items, none of them an object
    items,      \* how many items of the lists were looked at
    read,       \* how many of them were objects, the rows
    malformed,  \* how many rows were malformed
    reasons,    \* history: why rows were dropped
    offers,     \* what was made of the others
    answer      \* "" until the list is through

legVars  == <<legs, list, unread>>
listVars == <<adapter, seatWish, legVars, items, read, malformed, reasons, offers, answer>>

-----------------------------------------------------------------------------
(* Rows.  number() and parse_datetime() give None for what they cannot read,   *)
(* which is "none" for a fare or a time and "unknown" for seats; a "fraction"  *)
(* is a number of seats below the party that rounds up to it; "few" is more    *)
(* than none and less than the party.  A missing city is the route "none".     *)
(* What decides whether a row is open for sale is "unknown" when it is there   *)
(* but unreadable, or missing where the reader wants it.                       *)

RowField ==
    [id      |-> BOOLEAN,    \* an identity the redirect needs
     whole   |-> BOOLEAN,    \* the texts, legs and terminals
     late    |-> BOOLEAN,    \* the texts tested after the row's merits
     fits    |-> BOOLEAN,    \* the fare type, stops, class or coach asked for
     picks   |-> {"yes", "no", "unknown"},     \* a bus lets its seats be chosen,
                                               \* a flight has no stops
     nested  |-> {"whole", "broken", "skipped"},    \* the row's list of prices:
                                               \* one is malformed, or none is an object
     when    |-> {"day", "other", "none"},
     arrival |-> {"after", "before", "none"},
     route   |-> {"same", "other", "none"},
     fare    |-> {"known", "zero", "negative", "none"},
     seats   |-> {"enough", "few", "none", "negative", "fraction", "unknown"},
     open    |-> {"yes", "no", "unknown"}]

ASSUME RowsAssumption ==
    \A r \in Rows :
        DOMAIN r = DOMAIN RowField /\ \A f \in DOMAIN RowField : r[f] \in RowField[f]

GoodRow ==
    [id |-> TRUE, whole |-> TRUE, late |-> TRUE, fits |-> TRUE, picks |-> "yes",
     nested |-> "whole", when |-> "day", arrival |-> "after", route |-> "same",
     fare |-> "known", seats |-> "enough", open |-> "yes"]

\* The rows that differ from r in one field at most.
Variants(r) == UNION {{[r EXCEPT ![f] = v] : v \in RowField[f]} : f \in DOMAIN r}

Unpriced(r)  == r.fare \in {"none", "negative"}
Unpaid(r)    == r.fare # "known"
Uncounted(r) == r.seats \in {"unknown", "fraction"}
TooFew(r)    == r.seats \in {"few", "none", "negative"}
Timeless(r)  == r.when = "none" \/ r.arrival # "after"

-----------------------------------------------------------------------------
(* The readers.  A reader is a list of tests, tried in order; a row that none  *)
(* of them stops is an offer.                                                  *)

Malformed(c) == [verdict |-> "malformed", holds |-> c]

Dropped(c) == [verdict |-> "dropped", holds |-> c]

Verdict(tests) ==
    LET hits == {i \in DOMAIN tests : tests[i].holds}
    IN  IF hits = {} THEN "offer" ELSE tests[Min(hits)].verdict

AlibabaBusRow(r) == <<
    Malformed(~r.id \/ r.when = "none" \/ Unpriced(r) \/ ~r.whole),
    Dropped(r.when # "day" \/ r.route # "same" \/ r.open # "yes"),
    Dropped(seatWish /\ (TooFew(r) \/ r.seats = "fraction"))>>

AlibabaFlightRow(r) == <<
    Dropped(r.open = "no" \/ r.seats \in {"none", "negative"}),
    Malformed(~r.id \/ Timeless(r) \/ ~r.whole),
    Malformed(r.route # "same" \/ r.when # "day"),
    Dropped(~r.fits),
    Dropped(r.fare = "none"),
    Malformed(r.fare = "negative"),
    Malformed(~r.late)>>

AlibabaTrainRow(r) == <<
    Malformed(Timeless(r) \/ Unpriced(r) \/ ~r.id),
    Dropped(r.when # "day" \/ r.route # "same"),
    Malformed(~r.whole),
    Dropped(r.seats = "negative"),
    Malformed(~r.late)>>

SnappTripFlightRow(r) == <<
    Malformed(\/ ~r.id
              \/ r.route # "same"
              \/ r.when # "day"
              \/ r.arrival # "after"
              \/ Unpriced(r)
              \/ ~r.whole),
    Dropped(~r.fits),
    Malformed(~r.late)>>

\* Mutant of SnappTripTrainRow: the seats are compared before they are read.
BugSnappTripTrainRow(r) == <<
    Malformed(~r.id \/ r.when = "none" \/ r.route = "none" \/ ~r.whole \/ Unpriced(r)),
    Malformed(r.open = "unknown"),
    Dropped(r.open = "no" \/ r.seats # "enough")>>

SnappTripTrainRow(r) == <<
    Malformed(\/ ~r.id
              \/ r.when = "none"
              \/ r.route = "none"
              \/ ~r.whole
              \/ Uncounted(r)
              \/ r.seats = "negative"
              \/ Unpriced(r)),
    Malformed(r.open = "unknown"),
    Dropped(r.open = "no" \/ TooFew(r)),
    Dropped(r.when # "day" \/ r.route # "same" \/ ~r.fits),
    Malformed(r.arrival # "after"),
    Malformed(~r.late)>>

\* A search that requires choosing a seat never gets here: it is declined.
SnappTripBusRow(r) == <<
    Malformed(~r.id \/ r.when = "none" \/ r.arrival = "before" \/ Unpriced(r) \/ ~r.whole),
    Dropped(r.when # "day" \/ r.route # "same" \/ r.open # "yes")>>

\* One of a flight's prices; another one that is malformed takes the flight and
\* all its offers with it, and prices that are no objects are passed over.
MrBilitFlightRow(r) == <<
    Malformed(r.route # "same" \/ r.when # "day" \/ r.arrival # "after" \/ ~r.whole),
    Dropped(r.picks = "no"),
    Malformed(r.nested = "broken"),
    Dropped(r.nested = "skipped"),
    Dropped(~r.id \/ Uncounted(r) \/ TooFew(r)),
    Malformed(Unpaid(r)),
    Dropped(~r.fits),
    Malformed(~r.late)>>

\* One of a train's classes; the groups and classes that are no objects, and the
\* groups without a readable type of sale, are passed over.
MrBilitTrainRow(r) == <<
    Malformed(~r.whole \/ r.when # "day" \/ r.arrival # "after" \/ r.route # "same"),
    Malformed(r.nested = "broken"),
    Dropped(r.nested = "skipped"),
    Dropped(~r.fits),
    Malformed(~r.id \/ Unpaid(r) \/ Uncounted(r) \/ r.seats = "negative"),
    Dropped(r.open # "yes" \/ TooFew(r)),
    Malformed(~r.late)>>

MrBilitBusRow(r) == <<
    Malformed(\/ ~r.id
              \/ r.when = "none"
              \/ r.arrival = "before"
              \/ Unpaid(r)
              \/ Uncounted(r)
              \/ r.seats = "negative"
              \/ ~r.whole),
    Dropped(r.when # "day" \/ TooFew(r) \/ r.open # "yes" \/ r.route # "same"),
    Dropped(seatWish /\ r.picks # "yes")>>

FlyTodayFlightRow(r) == <<
    Malformed(r.route # "same" \/ r.when # "day" \/ r.arrival # "after" \/ ~r.whole),
    Dropped(~r.fits),
    Malformed(Unpaid(r)),
    Dropped(r.seats # "enough"),
    Malformed(~r.id)>>

\* Mutant of FlyTodayBusRow: the day of the row is not compared.
BugFlyTodayBusRow(r) == <<
    Malformed(~r.id \/ r.when = "none" \/ Unpaid(r) \/ Uncounted(r) \/ r.route # "same" \/ ~r.whole),
    Dropped(r.open = "no" \/ TooFew(r))>>

FlyTodayBusRow(r) == <<
    Malformed(\/ ~r.id
              \/ r.when # "day"
              \/ Unpaid(r)
              \/ Uncounted(r)
              \/ r.route # "same"
              \/ ~r.whole),
    Dropped(r.open = "no" \/ TooFew(r))>>

BookingFlightRow(r) == <<
    Dropped(r.open = "no"),
    Malformed(r.open = "unknown"),
    Malformed(~r.id \/ ~r.whole),
    Malformed(r.when # "day" \/ r.arrival # "after"),
    Malformed(Unpaid(r)),
    Dropped(~r.fits),
    Malformed(~r.late),
    Dropped(r.seats # "enough")>>

\* The row has a clock time; the day and the cities are the search's own.
PayanehaBusRow(r) == <<
    Malformed(~r.id \/ ~r.whole \/ r.when = "none" \/ Unpaid(r) \/ Uncounted(r)),
    Dropped(TooFew(r))>>

Safar724BusRow(r) == <<
    Malformed(~r.id \/ r.when = "none" \/ Unpaid(r) \/ Uncounted(r) \/ ~r.whole),
    Dropped(r.open # "yes" \/ TooFew(r))>>

Tests(r) ==
    CASE adapter = "alibaba_bus"      -> AlibabaBusRow(r)
      [] adapter = "alibaba_flight"   -> AlibabaFlightRow(r)
      [] adapter = "alibaba_train"    -> AlibabaTrainRow(r)
      [] adapter = "snapptrip_flight" -> SnappTripFlightRow(r)
      [] adapter = "snapptrip_train"  -> SnappTripTrainRow(r)
      [] adapter = "snapptrip_bus"    -> SnappTripBusRow(r)
      [] adapter = "mrbilit_flight"   -> MrBilitFlightRow(r)
      [] adapter = "mrbilit_train"    -> MrBilitTrainRow(r)
      [] adapter = "mrbilit_bus"      -> MrBilitBusRow(r)
      [] adapter = "flytoday_flight"  -> FlyTodayFlightRow(r)
      [] adapter = "flytoday_bus"     -> FlyTodayBusRow(r)
      [] adapter = "booking_flight"   -> BookingFlightRow(r)
      [] adapter = "payaneha_bus"     -> PayanehaBusRow(r)
      [] adapter = "safar724_bus"     -> Safar724BusRow(r)

Reading(r) == Verdict(Tests(r))

-----------------------------------------------------------------------------
(* The list.                                                                   *)

ListInit ==
    /\ adapter \in AllAdapters
    /\ seatWish \in IF adapter \in {"alibaba_bus", "mrbilit_bus"} THEN BOOLEAN ELSE {FALSE}
    /\ legs = IF adapter = "flytoday_bus" THEN "empty" ELSE "matched"
    /\ list = "empty"
    /\ unread = FALSE
    /\ items = 0
    /\ read = 0
    /\ malformed = 0
    /\ reasons = {}
    /\ offers = {}
    /\ answer = ""

\* A list that has items, none of which is an object, is refused; of legs, one
\* such list is enough.
Unreadable == unread \/ list = "odd"

\* The next leg of FlyToday's answer is no object, or not of this route and day
\* or without a list of rows, or its list of rows follows.  The code collects
\* the rows of all legs before it reads the first; the answer is the same.
Leg(kind) ==
    /\ answer = ""
    /\ adapter = "flytoday_bus"
    /\ legs' = IF legs = "matched" \/ (legs = "mismatched" /\ kind = "odd")
               THEN legs ELSE kind
    /\ IF kind = "matched" THEN unread' = Unreadable /\ list' = "empty"
                           ELSE UNCHANGED <<unread, list>>
    /\ UNCHANGED <<adapter, seatWish, items, read, malformed, reasons, offers, answer>>

More == answer = "" /\ legs = "matched" /\ items < MaxItems

\* An item of the list that is no object is left out.  Of Payaneha's page it is
\* the wrapper of a result that no row could be cut from.
Skip ==
    /\ More
    /\ items' = items + 1
    /\ list' = IF list = "empty" THEN "odd" ELSE list
    /\ UNCHANGED <<adapter, seatWish, legs, unread, read, malformed, reasons, offers, answer>>

\* A row that is nothing to sell for this search, whatever else is wrong with it.
Unsuitable(r) ==
    \/ r.when = "other"
    \/ r.route = "other"
    \/ r.open = "no"
    \/ TooFew(r)
    \/ ~r.fits
    \/ r.picks = "no" /\ (seatWish \/ adapter = "mrbilit_flight")

\* A row whose missing or unreadable value its reader takes for "nothing to
\* sell".
ReadsAsRefusal(r) ==
    \/ r.fare = "none" /\ adapter = "alibaba_flight"
    \/ ~r.id /\ adapter = "mrbilit_flight"
    \/ Uncounted(r) /\ adapter \in {"mrbilit_flight", "flytoday_flight", "booking_flight"}
    \/ r.open = "unknown" /\ adapter \in {"alibaba_bus", "snapptrip_bus", "mrbilit_train",
                                         "mrbilit_bus", "safar724_bus"}
    \/ r.route = "none" /\ adapter \in {"alibaba_bus", "alibaba_train", "snapptrip_bus", "mrbilit_bus"}
    \/ r.nested = "skipped" /\ adapter \in {"mrbilit_flight", "mrbilit_train"}
    \/ r.picks = "unknown" /\ adapter = "mrbilit_bus" /\ seatWish
    \/ r.seats = "fraction" /\ adapter = "alibaba_bus" /\ seatWish

\* What an offer says, as far as it can be wrong.
OfferOf(r) ==
    [when |-> r.when, route |-> r.route, fare |-> r.fare, seats |-> r.seats, fits |-> r.fits]

\* Why a row was dropped.
ReasonsOf(r) ==
    (IF Unsuitable(r) THEN {"unsuitable"} ELSE {}) \cup (IF ReadsAsRefusal(r) THEN {"gap"} ELSE {})

Read(r) ==
    /\ More
    /\ items' = items + 1
    /\ read' = read + 1
    /\ list' = "rows"
    /\ malformed' = IF Reading(r) = "malformed" THEN malformed + 1 ELSE malformed
    /\ reasons' = IF Reading(r) = "dropped" THEN reasons \cup ReasonsOf(r) ELSE reasons
    /\ offers' = IF Reading(r) = "offer" THEN offers \cup {OfferOf(r)} ELSE offers
    /\ UNCHANGED <<adapter, seatWish, legs, unread, answer>>

\* There are legs, but none of this search.
NoLegFits == legs \in {"odd", "mismatched"}

NoneReadable == read > 0 /\ malformed = read

Finish ==
    /\ answer = ""
    /\ answer' = IF NoLegFits \/ Unreadable \/ NoneReadable THEN "unavailable"
                 ELSE IF offers = {} THEN "none" ELSE "offers"
    /\ UNCHANGED <<adapter, seatWish, legVars, items, read, malformed, reasons, offers>>

\* The offers that a search keeps of an answer: sold-out rows and rows without
\* a price that an adapter lets through are left out.
OnSale ==
    {o \in offers : o.fare = "known" /\ o.seats \in {"enough", "fraction", "unknown"}}

Done == answer # "" /\ UNCHANGED listVars

ListNext ==
    \/ \E kind \in {"odd", "mismatched", "matched"} : Leg(kind)
    \/ Skip
    \/ \E r \in Rows : Read(r)
    \/ Finish
    \/ Done

ListSpec == ListInit /\ [][ListNext]_listVars

-----------------------------------------------------------------------------
(* Some readers take a day or a route on trust.                               *)

\* The row has no date (safar724) or its date is not read (payaneha).
TrustsDay == {"payaneha_bus", "safar724_bus"}

\* The row's own cities or airports are not compared with the search's.
TrustsRoute == {"payaneha_bus", "safar724_bus", "booking_flight"}

\* Whatever rows a provider mixes, each offer that a search keeps is for the day
\* and the route that were asked for, of the kind asked for, with a price, and
\* never of a vehicle known to have too few seats.  Half of that is tested by
\* the reader of each provider, half by the search that filters its answers.
OffersAreSound ==
    \A o \in OnSale :
        /\ adapter \in TrustsDay \/ o.when = "day"
        /\ adapter \in TrustsRoute \/ o.route = "same"
        /\ adapter \in FlightAdapters \cup {"snapptrip_train", "mrbilit_train"} => o.fits
        /\ o.fare = "known"
        /\ o.seats \notin {"few", "none", "negative"}

\* The one answer that is refused although rows of it were readable: a leg of
\* FlyToday's buses whose list cannot be read takes the other legs with it.
LegUnreadable == adapter = "flytoday_bus" /\ Unreadable

\* "No offers" and "unavailable" are never mistaken for each other: a provider
\* that sent legs or rows answers "none" only if a row was dropped because it is
\* nothing to sell, or because of one of the gaps that its reader takes for that
\* (ReadsAsRefusal names them); and it is called unavailable only if it sent
\* something and not one row could be read, or a leg's whole list could not.
AnswerIsHonest ==
    /\ answer = "none" /\ (items > 0 \/ NoLegFits) => reasons # {}
    /\ answer = "unavailable" =>
          /\ items > 0 \/ NoLegFits
          /\ malformed = read \/ LegUnreadable

\* The shared parser refuses a list of changed shape because "treating that
\* payload as an empty result would falsely tell callers that no offers exist".
\* Then a list in which every row lacks the same value should not read as "no
\* offers" either.
ChangedShapeIsNotEmpty == answer = "none" /\ read > 0 => "unsuitable" \in reasons
=============================================================================
