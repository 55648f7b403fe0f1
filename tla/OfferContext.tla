---------------------------- MODULE OfferContext ----------------------------
(* How long an offer can be opened.  Four stores age on their own: the raw     *)
(* result of a provider's search, what its adapter remembers of each offer     *)
(* (redirect, details, refund rules), and the offers that searches saved for   *)
(* the details pages.  A search may be answered from a raw result that is      *)
(* older than the offers it saves, every store has a limit, and reading an     *)
(* entry makes it recent but not younger.                                      *)
(*                                                                             *)
(* One adapter; a group has one seller.  An OrderedDict is a sequence, least   *)
(* recent first.  A step is what runs between two awaits that suspend: the     *)
(* repository's lock is never held across one.                                 *)
EXTENDS Integers, Sequences, FiniteSets

CONSTANTS
    Queries,          \* requests, as the key of the raw result cache has them
    Rows,             \* of a query: the provider's offers, in its order
    Searches,         \* calls of SearchOrchestrator.search
    Probes,           \* ... of them those of nearby dates, which save nothing
    Refundable,       \* offers whose refund rules a result may contain
    Selectable,       \* offers whose seats can be chosen
    Ttl,              \* offer_ttl_seconds, of repository and context
    RawTtl,           \* adapter_search_cache_ttl_seconds
    Lag,              \* longest time from a search's start to its end
    ContextLimit,     \* max_entries of an ExpiringLruStore
    OfferLimit,       \* max_entries of the repository
    Horizon           \* bound on the clock

Sources == UNION {{Rows[q][i] : i \in DOMAIN Rows[q]} : q \in Queries}

\* main.py makes RawTtl =< Ttl (lines 96-99).
ASSUME ConstantsAssumption ==
    /\ {Ttl, RawTtl, Lag, ContextLimit, OfferLimit} \subseteq Nat \ {0}
    /\ RawTtl =< Ttl
    /\ Probes \subseteq Searches
    /\ IsFiniteSet(Queries)
    /\ Rows \in [Queries -> Seq(Sources)]

VARIABLES
    now,
    raw,       \* _RawAdapterResultCache
    loading,   \* queries whose provider is being asked
    context,   \* the adapter's stores: "redirects", "details", "refunds"
    pushedOut, \* auxiliary: per store, offers that its limit made it forget
    offers,    \* InMemoryOfferRepository
    search     \* of each search: stage, query, start, and the result it got

vars == <<now, raw, loading, context, pushedOut, offers, search>>

Stores == {"redirects", "details", "refunds"}

-----------------------------------------------------------------------------
(* A store with expiry and a limit *)

Entry(key, value, ttl) == [key |-> key, value |-> value, until |-> now + ttl]

Entries(store) == {store[i] : i \in DOMAIN store}

\* The entries at these places of a store, which stay in their order.
Only(store, places) ==
    [n \in 1..Cardinality(places) |->
        store[CHOOSE i \in places : Cardinality({j \in 1..i : j \in places}) = n]]

Fresh(store) == Only(store, {i \in DOMAIN store : store[i].until > now})

Without(store, key) == Only(store, {i \in DOMAIN store : store[i].key # key})

Held(store) == {e.key : e \in {f \in Entries(store) : f.until > now}}

Lookup(store, key) == CHOOSE e \in Entries(store) : e.key = key

\* What a loop over rows makes of a state.
Loop(Body(_, _), state, rows) ==
    LET after[n \in 0..Len(rows)] == IF n = 0 THEN state ELSE Body(after[n - 1], rows[n])
    IN  after[Len(rows)]

Newest(store, limit) ==
    IF Len(store) =< limit THEN store ELSE SubSeq(store, Len(store) - limit + 1, Len(store))

\* set: expired entries go, the entry becomes the most recent, and the least
\* recent ones go until the limit is kept.
Put(store, entry, limit) == Newest(Append(Without(Fresh(store), entry.key), entry), limit)

\* get: an entry that is read becomes the most recent, or goes if it expired.
Touch(store, key) ==
    LET rest == Without(store, key) IN
    IF key \in Held(store) THEN Append(rest, Lookup(store, key)) ELSE rest

-----------------------------------------------------------------------------
(* What the adapter remembers *)

\* Mutant of Remembered: an offer that is known keeps the age it had.
BugRememberedOnce(ctx, row) ==
    [x \in Stores |->
        IF \/ x = "refunds" /\ ~row.ruled
           \/ row.id \in Held(ctx[x])
        THEN ctx[x]
        ELSE Put(ctx[x], Entry(row.id, "context", Ttl), ContextLimit)]

\* Redirect and details of every offer; rules only of one that came with
\* them: those of an earlier result stay.
Remembered(ctx, row) ==
    [x \in Stores |->
        IF x = "refunds" /\ ~row.ruled THEN ctx[x]
        ELSE Put(ctx[x], Entry(row.id, "context", Ttl), ContextLimit)]

\* The loop over the rows of a result does not suspend.
RememberAll(rows) == Loop(Remembered, context, rows)

\* What the limit made a store forget, until it is remembered again.
PushedOut(rows) ==
    [x \in Stores |->
        LET set == {row.id : row \in {r \in Entries(rows) : x # "refunds" \/ r.ruled}} IN
        (pushedOut[x] \cup Held(context[x]) \cup set) \ Held(context'[x])]

-----------------------------------------------------------------------------
Idle(stage) == [stage |-> stage, query |-> "none", since |-> 0, rows |-> <<>>]

Init ==
    /\ now = 0
    /\ raw = <<>>
    /\ loading = {}
    /\ context = [x \in Stores |-> <<>>]
    /\ pushedOut = [x \in Stores |-> {}]
    /\ offers = <<>>
    /\ search = [s \in Searches |-> Idle("new")]

Live(s) == search[s].stage \in {"waiting", "gathered", "normalised"}

\* A search ends within its timeouts.
Tick ==
    /\ now < Horizon
    /\ \A s \in Searches : Live(s) => now < search[s].since + Lag
    /\ now' = now + 1
    /\ UNCHANGED <<raw, loading, context, pushedOut, offers, search>>

\* Mutant of SearchHit: the age of a raw result is not looked at.
BugSearchHit(s, q) ==
    /\ search[s].stage = "new"
    /\ \E e \in Entries(raw) :
          /\ e.key = q
          /\ search' = [search EXCEPT ![s] = [stage |-> "gathered", query |-> q, since |-> now,
                                              rows |-> e.value]]
    /\ UNCHANGED <<now, raw, loading, context, pushedOut, offers>>

\* _search_adapter: a fresh raw result, or the load of that query.
SearchHit(s, q) ==
    /\ search[s].stage = "new"
    /\ q \in Held(raw)
    /\ raw' = Touch(raw, q)
    /\ search' = [search EXCEPT ![s] = [stage |-> "gathered", query |-> q, since |-> now,
                                        rows |-> Lookup(raw, q).value]]
    /\ UNCHANGED <<now, loading, context, pushedOut, offers>>

SearchMiss(s, q) ==
    /\ search[s].stage = "new"
    /\ q \notin Held(raw)
    /\ raw' = Without(raw, q)
    /\ loading' = loading \cup {q}
    /\ search' = [search EXCEPT ![s] = [stage |-> "waiting", query |-> q, since |-> now,
                                        rows |-> <<>>]]
    /\ UNCHANGED <<now, context, pushedOut, offers>>

\* The provider answers: every offer is remembered, the result is cached and
\* handed to whoever waits for it.
Load(q) ==
    /\ q \in loading
    /\ \E ruled \in SUBSET Refundable :
          LET rows == [i \in DOMAIN Rows[q] |->
                          [id |-> Rows[q][i], ruled |-> Rows[q][i] \in ruled]]
          IN  /\ context' = RememberAll(rows)
              /\ pushedOut' = PushedOut(rows)
              /\ raw' = Put(raw, Entry(q, rows, RawTtl), Cardinality(Queries))
              /\ search' = [s \in Searches |->
                               IF search[s].stage = "waiting" /\ search[s].query = q
                               THEN [search[s] EXCEPT !.stage = "gathered", !.rows = rows]
                               ELSE search[s]]
    /\ loading' = loading \ {q}
    /\ UNCHANGED <<now, offers>>

LoadFails(q) ==
    /\ q \in loading
    /\ loading' = loading \ {q}
    /\ search' = [s \in Searches |->
                     IF search[s].stage = "waiting" /\ search[s].query = q
                     THEN Idle("ended")
                     ELSE search[s]]
    /\ UNCHANGED <<now, raw, context, pushedOut, offers>>

TouchRow(store, row) == Touch(store, row.id)

\* normalize asks the adapter for the redirect of each offer; one that is not
\* remembered fails the whole provider.
Normalise(s) ==
    LET rows    == search[s].rows
        missing == {i \in DOMAIN rows : rows[i].id \notin Held(context["redirects"])}
        read    == {i \in DOMAIN rows : \A j \in missing : i =< j}
    IN
    /\ search[s].stage = "gathered"
    /\ context' = [context EXCEPT !["redirects"] =
                      Loop(TouchRow, @, SubSeq(rows, 1, Cardinality(read)))]
    /\ search' = [search EXCEPT ![s] = IF missing = {} THEN [@ EXCEPT !.stage = "normalised"]
                                        ELSE Idle("malformed")]
    /\ UNCHANGED <<now, raw, loading, pushedOut, offers>>

\* Mutant of SaveAll: what was saved last goes first.
BugSaveAll(s) ==
    LET SaveRow(store, row) ==
            Append(Without(store, <<s, row.id>>), Entry(<<s, row.id>>, row.ruled, Ttl))
        all == Loop(SaveRow, Fresh(offers), search[s].rows)
    IN  IF Len(all) =< OfferLimit THEN all ELSE SubSeq(all, 1, OfferLimit)

\* save_all: identifiers carry the search's, so that each search saves its own.
SaveAll(s) ==
    LET SaveRow(store, row) ==
            Append(Without(store, <<s, row.id>>), Entry(<<s, row.id>>, row.ruled, Ttl))
    IN  Newest(Loop(SaveRow, Fresh(offers), search[s].rows), OfferLimit)

\* The other leg or providers of the search may have taken longer.
Save(s) ==
    /\ search[s].stage = "normalised"
    /\ IF s \in Probes
       THEN /\ search' = [search EXCEPT ![s] = Idle("ended")]
            /\ UNCHANGED offers
       ELSE IF Len(search[s].rows) > OfferLimit
       THEN /\ search' = [search EXCEPT ![s] = Idle("ended")]
            /\ UNCHANGED offers
       ELSE /\ search' = [search EXCEPT ![s] = [@ EXCEPT !.stage = "answered", !.since = 0]]
            /\ offers' = SaveAll(s)
    /\ UNCHANGED <<now, raw, loading, context, pushedOut>>

-----------------------------------------------------------------------------
(* The details pages, of any offer that some search answered with *)

Answered == {o \in Searches \X Sources :
                /\ search[o[1]].stage = "answered"
                /\ o[2] \in {row.id : row \in Entries(search[o[1]].rows)}}

GetOffer(o) ==
    /\ offers' = Touch(offers, o)
    /\ UNCHANGED <<now, raw, loading, context, pushedOut, search>>

\* The link was saved with the offer: the adapter is not asked for it.
PreviewRedirect(o) == GetOffer(o)

GetDetails(o) ==
    /\ offers' = Touch(offers, o)
    /\ context' = IF o \in Held(offers)
                  THEN [context EXCEPT !["details"] = Touch(@, o[2])] ELSE context
    /\ UNCHANGED <<now, raw, loading, pushedOut, search>>

\* Refused unless the offer was saved as one whose seats can be chosen; the
\* adapter reads its details before it asks the provider.
GetSeatMap(o) == IF o[2] \in Selectable THEN GetDetails(o) ELSE GetOffer(o)

\* Refused unless the offer was saved with rules; details come first.
GetRefundRules(o) ==
    /\ offers' = Touch(offers, o)
    /\ context' =
          IF ~(o \in Held(offers) /\ Lookup(offers, o).value) THEN context
          ELSE [context EXCEPT !["details"] = Touch(@, o[2]),
                               !["refunds"] = IF o[2] \in Held(context["details"])
                                              THEN Touch(@, o[2]) ELSE @]
    /\ UNCHANGED <<now, raw, loading, pushedOut, search>>

Next ==
    \/ Tick
    \/ \E s \in Searches :
          \/ \E q \in Queries : SearchHit(s, q) \/ SearchMiss(s, q)
          \/ Normalise(s)
          \/ Save(s)
    \/ \E q \in Queries : Load(q) \/ LoadFails(q)
    \/ \E o \in Answered :
          \/ GetOffer(o)
          \/ PreviewRedirect(o)
          \/ GetDetails(o)
          \/ GetSeatMap(o)
          \/ GetRefundRules(o)

Spec == Init /\ [][Next]_vars

-----------------------------------------------------------------------------
(* Properties *)

\* An offer that can be found can be opened, with its rules if it was offered
\* with rules: what the adapter remembers may be gone only if a limit pushed
\* it out, or in the last moments of the offer's own time, which a raw result
\* of some age costs it (context.py:39, search_orchestrator.py:556, 576).
ContextOutlivesOffers ==
    \A e \in Entries(Fresh(offers)), x \in {"details", "refunds"} :
        (x = "details" \/ e.value) =>
            \/ e.key[2] \in Held(context[x]) \cup pushedOut[x]
            \/ e.until - now < RawTtl + Lag

\* The context outlives a raw result by Ttl - RawTtl, which main.py lets be
\* zero.  A provider fails for the want of a redirect only when more offers
\* came in than its store holds, or when the search has run for longer than
\* that: however old the result was that it found, a search that is quicker
\* never fails by the age of it (search_orchestrator.py:362, 446-448).
ResultsNormalise ==
    [][\A s \in Searches :
          /\ search[s].stage # "malformed" /\ search'[s].stage = "malformed"
          /\ now - search[s].since =< Ttl - RawTtl
          => \E row \in Entries(search[s].rows) : row.id \in pushedOut["redirects"]]_vars

\* A search that is answered can be opened in full, whatever other searches
\* saved (offer_repository.py:22-33); and offers of others go only by age or
\* because there is no room left.
AnswersAreOnSale ==
    [][/\ \A s \in Searches \ Probes :
             search[s].stage = "normalised" /\ search'[s].stage = "answered" =>
                 \A row \in Entries(search[s].rows) :
                     \E e \in Entries(offers') : e.key = <<s, row.id>> /\ e.until = now + Ttl
       /\ \A e \in Entries(Fresh(offers)) :
             e \notin Entries(offers') => Len(offers') = OfferLimit]_vars
=============================================================================
