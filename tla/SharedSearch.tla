---------------------------- MODULE SharedSearch ----------------------------
(***************************************************************************)
(* What those who ask a provider for the same thing at once may count on   *)
(* (services/search_orchestrator.py, _search_adapter): the provider is     *)
(* asked once for all of them, whoever waits gets what it answers, a       *)
(* search that nobody waits for any more stops in that moment and no       *)
(* sooner, and whoever comes later is given an answer only while it is     *)
(* kept.  Nothing here knows of tasks, counts, callbacks, tables or the    *)
(* limit and age of a cache.                                               *)
(***************************************************************************)
CONSTANTS
    Requests,
    KeyOf       \* what each request asks for

VARIABLES
    asked,      \* the stage of each request, and the search it is served by
    search,     \* the stage of each search, named by the request that began it
    kept        \* ended searches that may still serve who comes

vars == <<asked, search, kept>>

Waiting(s) == {r \in Requests : asked[r].stage = "waiting" /\ asked[r].search = s}

\* The searches under way for what r asks for.
Running(r) == {s \in Requests : KeyOf[s] = KeyOf[r] /\ search[s] = "running"}

Outcome(s) == IF search[s] = "loaded" THEN "served" ELSE "failed"

Init ==
    /\ asked = [r \in Requests |-> [stage |-> "new", search |-> r]]
    /\ search = [r \in Requests |-> "none"]
    /\ kept = {}

Becomes(r, stage, s) == asked' = [asked EXCEPT ![r] = [stage |-> stage, search |-> s]]

\* What is kept may go at any time; of ended searches only new ones come.
KeepsOf(searches) == kept' \subseteq searches

Reuse(r) ==
    /\ asked[r].stage = "new"
    /\ \E s \in kept : KeyOf[s] = KeyOf[r] /\ Becomes(r, Outcome(s), s)
    /\ KeepsOf(kept)
    /\ UNCHANGED search

Join(r) ==
    /\ asked[r].stage = "new"
    /\ \E s \in Running(r) : Becomes(r, "waiting", s)
    /\ KeepsOf(kept)
    /\ UNCHANGED search

Start(r) ==
    /\ asked[r].stage = "new"
    /\ Running(r) = {}
    /\ Becomes(r, "waiting", r)
    /\ search' = [search EXCEPT ![r] = "running"]
    /\ KeepsOf(kept)

End(s) ==
    /\ search[s] = "running"
    /\ \E stage \in {"loaded", "failed"} : search' = [search EXCEPT ![s] = stage]
    /\ KeepsOf(kept \cup {s})
    /\ UNCHANGED asked

Serve(r) ==
    LET s == asked[r].search IN
    /\ asked[r].stage = "waiting"
    /\ search[s] \in {"loaded", "failed"}
    /\ Becomes(r, Outcome(s), s)
    /\ KeepsOf(kept)
    /\ UNCHANGED search

\* Who leaves takes the search along if nobody else waits for it.
Leave(r) ==
    LET s == asked[r].search IN
    /\ asked[r].stage = "waiting"
    /\ Becomes(r, "cancelled", s)
    /\ search' = IF search[s] = "running" /\ Waiting(s) = {r}
                 THEN [search EXCEPT ![s] = "stopped"]
                 ELSE search
    /\ KeepsOf(kept)

Forget == KeepsOf(kept) /\ UNCHANGED <<asked, search>>

Next ==
    \/ \E r \in Requests :
          Reuse(r) \/ Join(r) \/ Start(r) \/ End(r) \/ Serve(r) \/ Leave(r)
    \/ Forget

Spec == Init /\ [][Next]_vars
=============================================================================
