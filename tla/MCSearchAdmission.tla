-------------------------- MODULE MCSearchAdmission --------------------------
(***************************************************************************)
(* SearchAdmission on small instances.  Probes are interchangeable, and so *)
(* are providers.                                                          *)
(***************************************************************************)
EXTENDS SearchAdmission, TLC

Interchangeable ==
    Permutations(Probes) \cup Permutations(Providers)
        \cup Permutations(Searches \ (Probes \cup RoundTrips))
=============================================================================
