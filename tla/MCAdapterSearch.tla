--------------------------- MODULE MCAdapterSearch ---------------------------
(***************************************************************************)
(* AdapterSearch with all requests but one on the same key, so that joins, *)
(* cancellations and successive flights of one key meet, and a cache too   *)
(* small for both keys.  Requests on the shared key are interchangeable.   *)
(***************************************************************************)
EXTENDS AdapterSearch, TLC

CONSTANTS SharedKey, OtherKey, OtherRequest

MCKeyOf == [r \in Requests |-> IF r = OtherRequest THEN OtherKey ELSE SharedKey]

Interchangeable == Permutations(Requests \ {OtherRequest})
=============================================================================
