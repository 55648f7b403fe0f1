--------------------------- MODULE MCOfferContext ---------------------------
EXTENDS OfferContext

MCRows == [q \in {"q1", "q2"} |-> IF q = "q1" THEN <<"a", "b", "c">> ELSE <<"c", "d">>]
=============================================================================
