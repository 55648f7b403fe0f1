--------------------------- MODULE MCProviderRows ---------------------------
EXTENDS ProviderRows

\* The rows that differ from a good one in two fields at most.
MCRows == UNION {Variants(r) : r \in Variants(GoodRow)}
=============================================================================
