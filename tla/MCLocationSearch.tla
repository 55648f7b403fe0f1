-------------------------- MODULE MCLocationSearch --------------------------
EXTENDS LocationSearch

\* The text is the whole of the second name and begins the first; the last has
\* nothing to do with it.
MCMatch == <<1, 0, 3>>
MCNames == DOMAIN MCMatch

\* One row of each kind that cannot be used, and good ones.
MCRows == [name : MCNames, code : 1 .. 2, popular : BOOLEAN, kind : {"good"}]
          \cup {[name |-> 1, code |-> 3, popular |-> FALSE, kind |-> kind] :
                    kind \in {"skipped", "unfit"}}
\* Codes are only compared with each other: the first row has the first code.
MCPlaceLists ==
    {rows \in UNION {[1 .. n -> MCRows] : n \in 0 .. 2} : rows # <<>> => rows[1].code # 2}
=============================================================================
