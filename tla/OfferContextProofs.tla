------------------------- MODULE OfferContextProofs -------------------------
(* That what a search or a page needs of an adapter is remembered for as     *)
(* long as it is needed, for all queries, rows, searches, limits and times   *)
(* that ConstantsAssumption allows.                                          *)
(*                                                                           *)
(* The argument is about times.  Loading a result makes its adapter remember *)
(* every row for Ttl, and the result is kept for RawTtl; so whenever the     *)
(* result is found, its rows are known for Ttl - RawTtl more than it has     *)
(* itself, and a search that is answered by it has that much left when it    *)
(* begins (RawKnown, SearchKnown).  The search takes Lag at most, so that an *)
(* offer it saves is known for all its time but Lag + RawTtl (OfferKnown).   *)
(* Steps keep this because none forgets an entry before its time, unless its *)
(* store is full; then the auxiliary pushedOut names it (KnownStays,         *)
(* StepPreserves).                                                           *)
(*                                                                           *)
(* First come an induction over numbers and loops, what the operations on    *)
(* stores do, and what the three loops over rows do; then one lemma per      *)
(* action.                                                                   *)
EXTENDS OfferContext, FiniteSetTheorems, SequenceTheorems, WellFoundedInduction, TLAPS

-----------------------------------------------------------------------------
(* Induction.  The theorems of the library take the property to be shown as    *)
(* an operator; here it is the set of the numbers that have it.                *)

\* A set of numbers that is closed under successors up to a bound has them all.
LEMMA UpTo ==
    ASSUME NEW bound \in Nat, NEW good \in SUBSET (0..bound), 0 \in good,
           \A n \in good : n < bound => n + 1 \in good
    PROVE  \A n \in 0..bound : n \in good
<1>. DEFINE bad == {n \in Nat : n =< bound /\ n \notin good}
<1>1. SUFFICES ASSUME bad # {} PROVE FALSE
  OBVIOUS
<1>2. \E x \in bad : \A y \in bad : ~(<<y, x>> \in OpToRel(<, Nat))
  BY <1>1, NatLessThanWellFounded, WFMin
<1>3. PICK x \in bad : \A y \in bad : ~(<<y, x>> \in OpToRel(<, Nat))
  BY <1>2
<1>4. \A y \in Nat : y < x => <<y, x>> \in OpToRel(<, Nat)
  BY DEF OpToRel
<1>5. \A y \in bad : ~(y < x)
  BY <1>3, <1>4, Zenon
<1>6. x # 0 /\ x \in Nat /\ x =< bound /\ x \notin good
  OBVIOUS
<1>7. x - 1 \in Nat /\ x - 1 < x /\ x - 1 < bound
  BY <1>6
<1>8. x - 1 \notin bad
  BY <1>5, <1>7
<1>9. x - 1 \in good
  BY <1>7, <1>8
<1>10. (x - 1) + 1 \in good
  BY <1>7, <1>9
<1>. QED
  BY <1>6, <1>10

\* The states before the first and after each of the rows, of a loop with body F.
RunOf(g, F, state, rows) ==
    /\ g[0] = state
    /\ \A n \in 1..Len(rows) : g[n] = F[<<g[n - 1], rows[n]>>]

\* A loop whose body takes states and rows to states runs: it has a state after
\* every row.
LEMMA LoopRuns ==
    ASSUME NEW States, NEW R, NEW F \in [States \X R -> States],
           NEW state \in States, NEW rows \in Seq(R)
    PROVE  \E g \in [0..Len(rows) -> States] : RunOf(g, F, state, rows)
<1>. DEFINE bound == Len(rows)
            Runs(g, n) == /\ g \in [0..n -> States]
                          /\ g[0] = state
                          /\ \A m \in 1..n : g[m] = F[<<g[m - 1], rows[m]>>]
            good == {n \in 0..bound : \E g : Runs(g, n)}
<1>1. bound \in Nat /\ \A n \in 1..bound : rows[n] \in R
  BY LenProperties, ElementOfSeq
<1>2. 0 \in good
  <2>1. Runs([m \in 0..0 |-> state], 0)
    OBVIOUS
  <2>2. \E g : Runs(g, 0)
    BY <2>1
  <2>3. 0 \in 0..bound
    BY <1>1
  <2>. QED
    BY <2>2, <2>3
<1>3. ASSUME NEW n \in good, n < bound PROVE n + 1 \in good
  <2>1. n \in Nat /\ n + 1 \in 1..bound
    BY <1>1, <1>3
  <2>2. PICK g : Runs(g, n)
    OBVIOUS
  <2>. DEFINE h == [m \in 0..(n + 1) |-> IF m = n + 1 THEN F[<<g[n], rows[n + 1]>>] ELSE g[m]]
  <2>3. \A m \in 0..n : g[m] \in States
    BY <2>2
  <2>4. F[<<g[n], rows[n + 1]>>] \in States
    <3>1. g[n] \in States /\ rows[n + 1] \in R
      BY <1>1, <2>1, <2>3
    <3>. QED
      BY <3>1
  <2>5. \A m \in 0..(n + 1) : m # n + 1 => m \in 0..n
    BY <2>1
  <2>6. h \in [0..(n + 1) -> States]
    BY <2>3, <2>4, <2>5
  <2>7. h[0] = state
    BY <2>1, <2>2
  <2>8. ASSUME NEW m \in 1..(n + 1) PROVE h[m] = F[<<h[m - 1], rows[m]>>]
    <3>1. m - 1 \in 0..(n + 1) /\ m - 1 # n + 1 /\ m \in 0..(n + 1)
      BY <2>1
    <3>2. h[m - 1] = g[m - 1]
      BY <3>1
    <3>3. CASE m = n + 1
      BY <2>1, <3>1, <3>2, <3>3
    <3>4. CASE m # n + 1
      <4>1. m \in 1..n
        BY <2>1, <3>4
      <4>. QED
        BY <2>2, <3>1, <3>2, <3>4, <4>1
    <3>. QED
      BY <3>3, <3>4
  <2>. HIDE DEF h
  <2>9. Runs(h, n + 1)
    BY <2>6, <2>7, <2>8
  <2>. QED
    BY <2>1, <2>9
<1>4. \A n \in 0..bound : n \in good
  <2>. HIDE DEF good, bound
  <2>1. good \in SUBSET (0..bound)
    BY DEF good
  <2>. QED
    BY <1>1, <1>2, <1>3, <2>1, UpTo
<1>5. bound \in good
  BY <1>1, <1>4
<1>. QED
  BY <1>5 DEF RunOf

-----------------------------------------------------------------------------
(* Stores as sequences *)

\* A key has one entry at most.
Once(store) == \A i, j \in DOMAIN store : store[i].key = store[j].key => i = j

\* Which of the places in K the place i is.
RankOf(i, K) == Cardinality({j \in 1..i : j \in K})

\* Among finitely many places every rank occurs once, and after a place there
\* are no more of them than there are places at all.
LEMMA PlaceOfRank ==
    ASSUME NEW len \in Nat, NEW K \in SUBSET (1..len)
    PROVE  /\ Cardinality(K) \in Nat
           /\ \A j \in K : RankOf(j, K) \in 1..Cardinality(K)
           /\ \A i, j \in K : RankOf(i, K) = RankOf(j, K) => i = j
           /\ \A n \in 1..Cardinality(K) : \E j \in K : RankOf(j, K) = n
           /\ \A j \in K : Cardinality(K) - RankOf(j, K) =< len - j
<1>. DEFINE below(j) == {k \in 1..j : k \in K}
            above(j) == {k \in K : k > j}
            rank == [j \in K |-> Cardinality(below(j))]
<1>1. IsFiniteSet(1..len) /\ IsFiniteSet(K) /\ Cardinality(K) \in Nat
  <2>1. IsFiniteSet(1..len)
    BY FS_Interval
  <2>2. IsFiniteSet(K)
    BY <2>1, FS_Subset
  <2>. QED
    BY <2>1, <2>2, FS_CardinalityType
<1>2. ASSUME NEW j \in K
      PROVE  IsFiniteSet(below(j)) /\ Cardinality(below(j)) \in 1..Cardinality(K)
  <2>1. below(j) \in SUBSET K /\ j \in below(j)
    OBVIOUS
  <2>2. IsFiniteSet(below(j)) /\ Cardinality(below(j)) =< Cardinality(K)
    BY <1>1, <2>1, FS_Subset
  <2>3. Cardinality(below(j)) \in Nat /\ Cardinality(below(j)) # 0
    BY <2>1, <2>2, FS_CardinalityType, FS_EmptySet
  <2>. QED
    BY <1>1, <2>2, <2>3
<1>3. ASSUME NEW i \in K, NEW j \in K, i < j
      PROVE  rank[i] # rank[j]
  <2>1. below(i) \in SUBSET below(j) /\ j \in below(j) /\ j \notin below(i)
    BY <1>3
  <2>2. below(i) # below(j) /\ IsFiniteSet(below(j))
    BY <1>2, <2>1
  <2>3. Cardinality(below(i)) # Cardinality(below(j))
    BY <2>1, <2>2, FS_Subset
  <2>. QED
    BY <2>3
<1>4. rank \in [K -> 1..Cardinality(K)]
  BY <1>2
<1>5. \A i, j \in K : rank[i] = rank[j] => i = j
  <2>. HIDE DEF rank
  <2>. QED
    BY <1>3
<1>6. \A n \in 1..Cardinality(K) : \E j \in K : rank[j] = n
  <2>1. IsFiniteSet(1..Cardinality(K)) /\ Cardinality(1..Cardinality(K)) = Cardinality(K)
    BY <1>1, FS_Interval
  <2>. HIDE DEF rank
  <2>2. rank \in Injection(K, 1..Cardinality(K))
    BY <1>4, <1>5 DEF Injection, IsInjective
  <2>3. rank \in Surjection(K, 1..Cardinality(K))
    BY <2>1, <2>2, FS_Injection
  <2>. QED
    BY <2>3 DEF Surjection
<1>7. ASSUME NEW j \in K PROVE Cardinality(K) - rank[j] =< len - j
  <2>0. j \in Nat /\ \A k \in K : k \in Nat /\ 1 =< k /\ k =< len
    OBVIOUS
  <2>1. IsFiniteSet(above(j)) /\ Cardinality(above(j)) \in Nat /\ Cardinality(above(j)) =< len - j
    <3>1. j \in Nat /\ len - j \in Nat
      OBVIOUS
    <3>2. IsFiniteSet((j + 1)..len) /\ Cardinality((j + 1)..len) = len - j
      BY <3>1, FS_Interval
    <3>3. ASSUME NEW k \in above(j) PROVE k \in (j + 1)..len
      <4>1. k \in K /\ k > j
        OBVIOUS
      <4>. QED
        BY <2>0, <4>1
    <3>4. above(j) \in SUBSET ((j + 1)..len)
      BY <3>3
    <3>. QED
      BY <3>2, <3>4, FS_Subset, FS_CardinalityType
  <2>2. K = below(j) \cup above(j) /\ below(j) \cap above(j) = {}
    <3>1. \A k \in K : k \in 1..j \/ k > j
      BY <2>0
    <3>2. \A k \in 1..j : ~(k > j)
      BY <2>0
    <3>. QED
      BY <3>1, <3>2
  <2>3. Cardinality(K) = Cardinality(below(j)) + Cardinality(above(j))
    <3>1. Cardinality(below(j)) \in Nat
      BY <1>2, FS_CardinalityType
    <3>2. Cardinality(below(j) \cup above(j))
            = Cardinality(below(j)) + Cardinality(above(j)) - Cardinality(below(j) \cap above(j))
      BY <1>2, <2>1, FS_Union
    <3>3. Cardinality(below(j) \cap above(j)) = 0
      BY <2>2, FS_EmptySet
    <3>. HIDE DEF below, above
    <3>. QED
      BY <2>1, <2>2, <3>1, <3>2, <3>3
  <2>4. Cardinality(below(j)) \in Nat
    BY <1>2, FS_CardinalityType
  <2>5. j \in Nat /\ len - j \in Nat
    OBVIOUS
  <2>. HIDE DEF below, above
  <2>. QED
    BY <2>1, <2>3, <2>4, <2>5 DEF rank
<1>. QED
  BY <1>1, <1>2, <1>5, <1>6, <1>7 DEF RankOf

\* What a sequence of entries is.
LEMMA StoreType ==
    ASSUME NEW T, NEW store \in Seq(T)
    PROVE  /\ Len(store) \in Nat
           /\ DOMAIN store = 1..Len(store)
           /\ \A i \in 1..Len(store) : store[i] \in T
           /\ Entries(store) \in SUBSET T
BY LenProperties, ElementOfSeq DEF Entries

\* Entries at some of the places: those, in a store of its own right, and none
\* farther from the end than it was.
LEMMA OnlyEffect ==
    ASSUME NEW T, NEW store \in Seq(T), NEW places \in SUBSET DOMAIN store
    PROVE  LET some == Only(store, places) IN
           /\ some \in Seq(T)
           /\ Entries(some) = {store[i] : i \in places}
           /\ Once(store) => Once(some)
           /\ \A i \in places : \E p \in DOMAIN some :
                 some[p] = store[i] /\ Len(some) - p =< Len(store) - i
<1>. DEFINE size == Cardinality(places)
            at == [n \in 1..size |-> CHOOSE i \in places : RankOf(i, places) = n]
            some == Only(store, places)
            len == Len(store)
<1>1. len \in Nat /\ DOMAIN store = 1..len /\ \A i \in 1..len : store[i] \in T
  BY StoreType
<1>2. /\ size \in Nat
      /\ \A j \in places : RankOf(j, places) \in 1..size
      /\ \A i, j \in places : RankOf(i, places) = RankOf(j, places) => i = j
      /\ \A n \in 1..size : \E j \in places : RankOf(j, places) = n
      /\ \A j \in places : size - RankOf(j, places) =< len - j
  <2>1. places \in SUBSET (1..len)
    BY <1>1
  <2>. QED
    BY <1>1, <2>1, PlaceOfRank
<1>3. \A n \in 1..size : at[n] \in places /\ RankOf(at[n], places) = n
  BY <1>2
<1>4. some = [n \in 1..size |-> store[at[n]]]
  BY DEF Only, RankOf
<1>. HIDE DEF at, size, some, len
<1>5. \A m, n \in 1..size : at[m] = at[n] => m = n
  BY <1>3
<1>6. \A i \in places : RankOf(i, places) \in 1..size /\ at[RankOf(i, places)] = i
  BY <1>2, <1>3
<1>7. DOMAIN some = 1..size /\ \A n \in 1..size : some[n] = store[at[n]] /\ at[n] \in 1..len
  BY <1>1, <1>3, <1>4
<1>8. some \in Seq(T) /\ Len(some) = size
  <2>1. some \in [1..size -> T]
    BY <1>1, <1>4, <1>7
  <2>. QED
    BY <1>2, <2>1, SeqDef, LenProperties
<1>9. Entries(some) = {store[i] : i \in places}
  <2>1. \A n \in DOMAIN some : \E i \in places : some[n] = store[i]
    BY <1>3, <1>7
  <2>2. \A i \in places : \E n \in DOMAIN some : some[n] = store[i]
    BY <1>6, <1>7
  <2>. QED
    BY <2>1, <2>2 DEF Entries
<1>10. Once(store) => Once(some)
  BY <1>1, <1>5, <1>7 DEF Once
<1>11. ASSUME NEW i \in places
       PROVE  \E p \in DOMAIN some : some[p] = store[i] /\ Len(some) - p =< len - i
  BY <1>2, <1>6, <1>7, <1>8
<1>. QED
  BY <1>8, <1>9, <1>10, <1>11 DEF some, len

\* The entries that have not expired.
LEMMA FreshEffect ==
    ASSUME NEW T, NEW store \in Seq(T)
    PROVE  /\ Fresh(store) \in Seq(T)
           /\ Entries(Fresh(store)) = {e \in Entries(store) : e.until > now}
           /\ Once(store) => Once(Fresh(store))
<1>. DEFINE places == {i \in DOMAIN store : store[i].until > now}
<1>1. /\ Only(store, places) \in Seq(T)
      /\ Entries(Only(store, places)) = {store[i] : i \in places}
      /\ Once(store) => Once(Only(store, places))
  BY OnlyEffect
<1>2. {store[i] : i \in places} = {e \in Entries(store) : e.until > now}
  BY DEF Entries
<1>. QED
  BY <1>1, <1>2 DEF Fresh

\* The entries of other keys.
LEMMA WithoutEffect ==
    ASSUME NEW T, NEW store \in Seq(T), NEW key
    PROVE  /\ Without(store, key) \in Seq(T)
           /\ Entries(Without(store, key)) = {e \in Entries(store) : e.key # key}
           /\ Once(store) => Once(Without(store, key))
           /\ \A i \in DOMAIN store : store[i].key # key =>
                 \E p \in DOMAIN Without(store, key) :
                    /\ Without(store, key)[p] = store[i]
                    /\ Len(Without(store, key)) - p =< Len(store) - i
<1>. DEFINE places == {i \in DOMAIN store : store[i].key # key}
            some == Only(store, places)
<1>1. /\ some \in Seq(T)
      /\ Entries(some) = {store[i] : i \in places}
      /\ Once(store) => Once(some)
      /\ \A i \in places : \E p \in DOMAIN some :
            some[p] = store[i] /\ Len(some) - p =< Len(store) - i
  BY OnlyEffect
<1>2. {store[i] : i \in places} = {e \in Entries(store) : e.key # key}
  BY DEF Entries
<1>3. some = Without(store, key)
  BY DEF Without
<1>. HIDE DEF some
<1>. QED
  BY <1>1, <1>2, <1>3

\* One more entry, the most recent.
LEMMA AppendEffect ==
    ASSUME NEW T, NEW store \in Seq(T), NEW entry \in T
    PROVE  LET more == Append(store, entry) IN
           /\ more \in Seq(T)
           /\ Entries(more) = Entries(store) \cup {entry}
           /\ Once(store) /\ (\A e \in Entries(store) : e.key # entry.key) => Once(more)
           /\ Len(more) = Len(store) + 1
           /\ \A p \in DOMAIN store : p \in DOMAIN more /\ more[p] = store[p]
           /\ Len(more) \in DOMAIN more /\ more[Len(more)] = entry
<1>. DEFINE more == Append(store, entry)
            len == Len(store)
<1>1. len \in Nat /\ DOMAIN store = 1..len
  BY StoreType
<1>2. /\ more \in Seq(T)
      /\ Len(more) = len + 1
      /\ \A i \in 1..len : more[i] = store[i]
      /\ more[len + 1] = entry
  BY AppendProperties
<1>3. DOMAIN more = 1..(len + 1)
  BY <1>2, LenProperties
<1>. HIDE DEF more, len
<1>4. \A i \in 1..(len + 1) : i \in 1..len \/ i = len + 1
  BY <1>1
<1>5. \A i \in 1..len : i \in 1..(len + 1)
  BY <1>1
<1>6. Entries(more) = Entries(store) \cup {entry}
  <2>1. len + 1 \in DOMAIN more
    BY <1>1, <1>3
  <2>. QED
    BY <1>1, <1>2, <1>3, <1>4, <1>5, <2>1 DEF Entries
<1>7. Once(store) /\ (\A e \in Entries(store) : e.key # entry.key) => Once(more)
  <2>. SUFFICES ASSUME Once(store), \A e \in Entries(store) : e.key # entry.key,
                       NEW i \in 1..(len + 1), NEW j \in 1..(len + 1), more[i].key = more[j].key
                PROVE  i = j
    BY <1>3 DEF Once
  <2>1. \A k \in 1..len : store[k].key # entry.key
    BY <1>1 DEF Entries
  <2>. QED
    BY <1>1, <1>2, <1>4, <2>1 DEF Once
<1>8. Len(more) \in DOMAIN more
  BY <1>1, <1>2, <1>3
<1>. QED
  BY <1>1, <1>2, <1>3, <1>5, <1>6, <1>7, <1>8 DEF more, len

\* The most recent entries, as many as the limit allows: others go only if
\* there is no room left.
LEMMA NewestEffect ==
    ASSUME NEW T, NEW store \in Seq(T), NEW limit \in Nat
    PROVE  LET left == Newest(store, limit) IN
           /\ left \in Seq(T)
           /\ Entries(left) \subseteq Entries(store)
           /\ Once(store) => Once(left)
           /\ Entries(left) # Entries(store) => Len(left) = limit
           /\ \A p \in DOMAIN store : Len(store) - p < limit => store[p] \in Entries(left)
<1>. DEFINE left == Newest(store, limit)
            len == Len(store)
            first == len - limit + 1
<1>1. len \in Nat /\ DOMAIN store = 1..len /\ \A i \in 1..len : store[i] \in T
  BY StoreType
<1>2. CASE len =< limit
  <2>1. left = store
    BY <1>2 DEF Newest
  <2>2. \A p \in DOMAIN store : store[p] \in Entries(store)
    BY DEF Entries
  <2>. QED
    BY <2>1, <2>2
<1>3. CASE ~(len =< limit)
  <2>1. left = SubSeq(store, first, len)
    BY <1>3 DEF Newest
  <2>2. first \in 1..(len + 1) /\ first \in Int /\ len \in Int /\ len - first + 1 = limit
    BY <1>1, <1>3
  <2>3. \A i \in first..len : store[i] \in T
    BY <1>1, <2>2
  <2>4. /\ left \in Seq(T)
        /\ Len(left) = limit
        /\ \A i \in 1..limit : left[i] = store[first + i - 1]
    BY <2>1, <2>2, <2>3, SubSeqProperties
  <2>5. DOMAIN left = 1..limit
    BY <2>4, LenProperties
  <2>. HIDE DEF left, len, first
  <2>6. \A i \in 1..limit : first + i - 1 \in 1..len
    BY <1>1, <2>2
  <2>7. Entries(left) \subseteq Entries(store)
    BY <1>1, <2>4, <2>5, <2>6 DEF Entries
  <2>8. ASSUME Once(store), NEW i \in 1..limit, NEW j \in 1..limit, left[i].key = left[j].key
        PROVE  i = j
    <3>1. first + i - 1 = first + j - 1
      BY <1>1, <2>4, <2>6, <2>8 DEF Once
    <3>. QED
      BY <2>2, <3>1
  <2>9. ASSUME NEW p \in DOMAIN store, len - p < limit PROVE store[p] \in Entries(left)
    <3>. DEFINE i == p - first + 1
    <3>1. i \in 1..limit /\ first + i - 1 = p
      BY <1>1, <2>2, <2>9
    <3>. HIDE DEF i
    <3>. QED
      BY <2>4, <2>5, <3>1 DEF Entries
  <2>10. Once(store) => Once(left)
    BY <2>5, <2>8 DEF Once
  <2>. QED
    BY <2>4, <2>7, <2>9, <2>10 DEF left, len
<1>. QED
  BY <1>2, <1>3

\* set(): of the other entries none that expired is left, and the entry
\* replaces the one its key had.
LEMMA PutEffect ==
    ASSUME NEW T, NEW store \in Seq(T), NEW entry \in T, NEW limit \in Nat
    PROVE  LET after == Put(store, entry, limit) IN
           /\ after \in Seq(T)
           /\ Once(store) => Once(after)
           /\ \A e \in Entries(after) :
                 e = entry \/ (e \in Entries(store) /\ e.until > now /\ e.key # entry.key)
<1>. DEFINE fresh == Fresh(store)
            kept == Without(fresh, entry.key)
            more == Append(kept, entry)
<1>1. /\ fresh \in Seq(T) /\ Entries(fresh) = {e \in Entries(store) : e.until > now}
      /\ Once(store) => Once(fresh)
  BY FreshEffect
<1>. HIDE DEF fresh
<1>2. /\ kept \in Seq(T) /\ Entries(kept) = {e \in Entries(fresh) : e.key # entry.key}
      /\ Once(fresh) => Once(kept)
  BY <1>1, WithoutEffect
<1>. HIDE DEF kept
<1>3. /\ more \in Seq(T) /\ Entries(more) = Entries(kept) \cup {entry}
      /\ Once(kept) => Once(more)
  BY <1>2, AppendEffect
<1>. HIDE DEF more
<1>4. /\ Newest(more, limit) \in Seq(T) /\ Entries(Newest(more, limit)) \subseteq Entries(more)
      /\ Once(more) => Once(Newest(more, limit))
  BY <1>3, NewestEffect
<1>5. Put(store, entry, limit) = Newest(more, limit)
  BY DEF Put, more, kept, fresh
<1>. QED
  BY <1>1, <1>2, <1>3, <1>4, <1>5

\* get(): nothing is gone but what has expired.
LEMMA TouchEffect ==
    ASSUME NEW T, NEW store \in Seq(T), Once(store), NEW key
    PROVE  LET after == Touch(store, key) IN
           /\ after \in Seq(T)
           /\ Once(after)
           /\ Entries(after) \subseteq Entries(store)
           /\ \A e \in Entries(store) : e.until > now => e \in Entries(after)
<1>. DEFINE rest == Without(store, key)
<1>1. /\ rest \in Seq(T) /\ Entries(rest) = {e \in Entries(store) : e.key # key} /\ Once(rest)
  BY WithoutEffect
<1>. HIDE DEF rest
<1>2. \A d, e \in Entries(store) : d.key = e.key => d = e
  BY DEF Once, Entries
<1>3. CASE key \in Held(store)
  <2>. DEFINE found == Lookup(store, key)
  <2>1. \E e \in Entries(store) : e.key = key
    BY <1>3 DEF Held
  <2>2. found \in Entries(store) /\ found.key = key
    BY <2>1 DEF Lookup
  <2>. HIDE DEF found
  <2>3. found \in T
    BY <2>2, StoreType
  <2>4. /\ Append(rest, found) \in Seq(T)
        /\ Entries(Append(rest, found)) = Entries(rest) \cup {found}
        /\ Once(Append(rest, found))
    <3>1. \A e \in Entries(rest) : e.key # found.key
      BY <1>1, <2>2
    <3>. QED
      BY <1>1, <2>3, <3>1, AppendEffect
  <2>5. Touch(store, key) = Append(rest, found)
    BY <1>3 DEF Touch, rest, found
  <2>6. \A e \in Entries(store) : e \in Entries(rest) \/ e = found
    BY <1>1, <1>2, <2>2
  <2>. QED
    BY <1>1, <2>2, <2>4, <2>5, <2>6
<1>4. CASE key \notin Held(store)
  <2>1. Touch(store, key) = rest
    BY <1>4 DEF Touch, rest
  <2>2. \A e \in Entries(store) : e.until > now => e.key # key
    BY <1>4 DEF Held
  <2>. QED
    BY <1>1, <2>1, <2>2
<1>. QED
  BY <1>3, <1>4

-----------------------------------------------------------------------------
(* The invariant *)

Row == [id : Sources, ruled : BOOLEAN]

RawEntry == [key : Queries, value : Seq(Row), until : Nat]

ContextEntry == [key : Sources, value : {"context"}, until : Nat]

OfferEntry == [key : Searches \X Sources, value : BOOLEAN, until : Nat]

SearchRecord ==
    [stage : {"new", "waiting", "gathered", "normalised", "malformed", "ended", "answered"},
     query : Queries \cup {"none"}, since : Nat, rows : Seq(Row)]

TypeOK ==
    /\ now \in Nat
    /\ raw \in Seq(RawEntry)
    /\ loading \in SUBSET Queries
    /\ context \in [Stores -> Seq(ContextEntry)]
    /\ pushedOut \in [Stores -> SUBSET Sources]
    /\ offers \in Seq(OfferEntry)
    /\ search \in [Searches -> SearchRecord]

\* All the stores are dictionaries.
KeysOnce == Once(raw) /\ Once(offers) /\ \A x \in Stores : Once(context[x])

\* Nothing is kept for longer than its store allows, and no search takes longer
\* than its timeouts.
Ages ==
    /\ \A e \in Entries(raw) : e.until =< now + RawTtl
    /\ \A e \in Entries(offers) : e.until =< now + Ttl
    /\ \A x \in Stores : \A e \in Entries(context[x]) : e.until =< now + Ttl
    /\ \A s \in Searches : search[s].since =< now
    /\ \A s \in Searches : Live(s) => now =< search[s].since + Lag

\* Store x keeps the offer until u, unless its limit pushed it out or u has come.
Known(x, id, u) ==
    \/ id \in pushedOut[x]
    \/ u =< now
    \/ \E e \in Entries(context[x]) : e.key = id /\ e.until >= u

\* Every store keeps what the adapter gave it of these rows until u.
KnownRows(rows, u) ==
    \A row \in Entries(rows), x \in Stores :
        x # "refunds" \/ row.ruled => Known(x, row.id, u)

\* A raw result is forgotten before the context of its offers, by the difference
\* of the times that both are kept,
RawKnown == \A e \in Entries(raw) : KnownRows(e.value, e.until + Ttl - RawTtl)

\* so that a search that was answered by one has that much left when it begins,
SearchKnown ==
    \A s \in Searches :
        search[s].stage \in {"gathered", "normalised"} =>
            KnownRows(search[s].rows, search[s].since + Ttl - RawTtl + 1)

\* and what it saves, at the latest when its time is up, all but the rest.
OfferIsKnown(e) ==
    \A x \in {"details", "refunds"} :
        x = "details" \/ e.value => Known(x, e.key[2], e.until - Lag - RawTtl + 1)

OfferKnown == \A e \in Entries(offers) : OfferIsKnown(e)

\* What was pushed out is not there.
PushedOutGone == \A x \in Stores : pushedOut[x] \cap Held(context[x]) = {}

\* A search saves its offers once.
OffersOfAnswered == \A e \in Entries(offers) : search[e.key[1]].stage = "answered"

IInv ==
    /\ TypeOK
    /\ KeysOnce
    /\ Ages
    /\ RawKnown
    /\ SearchKnown
    /\ OfferKnown
    /\ PushedOutGone
    /\ OffersOfAnswered

\* The constants are numbers, and raw results go before the context does.
LEMMA Times ==
    /\ Ttl \in Nat /\ RawTtl \in Nat /\ Lag \in Nat
    /\ ContextLimit \in Nat /\ OfferLimit \in Nat
    /\ 1 =< RawTtl /\ 1 =< Lag /\ 1 =< OfferLimit /\ RawTtl =< Ttl
    /\ Cardinality(Queries) \in Nat
<1>1. Cardinality(Queries) \in Nat
  BY ConstantsAssumption, FS_CardinalityType DEF ConstantsAssumption
<1>. QED
  BY <1>1, ConstantsAssumption DEF ConstantsAssumption

-----------------------------------------------------------------------------
(* What a step has to respect *)

\* The step forgets nothing before its time, but for want of room.
KnownStays ==
    \A x \in Stores, id \in Sources, u \in Int :
        u =< now + Ttl /\ Known(x, id, u) => Known(x, id, u)'

\* It takes from the rows of a result nothing that was known of them.
LEMMA KnownRowsStay ==
    ASSUME KnownStays, NEW rows \in Seq(Row), NEW u \in Int, u =< now + Ttl, KnownRows(rows, u)
    PROVE  KnownRows(rows, u)'
<1>. SUFFICES ASSUME NEW row \in Entries(rows), NEW x \in Stores, x # "refunds" \/ row.ruled
              PROVE  Known(x, row.id, u)'
  BY DEF KnownRows
<1>1. row.id \in Sources
  <2>1. row \in Row
    BY StoreType
  <2>. QED
    BY <2>1 DEF Row
<1>2. Known(x, row.id, u)
  BY DEF KnownRows
<1>. QED
  BY <1>1, <1>2 DEF KnownStays

\* Nor anything of an offer.
LEMMA OfferStaysKnown ==
    ASSUME KnownStays, now \in Nat, NEW e \in OfferEntry, e.until =< now + Ttl, OfferIsKnown(e)
    PROVE  OfferIsKnown(e)'
<1>. SUFFICES ASSUME NEW x \in {"details", "refunds"}, x = "details" \/ e.value
              PROVE  Known(x, e.key[2], e.until - Lag - RawTtl + 1)'
  BY DEF OfferIsKnown
<1>1. e.key[2] \in Sources /\ e.until \in Nat /\ x \in Stores
  BY DEF OfferEntry, Stores
<1>. DEFINE u == e.until - Lag - RawTtl + 1
<1>2. u \in Int /\ u =< now + Ttl
  BY <1>1, Times
<1>3. Known(x, e.key[2], u)
  BY DEF OfferIsKnown
<1>. HIDE DEF u
<1>4. Known(x, e.key[2], u)'
  BY <1>1, <1>2, <1>3 DEF KnownStays
<1>. QED
  BY <1>4 DEF u

\* A step that forgets nothing, and what it brings is known.
LEMMA StepPreserves ==
    ASSUME IInv, TypeOK', KeysOnce', PushedOutGone', KnownStays, now =< now',
           \A x \in Stores : \A e \in Entries(context'[x]) : e.until =< now' + Ttl,
           \A e \in Entries(raw') :
              \/ e \in Entries(raw)
              \/ /\ e.until =< now' + RawTtl
                 /\ KnownRows(e.value, e.until + Ttl - RawTtl)',
           \A e \in Entries(offers') :
              \/ e \in Entries(offers)
              \/ /\ e.until =< now' + Ttl
                 /\ OfferIsKnown(e)'
                 /\ search'[e.key[1]].stage = "answered",
           \A s \in Searches :
              \/ search'[s] = search[s] /\ (Live(s) => now' =< search[s].since + Lag)
              \/ /\ search[s].stage # "answered"
                 /\ search'[s].since =< now'
                 /\ Live(s)' => now' =< search'[s].since + Lag
                 /\ search'[s].stage \in {"gathered", "normalised"} =>
                       KnownRows(search[s].rows, search[s].since + Ttl - RawTtl + 1)'
    PROVE  IInv'
<1>0. /\ now \in Nat /\ now' \in Nat
      /\ raw \in Seq(RawEntry) /\ raw' \in Seq(RawEntry)
      /\ offers \in Seq(OfferEntry) /\ offers' \in Seq(OfferEntry)
      /\ search \in [Searches -> SearchRecord] /\ search' \in [Searches -> SearchRecord]
  BY DEF IInv, TypeOK
<1>1. \A e \in Entries(raw) : e.value \in Seq(Row) /\ e.until \in Nat /\ e.until =< now + RawTtl
  <2>1. Entries(raw) \in SUBSET RawEntry
    BY <1>0, StoreType
  <2>. QED
    BY <2>1 DEF IInv, Ages, RawEntry
<1>2. \A e \in Entries(offers) : e \in OfferEntry /\ e.until \in Nat /\ e.until =< now + Ttl
  <2>1. Entries(offers) \in SUBSET OfferEntry
    BY <1>0, StoreType
  <2>. QED
    BY <2>1 DEF IInv, Ages, OfferEntry
<1>3. \A s \in Searches : search[s].rows \in Seq(Row) /\ search[s].since \in Nat /\ search[s].since =< now
  BY <1>0 DEF IInv, Ages, SearchRecord
<1>4. Ages'
  <2>1. \A e \in Entries(raw') : e.until =< now' + RawTtl
    BY <1>0, <1>1, Times
  <2>2. \A e \in Entries(offers') : e.until =< now' + Ttl
    BY <1>0, <1>2, Times
  <2>3. \A s \in Searches : search'[s].since =< now'
    BY <1>0, <1>3
  <2>4. \A s \in Searches : Live(s)' => now' =< search'[s].since + Lag
    BY DEF Live
  <2>. QED
    BY <2>1, <2>2, <2>3, <2>4 DEF Ages
<1>5. RawKnown'
  <2>. SUFFICES ASSUME NEW e \in Entries(raw') PROVE KnownRows(e.value, e.until + Ttl - RawTtl)'
    BY DEF RawKnown
  <2>1. CASE e \in Entries(raw)
    <3>. DEFINE u == e.until + Ttl - RawTtl
    <3>1. u \in Int /\ u =< now + Ttl
      BY <1>0, <1>1, <2>1, Times
    <3>2. KnownRows(e.value, u)
      BY <2>1 DEF IInv, RawKnown
    <3>. HIDE DEF u
    <3>3. KnownRows(e.value, u)'
      BY <1>1, <2>1, <3>1, <3>2, KnownRowsStay
    <3>. QED
      BY <3>3 DEF u
  <2>. QED
    BY <2>1
<1>6. SearchKnown'
  <2>. SUFFICES ASSUME NEW s \in Searches, search'[s].stage \in {"gathered", "normalised"}
                PROVE  KnownRows(search[s].rows, search[s].since + Ttl - RawTtl + 1)'
    BY DEF SearchKnown
  <2>1. CASE search'[s] = search[s]
    <3>. DEFINE u == search[s].since + Ttl - RawTtl + 1
                rows == search[s].rows
    <3>1. u \in Int /\ u =< now + Ttl /\ rows \in Seq(Row)
      BY <1>0, <1>3, Times
    <3>2. KnownRows(rows, u)
      BY <2>1 DEF IInv, SearchKnown
    <3>3. PICK v, r : v = u /\ r = rows
      OBVIOUS
    <3>4. v \in Int /\ v =< now + Ttl /\ r \in Seq(Row) /\ KnownRows(r, v)
      BY <3>1, <3>2, <3>3
    <3>5. KnownRows(r, v)'
      BY <3>4, KnownRowsStay
    <3>6. r = search'[s].rows /\ v = search'[s].since + Ttl - RawTtl + 1
      BY <2>1, <3>3
    <3>. QED
      BY <3>5, <3>6
  <2>. QED
    BY <2>1
<1>7. OfferKnown'
  BY <1>0, <1>2, OfferStaysKnown DEF IInv, OfferKnown
<1>8. OffersOfAnswered'
  <2>. SUFFICES ASSUME NEW e \in Entries(offers') PROVE search'[e.key[1]].stage = "answered"
    BY DEF OffersOfAnswered
  <2>1. CASE e \in Entries(offers)
    <3>1. e.key[1] \in Searches /\ search[e.key[1]].stage = "answered"
      BY <1>2, <2>1 DEF IInv, OffersOfAnswered, OfferEntry
    <3>. QED
      BY <3>1
  <2>. QED
    BY <2>1
<1>. QED
  BY <1>4, <1>5, <1>6, <1>7, <1>8 DEF IInv

\* What is known for some time is known for less.
LEMMA KnownEarlier ==
    ASSUME context \in [Stores -> Seq(ContextEntry)], now \in Nat,
           NEW x \in Stores, NEW id, NEW u \in Int, NEW v \in Int, v =< u, Known(x, id, u)
    PROVE  Known(x, id, v)
<1>1. \A e \in Entries(context[x]) : e.until \in Nat
  <2>1. Entries(context[x]) \in SUBSET ContextEntry
    BY StoreType
  <2>. QED
    BY <2>1 DEF ContextEntry
<1>. QED
  BY <1>1 DEF Known

\* So is what is known of rows.
LEMMA KnownRowsEarlier ==
    ASSUME context \in [Stores -> Seq(ContextEntry)], now \in Nat,
           NEW rows, NEW u \in Int, NEW v \in Int, v =< u, KnownRows(rows, u)
    PROVE  KnownRows(rows, v)
BY KnownEarlier DEF KnownRows

\* Time, and reading what is remembered, respect what is known.
LEMMA QuietStep ==
    ASSUME TypeOK, PushedOutGone, now' \in Nat, now =< now', pushedOut' = pushedOut,
           \A x \in Stores :
              /\ Entries(context'[x]) \subseteq Entries(context[x])
              /\ \A e \in Entries(context[x]) : e.until > now => e \in Entries(context'[x])
    PROVE  KnownStays /\ PushedOutGone'
<1>1. \A x \in Stores : \A e \in Entries(context[x]) : e.until \in Nat
  <2>1. \A x \in Stores : Entries(context[x]) \in SUBSET ContextEntry
    BY StoreType DEF TypeOK
  <2>. QED
    BY <2>1 DEF ContextEntry
<1>2. now \in Nat
  BY DEF TypeOK
<1>3. KnownStays
  <2>. SUFFICES ASSUME NEW x \in Stores, NEW id \in Sources, NEW u \in Int, Known(x, id, u)
                PROVE  Known(x, id, u)'
    BY DEF KnownStays
  <2>1. CASE id \in pushedOut[x]
    BY <2>1 DEF Known
  <2>2. CASE u =< now
    BY <1>2, <2>2 DEF Known
  <2>3. CASE u > now /\ \E e \in Entries(context[x]) : e.key = id /\ e.until >= u
    <3>1. PICK e \in Entries(context[x]) : e.key = id /\ e.until >= u
      BY <2>3
    <3>2. e \in Entries(context'[x])
      BY <1>1, <1>2, <2>3, <3>1
    <3>. QED
      BY <3>1, <3>2 DEF Known
  <2>. QED
    BY <1>2, <2>1, <2>2, <2>3 DEF Known
<1>4. PushedOutGone'
  <2>1. \A x \in Stores : Held(context[x])' \subseteq Held(context[x])
    BY <1>1, <1>2 DEF Held
  <2>. QED
    BY <2>1 DEF PushedOutGone
<1>. QED
  BY <1>3, <1>4

-----------------------------------------------------------------------------
(* The loops *)

\* Whose redirect, details or rules these rows give to store x.
Given(x, rows, n) == {rows[i].id : i \in {j \in 1..n : x # "refunds" \/ rows[j].ruled}}

\* Remembering the rows of a result, whatever has to go for them: what is there
\* then is as young as can be, or was there and is of no row.
LEMMA RememberAllEffect ==
    ASSUME TypeOK, KeysOnce, NEW rows \in Seq(Row)
    PROVE  LET after == RememberAll(rows) IN
           /\ after \in [Stores -> Seq(ContextEntry)]
           /\ \A x \in Stores :
                 /\ Once(after[x])
                 /\ \A e \in Entries(after[x]) :
                       \/ e.until = now + Ttl
                       \/ e \in Entries(context[x]) /\ e.key \notin Given(x, rows, Len(rows))
<1>. DEFINE States == [Stores -> Seq(ContextEntry)]
            bound == Len(rows)
            Run(f) == [n \in 0..bound |-> IF n = 0 THEN context ELSE Remembered(f[n - 1], rows[n])]
            after == CHOOSE f : f = Run(f)
            F == [p \in States \X Row |-> Remembered(p[1], p[2])]
            Right(ctx, n) ==
               /\ ctx \in States
               /\ \A x \in Stores :
                     /\ Once(ctx[x])
                     /\ \A e \in Entries(ctx[x]) :
                           \/ e.until = now + Ttl
                           \/ e \in Entries(context[x]) /\ e.key \notin Given(x, rows, n)
            good == {n \in 0..bound : Right(after[n], n)}
<1>1. now \in Nat /\ bound \in Nat /\ context \in States /\ \A n \in 1..bound : rows[n] \in Row
  BY StoreType DEF TypeOK
<1>2. RememberAll(rows) = after[bound]
  BY DEF RememberAll, Loop
<1>3. ASSUME NEW ctx \in States, NEW row \in Row, NEW x \in Stores
      PROVE  LET store == Put(ctx[x], Entry(row.id, "context", Ttl), ContextLimit) IN
             /\ store \in Seq(ContextEntry)
             /\ Once(ctx[x]) => Once(store)
             /\ \A d \in Entries(store) :
                   d.until = now + Ttl \/ (d \in Entries(ctx[x]) /\ d.key # row.id)
  <2>. DEFINE e == Entry(row.id, "context", Ttl)
              store == Put(ctx[x], e, ContextLimit)
  <2>1. e \in ContextEntry /\ e.until = now + Ttl /\ e.key = row.id
    BY <1>1, Times DEF Entry, ContextEntry, Row
  <2>2. ctx[x] \in Seq(ContextEntry)
    OBVIOUS
  <2>. HIDE DEF e
  <2>3. /\ store \in Seq(ContextEntry)
        /\ Once(ctx[x]) => Once(store)
        /\ \A d \in Entries(store) : d = e \/ (d \in Entries(ctx[x]) /\ d.until > now /\ d.key # e.key)
    BY <2>1, <2>2, PutEffect, Times
  <2>. QED
    BY <2>1, <2>3 DEF e
<1>4. \A ctx \in States, row \in Row : Remembered(ctx, row) \in States
  BY <1>3 DEF Remembered
<1>5. F \in [States \X Row -> States]
  BY <1>4
<1>6. after = Run(after)
  <2>. HIDE DEF F, States
  <2>1. PICK g \in [0..bound -> States] :
           RunOf(g, F, context, rows)
    <3>1. context \in States /\ F \in [States \X Row -> States]
      BY <1>1, <1>5
    <3>. QED
      BY <3>1, LoopRuns
  <2>. HIDE DEF bound
  <2>2. \A n \in 1..bound : n - 1 \in 0..bound /\ g[n - 1] \in States /\ rows[n] \in Row
    BY <1>1
  <2>3. \A n \in 1..bound : g[n] = Remembered(g[n - 1], rows[n])
    <3>1. \A n \in 1..bound : g[n] = F[<<g[n - 1], rows[n]>>]
      BY <2>1 DEF RunOf, bound
    <3>. QED
      BY <2>2, <3>1 DEF F
  <2>4. g = Run(g)
    BY <1>1, <2>1, <2>3 DEF RunOf
  <2>. QED
    BY <2>4
<1>. HIDE DEF F, States, after
<1>7. after[0] = context /\ \A n \in 1..bound : after[n] = Remembered(after[n - 1], rows[n])
  BY <1>1, <1>6
<1>8. 0 \in good
  <2>1. \A x \in Stores : Given(x, rows, 0) = {}
    BY DEF Given
  <2>. QED
    BY <1>1, <1>7, <2>1 DEF KeysOnce
<1>9. ASSUME NEW n \in good, n < bound PROVE n + 1 \in good
  <2>. DEFINE ctx == after[n]
              row == rows[n + 1]
              next == Remembered(ctx, row)
  <2>1. n \in Nat /\ n + 1 \in 1..bound /\ n + 1 \in 0..bound /\ row \in Row /\ Right(ctx, n)
    BY <1>1, <1>9
  <2>2. after[n + 1] = next
    <3>1. after[n + 1] = Remembered(after[(n + 1) - 1], rows[n + 1]) /\ (n + 1) - 1 = n
      BY <1>7, <2>1
    <3>. QED
      BY <3>1
  <2>3. ctx \in States /\ next \in States
    BY <1>4, <2>1
  <2>. HIDE DEF ctx, row
  <2>4. ASSUME NEW x \in Stores
        PROVE  /\ Once(next[x])
               /\ \A e \in Entries(next[x]) :
                     \/ e.until = now + Ttl
                     \/ e \in Entries(context[x]) /\ e.key \notin Given(x, rows, n + 1)
    <3>1. \A i \in 1..(n + 1) : i \in 1..n \/ i = n + 1
      BY <2>1
    <3>2. CASE x = "refunds" /\ ~row.ruled
      <4>1. next[x] = ctx[x]
        BY <3>2 DEF Remembered
      <4>2. Given(x, rows, n + 1) \subseteq Given(x, rows, n)
        BY <3>1, <3>2 DEF Given, row
      <4>. QED
        BY <2>1, <4>1, <4>2
    <3>3. CASE ~(x = "refunds" /\ ~row.ruled)
      <4>1. next[x] = Put(ctx[x], Entry(row.id, "context", Ttl), ContextLimit)
        BY <3>3 DEF Remembered
      <4>2. Given(x, rows, n + 1) \subseteq Given(x, rows, n) \cup {row.id}
        BY <3>1 DEF Given, row
      <4>. QED
        BY <1>3, <2>1, <2>3, <4>1, <4>2
    <3>. QED
      BY <3>2, <3>3
  <2>. QED
    BY <2>1, <2>2, <2>3, <2>4
<1>10. bound \in good
  <2>. HIDE DEF good
  <2>1. good \in SUBSET (0..bound)
    BY DEF good
  <2>. HIDE DEF bound
  <2>2. \A n \in 0..bound : n \in good
    BY <1>1, <1>8, <1>9, <2>1, UpTo
  <2>. QED
    BY <1>1, <2>2
<1>. QED
  BY <1>2, <1>10 DEF States

\* Reading the redirects of rows: nothing is gone but what has expired.
LEMMA TouchAllEffect ==
    ASSUME NEW store \in Seq(ContextEntry), Once(store), NEW rows \in Seq(Row)
    PROVE  LET after == Loop(TouchRow, store, rows) IN
           /\ after \in Seq(ContextEntry)
           /\ Once(after)
           /\ Entries(after) \subseteq Entries(store)
           /\ \A e \in Entries(store) : e.until > now => e \in Entries(after)
<1>. DEFINE States == {t \in Seq(ContextEntry) : Once(t)}
            bound == Len(rows)
            Run(f) == [n \in 0..bound |-> IF n = 0 THEN store ELSE TouchRow(f[n - 1], rows[n])]
            after == CHOOSE f : f = Run(f)
            F == [p \in States \X Row |-> TouchRow(p[1], p[2])]
            Right(t) == /\ t \in States
                        /\ Entries(t) \subseteq Entries(store)
                        /\ \A e \in Entries(store) : e.until > now => e \in Entries(t)
            good == {n \in 0..bound : Right(after[n])}
<1>1. bound \in Nat /\ store \in States /\ \A n \in 1..bound : rows[n] \in Row
  BY StoreType
<1>2. Loop(TouchRow, store, rows) = after[bound]
  BY DEF Loop
<1>3. ASSUME NEW t \in States, NEW row \in Row
      PROVE  /\ TouchRow(t, row) \in States
             /\ Entries(TouchRow(t, row)) \subseteq Entries(t)
             /\ \A e \in Entries(t) : e.until > now => e \in Entries(TouchRow(t, row))
  BY TouchEffect DEF TouchRow
<1>4. F \in [States \X Row -> States]
  BY <1>3
<1>5. after = Run(after)
  <2>. HIDE DEF F, States
  <2>1. PICK g \in [0..bound -> States] : RunOf(g, F, store, rows)
    BY <1>1, <1>4, LoopRuns
  <2>. HIDE DEF bound
  <2>2. \A n \in 1..bound : n - 1 \in 0..bound /\ g[n - 1] \in States /\ rows[n] \in Row
    BY <1>1
  <2>3. \A n \in 1..bound : g[n] = TouchRow(g[n - 1], rows[n])
    <3>1. \A n \in 1..bound : g[n] = F[<<g[n - 1], rows[n]>>]
      BY <2>1 DEF RunOf, bound
    <3>. QED
      BY <2>2, <3>1 DEF F
  <2>4. g = Run(g)
    BY <1>1, <2>1, <2>3 DEF RunOf
  <2>. QED
    BY <2>4
<1>. HIDE DEF F, States, after
<1>6. after[0] = store /\ \A n \in 1..bound : after[n] = TouchRow(after[n - 1], rows[n])
  BY <1>1, <1>5
<1>7. 0 \in good
  BY <1>1, <1>6
<1>8. ASSUME NEW n \in good, n < bound PROVE n + 1 \in good
  <2>1. n \in Nat /\ n + 1 \in 1..bound /\ n + 1 \in 0..bound /\ rows[n + 1] \in Row /\ Right(after[n])
    BY <1>1, <1>8
  <2>2. after[n + 1] = TouchRow(after[n], rows[n + 1])
    <3>1. after[n + 1] = TouchRow(after[(n + 1) - 1], rows[n + 1]) /\ (n + 1) - 1 = n
      BY <1>6, <2>1
    <3>. QED
      BY <3>1
  <2>. QED
    BY <1>3, <2>1, <2>2
<1>9. bound \in good
  <2>. HIDE DEF good
  <2>1. good \in SUBSET (0..bound)
    BY DEF good
  <2>. HIDE DEF bound
  <2>2. \A n \in 0..bound : n \in good
    BY <1>1, <1>7, <1>8, <2>1, UpTo
  <2>. QED
    BY <1>1, <2>2
<1>. QED
  BY <1>2, <1>9 DEF States

\* Saving one offer: it becomes the most recent, the others come before it.
LEMMA SaveEffect ==
    ASSUME NEW T, NEW store \in Seq(T), Once(store), NEW entry \in T
    PROVE  LET after == Append(Without(store, entry.key), entry) IN
           /\ after \in Seq(T)
           /\ Once(after)
           /\ Entries(after) = {e \in Entries(store) : e.key # entry.key} \cup {entry}
           /\ Len(after) \in DOMAIN after /\ after[Len(after)] = entry
           /\ \A i \in DOMAIN store : store[i].key # entry.key =>
                 \E p \in DOMAIN after :
                    after[p] = store[i] /\ Len(after) - p =< Len(store) - i + 1
<1>. DEFINE kept == Without(store, entry.key)
            after == Append(kept, entry)
<1>1. /\ kept \in Seq(T)
      /\ Once(kept)
      /\ Entries(kept) = {e \in Entries(store) : e.key # entry.key}
      /\ \A i \in DOMAIN store : store[i].key # entry.key =>
            \E p \in DOMAIN kept : kept[p] = store[i] /\ Len(kept) - p =< Len(store) - i
  BY WithoutEffect
<1>. HIDE DEF kept
<1>2. /\ after \in Seq(T)
      /\ Once(after)
      /\ Entries(after) = Entries(kept) \cup {entry}
      /\ Len(after) = Len(kept) + 1
      /\ \A p \in DOMAIN kept : p \in DOMAIN after /\ after[p] = kept[p]
      /\ Len(after) \in DOMAIN after /\ after[Len(after)] = entry
  BY <1>1, AppendEffect
<1>. HIDE DEF after
<1>3. /\ Len(kept) \in Nat /\ DOMAIN kept \subseteq Nat
      /\ Len(store) \in Nat /\ DOMAIN store \subseteq Nat
  BY <1>1, StoreType
<1>4. ASSUME NEW i \in DOMAIN store, store[i].key # entry.key
      PROVE  \E p \in DOMAIN after : after[p] = store[i] /\ Len(after) - p =< Len(store) - i + 1
  <2>1. PICK p \in DOMAIN kept : kept[p] = store[i] /\ Len(kept) - p =< Len(store) - i
    BY <1>1, <1>4
  <2>2. p \in DOMAIN after /\ after[p] = store[i]
    BY <1>2, <2>1
  <2>3. Len(after) - p =< Len(store) - i + 1
    BY <1>2, <1>3, <2>1
  <2>. QED
    BY <2>2, <2>3
<1>. QED
  BY <1>1, <1>2, <1>4 DEF after, kept

\* Saving the offers of a search, of which there are no more than the limit:
\* all of them are there, and of the others that had not expired one is gone
\* only if there is no room left.
LEMMA SaveAllEffect ==
    ASSUME TypeOK, KeysOnce, NEW s \in Searches,
           NEW rows \in Seq(Row), rows = search[s].rows, Len(rows) =< OfferLimit
    PROVE  LET after == SaveAll(s) IN
           /\ after \in Seq(OfferEntry)
           /\ Once(after)
           /\ \A e \in Entries(after) :
                 \/ e \in Entries(offers)
                 \/ \E row \in Entries(rows) :
                       e.key = <<s, row.id>> /\ e.value = row.ruled /\ e.until = now + Ttl
           /\ \A row \in Entries(rows) :
                 \E e \in Entries(after) : e.key = <<s, row.id>> /\ e.until = now + Ttl
           /\ \A e \in Entries(Fresh(offers)) :
                 e.key[1] # s /\ e \notin Entries(after) => Len(after) = OfferLimit
<1>. DEFINE SaveRow(t, row) ==
                Append(Without(t, <<s, row.id>>), Entry(<<s, row.id>>, row.ruled, Ttl))
            States == {t \in Seq(OfferEntry) : Once(t)}
            store == Fresh(offers)
            bound == Len(rows)
            Run(f) == [n \in 0..bound |-> IF n = 0 THEN store ELSE SaveRow(f[n - 1], rows[n])]
            after == CHOOSE f : f = Run(f)
            F == [p \in States \X Row |-> SaveRow(p[1], p[2])]
            Saved(row) == Entry(<<s, row.id>>, row.ruled, Ttl)
            Right(t, n) ==
               /\ t \in States
               /\ \A e \in Entries(t) : e \in Entries(store) \/ \E i \in 1..n : e = Saved(rows[i])
               /\ \A e \in Entries(store) : e.key[1] # s => e \in Entries(t)
               /\ \A i \in 1..n : \E p \in DOMAIN t :
                     /\ t[p].key = <<s, rows[i].id>> /\ t[p].until = now + Ttl
                     /\ Len(t) - p < n
            good == {n \in 0..bound : Right(after[n], n)}
<1>1. /\ now \in Nat /\ bound \in Nat /\ \A n \in 1..bound : rows[n] \in Row
      /\ DOMAIN rows = 1..bound
  BY StoreType DEF TypeOK
<1>2. store \in States /\ Entries(store) \subseteq Entries(offers)
  BY FreshEffect DEF TypeOK, KeysOnce
<1>3. SaveAll(s) = Newest(after[bound], OfferLimit)
  BY DEF SaveAll, Loop
<1>4. ASSUME NEW row \in Row
      PROVE  /\ Saved(row) \in OfferEntry
             /\ Saved(row).key = <<s, row.id>>
             /\ Saved(row).value = row.ruled
             /\ Saved(row).until = now + Ttl
  BY <1>1, Times DEF Entry, OfferEntry, Row
<1>. HIDE DEF store, Saved
<1>5. ASSUME NEW t \in States, NEW row \in Row
      PROVE  LET next == SaveRow(t, row) IN
             /\ next \in States
             /\ Entries(next) = {e \in Entries(t) : e.key # <<s, row.id>>} \cup {Saved(row)}
             /\ Len(next) \in DOMAIN next /\ next[Len(next)] = Saved(row)
             /\ \A i \in DOMAIN t : t[i].key # <<s, row.id>> =>
                   \E p \in DOMAIN next : next[p] = t[i] /\ Len(next) - p =< Len(t) - i + 1
  <2>. DEFINE entry == Saved(row)
  <2>1. entry \in OfferEntry /\ entry.key = <<s, row.id>>
    BY <1>4
  <2>2. SaveRow(t, row) = Append(Without(t, entry.key), entry)
    BY <2>1 DEF Saved
  <2>. HIDE DEF entry, SaveRow
  <2>. DEFINE next == Append(Without(t, entry.key), entry)
  <2>3. /\ next \in Seq(OfferEntry)
        /\ Once(next)
        /\ Entries(next) = {e \in Entries(t) : e.key # entry.key} \cup {entry}
        /\ Len(next) \in DOMAIN next /\ next[Len(next)] = entry
        /\ \A i \in DOMAIN t : t[i].key # entry.key =>
              \E p \in DOMAIN next : next[p] = t[i] /\ Len(next) - p =< Len(t) - i + 1
    BY <2>1, SaveEffect
  <2>. HIDE DEF next
  <2>4. SaveRow(t, row) = next
    BY <2>2 DEF next
  <2>. QED
    BY <2>1, <2>3, <2>4 DEF entry
<1>. HIDE DEF SaveRow
<1>6. F \in [States \X Row -> States]
  BY <1>5
<1>7. after = Run(after)
  <2>. HIDE DEF F, States
  <2>1. PICK g \in [0..bound -> States] : RunOf(g, F, store, rows)
    BY <1>1, <1>2, <1>6, LoopRuns
  <2>. HIDE DEF bound
  <2>2. \A n \in 1..bound : n - 1 \in 0..bound /\ g[n - 1] \in States /\ rows[n] \in Row
    BY <1>1
  <2>3. \A n \in 1..bound : g[n] = SaveRow(g[n - 1], rows[n])
    <3>1. \A n \in 1..bound : g[n] = F[<<g[n - 1], rows[n]>>]
      BY <2>1 DEF RunOf, bound
    <3>. QED
      BY <2>2, <3>1 DEF F
  <2>4. g = Run(g)
    BY <1>1, <2>1, <2>3 DEF RunOf
  <2>. QED
    BY <2>4
<1>. HIDE DEF F, States, after
<1>8. after[0] = store /\ \A n \in 1..bound : after[n] = SaveRow(after[n - 1], rows[n])
  <2>. HIDE DEF bound
  <2>1. \A n \in 0..bound : after[n] = Run(after)[n]
    BY <1>7
  <2>2. 0 \in 0..bound /\ \A n \in 1..bound : n \in 0..bound /\ n # 0
    BY <1>1
  <2>3. after[0] = Run(after)[0] /\ Run(after)[0] = store
    BY <2>1, <2>2
  <2>4. ASSUME NEW n \in 1..bound PROVE after[n] = SaveRow(after[n - 1], rows[n])
    BY <2>1, <2>2
  <2>. QED
    BY <2>3, <2>4
<1>9. 0 \in good
  BY <1>1, <1>2, <1>8
<1>10. ASSUME NEW n \in good, n < bound PROVE n + 1 \in good
  <2>. DEFINE t == after[n]
              row == rows[n + 1]
              next == SaveRow(t, row)
  <2>1. /\ n \in Nat /\ n + 1 \in 1..bound /\ n + 1 \in 0..bound /\ row \in Row
        /\ Right(t, n)
        /\ \A i \in 1..(n + 1) : i \in 1..n \/ i = n + 1
        /\ 1..n \subseteq 1..(n + 1)
    <3>. HIDE DEF Right, bound
    <3>1. n \in 0..bound /\ Right(t, n)
      OBVIOUS
    <3>2. n \in Nat /\ n + 1 \in 1..bound /\ n + 1 \in 0..bound
      BY <1>1, <1>10, <3>1
    <3>. QED
      BY <1>1, <3>1, <3>2
  <2>2. after[n + 1] = next
    <3>1. after[n + 1] = SaveRow(after[(n + 1) - 1], rows[n + 1]) /\ (n + 1) - 1 = n
      BY <1>8, <2>1
    <3>. QED
      BY <3>1
  <2>3. t \in States
    BY <2>1
  <2>4. /\ next \in States
        /\ Entries(next) = {e \in Entries(t) : e.key # <<s, row.id>>} \cup {Saved(row)}
        /\ Len(next) \in DOMAIN next /\ next[Len(next)] = Saved(row)
        /\ \A i \in DOMAIN t : t[i].key # <<s, row.id>> =>
              \E p \in DOMAIN next : next[p] = t[i] /\ Len(next) - p =< Len(t) - i + 1
    BY <1>5, <2>1, <2>3
  <2>5. \A u \in States : Len(u) \in Nat /\ DOMAIN u \subseteq Nat
    BY StoreType DEF States
  <2>. HIDE DEF t, next
  <2>6. \A e \in Entries(next) : e \in Entries(store) \/ \E i \in 1..(n + 1) : e = Saved(rows[i])
    <3>1. n + 1 \in 1..(n + 1)
      BY <2>1
    <3>. QED
      BY <2>1, <2>4, <3>1
  <2>7. \A e \in Entries(store) : e.key[1] # s => e \in Entries(next)
    <3>1. \A e \in Entries(store) : e.key[1] # s => e.key # <<s, row.id>>
      OBVIOUS
    <3>. QED
      BY <2>1, <2>4, <3>1
  <2>8. ASSUME NEW i \in 1..(n + 1)
        PROVE  \E p \in DOMAIN next :
                  /\ next[p].key = <<s, rows[i].id>> /\ next[p].until = now + Ttl
                  /\ Len(next) - p < n + 1
    <3>1. CASE rows[i].id = row.id
      <4>1. next[Len(next)].key = <<s, rows[i].id>> /\ next[Len(next)].until = now + Ttl
        BY <1>4, <2>1, <2>4, <3>1
      <4>2. Len(next) \in Nat /\ Len(next) - Len(next) < n + 1
        BY <2>1, <2>4, <2>5
      <4>. QED
        BY <2>4, <4>1, <4>2
    <3>2. CASE rows[i].id # row.id
      <4>1. i \in 1..n
        BY <2>1, <3>2
      <4>2. PICK q \in DOMAIN t :
               /\ t[q].key = <<s, rows[i].id>> /\ t[q].until = now + Ttl
               /\ Len(t) - q < n
        BY <2>1, <4>1
      <4>3. PICK p \in DOMAIN next : next[p] = t[q] /\ Len(next) - p =< Len(t) - q + 1
        BY <2>4, <3>2, <4>2
      <4>4. Len(next) - p < n + 1
        <5>1. Len(next) \in Nat /\ p \in Nat /\ Len(t) \in Nat /\ q \in Nat
          BY <2>3, <2>4, <2>5
        <5>. QED
          BY <2>1, <4>2, <4>3, <5>1
      <4>. QED
        BY <4>2, <4>3, <4>4
    <3>. QED
      BY <3>1, <3>2
  <2>. QED
    BY <2>1, <2>2, <2>4, <2>6, <2>7, <2>8
<1>11. bound \in good
  <2>. HIDE DEF good
  <2>1. good \in SUBSET (0..bound)
    BY DEF good
  <2>. HIDE DEF bound
  <2>2. \A n \in 0..bound : n \in good
    BY <1>1, <1>9, <1>10, <2>1, UpTo
  <2>. QED
    BY <1>1, <2>2
<1>. DEFINE all == after[bound]
            left == Newest(all, OfferLimit)
<1>12. Right(all, bound)
  BY <1>11
<1>. HIDE DEF all
<1>13. /\ left \in Seq(OfferEntry)
       /\ Entries(left) \subseteq Entries(all)
       /\ Once(left)
       /\ Entries(left) # Entries(all) => Len(left) = OfferLimit
       /\ \A p \in DOMAIN all : Len(all) - p < OfferLimit => all[p] \in Entries(left)
  BY <1>12, NewestEffect, Times DEF States
<1>. HIDE DEF left, bound
<1>14. ASSUME NEW e \in Entries(left)
       PROVE  \/ e \in Entries(offers)
              \/ \E row \in Entries(rows) :
                    e.key = <<s, row.id>> /\ e.value = row.ruled /\ e.until = now + Ttl
  <2>1. e \in Entries(store) \/ \E i \in 1..bound : e = Saved(rows[i])
    BY <1>12, <1>13
  <2>2. \A i \in 1..bound : rows[i] \in Entries(rows)
    BY <1>1 DEF Entries
  <2>. QED
    BY <1>1, <1>2, <1>4, <2>1, <2>2
<1>15. ASSUME NEW row \in Entries(rows)
       PROVE  \E e \in Entries(left) : e.key = <<s, row.id>> /\ e.until = now + Ttl
  <2>1. PICK i \in 1..bound : row = rows[i]
    BY <1>1 DEF Entries
  <2>2. PICK p \in DOMAIN all :
           /\ all[p].key = <<s, rows[i].id>> /\ all[p].until = now + Ttl
           /\ Len(all) - p < bound
    BY <1>12
  <2>3. Len(all) - p < OfferLimit
    <3>1. Len(all) \in Nat /\ p \in Nat
      BY <1>12, StoreType DEF States
    <3>2. bound =< OfferLimit
      BY DEF bound
    <3>. QED
      BY <1>1, <2>2, <3>1, <3>2, Times
  <2>. QED
    BY <1>13, <2>1, <2>2, <2>3
<1>16. \A e \in Entries(store) :
          e.key[1] # s /\ e \notin Entries(left) => Len(left) = OfferLimit
  BY <1>12, <1>13
<1>. QED
  BY <1>3, <1>13, <1>14, <1>15, <1>16 DEF left, all, store

-----------------------------------------------------------------------------
(* The steps *)

\* What IInv says of the entries and the searches there are.
LEMMA EntriesHold ==
    ASSUME IInv
    PROVE  /\ now \in Nat
           /\ \A e \in Entries(raw) :
                 /\ e \in RawEntry /\ e.value \in Seq(Row) /\ e.until \in Nat
                 /\ e.until =< now + RawTtl
                 /\ KnownRows(e.value, e.until + Ttl - RawTtl)
           /\ \A e \in Entries(offers) :
                 /\ e \in OfferEntry /\ e.until \in Nat /\ e.until =< now + Ttl
                 /\ e.key[1] \in Searches /\ e.key[2] \in Sources
                 /\ search[e.key[1]].stage = "answered"
           /\ \A x \in Stores : \A e \in Entries(context[x]) :
                 e.key \in Sources /\ e.until \in Nat /\ e.until =< now + Ttl
           /\ \A s \in Searches :
                 /\ search[s] \in SearchRecord /\ search[s].rows \in Seq(Row)
                 /\ search[s].since \in Nat /\ search[s].since =< now
                 /\ Live(s) => now =< search[s].since + Lag
<1>1. \A e \in Entries(raw) : e \in RawEntry
  <2>1. Entries(raw) \in SUBSET RawEntry
    BY StoreType DEF IInv, TypeOK
  <2>. QED
    BY <2>1
<1>2. \A e \in Entries(offers) : e \in OfferEntry
  <2>1. Entries(offers) \in SUBSET OfferEntry
    BY StoreType DEF IInv, TypeOK
  <2>. QED
    BY <2>1
<1>3. \A x \in Stores : \A e \in Entries(context[x]) : e \in ContextEntry
  <2>1. \A x \in Stores : Entries(context[x]) \in SUBSET ContextEntry
    BY StoreType DEF IInv, TypeOK
  <2>. QED
    BY <2>1
<1>4. \A e \in RawEntry : e.value \in Seq(Row) /\ e.until \in Nat
  BY DEF RawEntry
<1>5. \A e \in OfferEntry : e.until \in Nat /\ e.key[1] \in Searches /\ e.key[2] \in Sources
  BY DEF OfferEntry
<1>6. \A e \in ContextEntry : e.until \in Nat /\ e.key \in Sources
  BY DEF ContextEntry
<1>7. \A s \in Searches :
         search[s] \in SearchRecord /\ search[s].rows \in Seq(Row) /\ search[s].since \in Nat
  BY DEF IInv, TypeOK, SearchRecord
<1>. QED
  BY <1>1, <1>2, <1>3, <1>4, <1>5, <1>6, <1>7
  DEF IInv, TypeOK, Ages, RawKnown, OffersOfAnswered

\* A search that stops or waits, and one that goes on.
LEMMA RecordType ==
    /\ \A stage \in {"new", "malformed", "ended"} :
          /\ Idle(stage) \in SearchRecord
          /\ Idle(stage).stage = stage /\ Idle(stage).since = 0
    /\ \A stage \in {"waiting", "gathered"}, q \in Queries, since \in Nat, rows \in Seq(Row) :
          [stage |-> stage, query |-> q, since |-> since, rows |-> rows] \in SearchRecord
    /\ <<>> \in Seq(Row)
<1>1. <<>> \in Seq(Row)
  BY EmptySeq
<1>. QED
  BY <1>1 DEF Idle, SearchRecord

\* What a search knows of its rows.
LEMMA SearchKnows ==
    ASSUME NEW s \in Searches, NEW rows, NEW since, NEW u,
           search'[s].rows = rows, search'[s].since = since,
           u = since + Ttl - RawTtl + 1, KnownRows(rows, u)'
    PROVE  KnownRows(search[s].rows, search[s].since + Ttl - RawTtl + 1)'
<1>1. rows = search'[s].rows /\ u = search'[s].since + Ttl - RawTtl + 1
  OBVIOUS
<1>. QED
  BY <1>1

\* A step that leaves what the adapter remembers alone.
LEMMA ContextUntouched ==
    ASSUME IInv, now' = now, context' = context, pushedOut' = pushedOut
    PROVE  /\ KnownStays
           /\ PushedOutGone'
           /\ now' \in Nat /\ now =< now'
           /\ context' \in [Stores -> Seq(ContextEntry)] /\ pushedOut' \in [Stores -> SUBSET Sources]
           /\ \A x \in Stores : Once(context'[x])
           /\ \A x \in Stores : \A e \in Entries(context'[x]) : e.until =< now' + Ttl
<1>1. TypeOK /\ PushedOutGone /\ now \in Nat
  BY DEF IInv, TypeOK
<1>2. KnownStays /\ PushedOutGone'
  BY <1>1, QuietStep
<1>. QED
  BY <1>1, <1>2 DEF IInv, TypeOK, KeysOnce, Ages

\* At first nothing is known and nothing is promised.
LEMMA InitHolds == ASSUME Init PROVE IInv
<1>1. /\ now = 0 /\ raw = <<>> /\ loading = {} /\ offers = <<>>
      /\ context = [x \in Stores |-> <<>>]
      /\ pushedOut = [x \in Stores |-> {}]
      /\ search = [s \in Searches |-> Idle("new")]
  BY DEF Init
<1>2. Entries(<<>>) = {} /\ Once(<<>>)
  BY DEF Entries, Once
<1>3. \A T : <<>> \in Seq(T)
  BY EmptySeq
<1>4. TypeOK
  BY <1>1, <1>3, RecordType DEF TypeOK
<1>5. \A s \in Searches : search[s].stage = "new" /\ search[s].since = 0
  BY <1>1, RecordType
<1>6. KeysOnce
  BY <1>1, <1>2 DEF KeysOnce
<1>7. Ages
  BY <1>1, <1>2, <1>5 DEF Ages, Live
<1>8. RawKnown /\ OfferKnown /\ OffersOfAnswered
  BY <1>1, <1>2 DEF RawKnown, OfferKnown, OffersOfAnswered
<1>9. SearchKnown
  BY <1>5 DEF SearchKnown
<1>10. PushedOutGone
  BY <1>1 DEF PushedOutGone
<1>. QED
  BY <1>4, <1>6, <1>7, <1>8, <1>9, <1>10 DEF IInv

\* Time passes: what is known was known until then.
LEMMA TickStep == ASSUME IInv, Tick PROVE IInv'
<1>1. /\ now' = now + 1 /\ now \in Nat
      /\ raw' = raw /\ loading' = loading /\ context' = context
      /\ pushedOut' = pushedOut /\ offers' = offers /\ search' = search
      /\ \A s \in Searches : Live(s) => now < search[s].since + Lag
  BY DEF Tick, IInv, TypeOK
<1>2. TypeOK' /\ KeysOnce'
  BY <1>1 DEF IInv, TypeOK, KeysOnce
<1>3. TypeOK /\ PushedOutGone /\ now' \in Nat /\ now =< now'
  BY <1>1 DEF IInv
<1>4. KnownStays /\ PushedOutGone'
  BY <1>1, <1>3, QuietStep
<1>5. \A x \in Stores : \A e \in Entries(context'[x]) : e.until =< now' + Ttl
  <2>1. \A x \in Stores : \A e \in Entries(context[x]) : e.until \in Nat /\ e.until =< now + Ttl
    BY EntriesHold
  <2>. QED
    BY <1>1, <2>1, Times
<1>6. \A s \in Searches : search[s].since \in Nat
  BY EntriesHold
<1>7. \A s \in Searches : search'[s] = search[s] /\ (Live(s) => now' =< search[s].since + Lag)
  BY <1>1, <1>6, Times
<1>. QED
  BY <1>1, <1>2, <1>3, <1>4, <1>5, <1>7, StepPreserves

\* A cached result is fresh, and so leaves its offers known for long enough.
LEMMA SearchHitStep ==
    ASSUME IInv, NEW s \in Searches, NEW q \in Queries, SearchHit(s, q)
    PROVE  IInv'
<1>. DEFINE e == Lookup(raw, q)
            record == [stage |-> "gathered", query |-> q, since |-> now, rows |-> e.value]
<1>1. /\ search[s].stage = "new" /\ q \in Held(raw) /\ raw' = Touch(raw, q)
      /\ search' = [search EXCEPT ![s] = record]
      /\ now' = now /\ loading' = loading /\ context' = context
      /\ pushedOut' = pushedOut /\ offers' = offers
  BY DEF SearchHit
<1>2. e \in Entries(raw) /\ e.key = q /\ e.until > now
  <2>1. PICK f \in Entries(raw) : f.key = q /\ f.until > now
    BY <1>1 DEF Held
  <2>2. e \in Entries(raw) /\ e.key = q
    BY <2>1 DEF Lookup
  <2>3. e = f
    BY <2>1, <2>2 DEF IInv, KeysOnce, Once, Entries
  <2>. QED
    BY <2>1, <2>2, <2>3
<1>. HIDE DEF e
<1>3. /\ e.value \in Seq(Row) /\ e.until \in Nat /\ now \in Nat
      /\ KnownRows(e.value, e.until + Ttl - RawTtl)
  BY <1>2, EntriesHold
<1>4. /\ raw' \in Seq(RawEntry) /\ Once(raw') /\ Entries(raw') \subseteq Entries(raw)
  BY <1>1, TouchEffect DEF IInv, TypeOK, KeysOnce
<1>5. record \in SearchRecord
  BY <1>3, RecordType
<1>6. /\ search' \in [Searches -> SearchRecord]
      /\ search'[s] = record /\ \A t \in Searches \ {s} : search'[t] = search[t]
  <2>. HIDE DEF record
  <2>. QED
    BY <1>1, <1>5 DEF IInv, TypeOK
<1>7. /\ KnownStays /\ PushedOutGone' /\ now' \in Nat /\ now =< now'
      /\ context' \in [Stores -> Seq(ContextEntry)] /\ pushedOut' \in [Stores -> SUBSET Sources]
      /\ \A x \in Stores : Once(context'[x])
      /\ \A x \in Stores : \A d \in Entries(context'[x]) : d.until =< now' + Ttl
  BY <1>1, ContextUntouched
<1>8. TypeOK' /\ KeysOnce'
  BY <1>1, <1>4, <1>6, <1>7 DEF IInv, TypeOK, KeysOnce
<1>9. KnownRows(search[s].rows, search[s].since + Ttl - RawTtl + 1)'
  <2>1. PICK rows, since, u :
           rows = e.value /\ since = now /\ u = now + Ttl - RawTtl + 1
    OBVIOUS
  <2>2. u \in Int /\ u =< now + Ttl /\ u =< e.until + Ttl - RawTtl /\ e.until + Ttl - RawTtl \in Int
    BY <1>2, <1>3, <2>1, Times
  <2>3. KnownRows(rows, u)
    BY <1>3, <2>1, <2>2, KnownRowsEarlier DEF IInv, TypeOK
  <2>4. KnownRows(rows, u)'
    BY <1>3, <1>7, <2>1, <2>2, <2>3, KnownRowsStay
  <2>. QED
    BY <1>6, <2>1, <2>4, SearchKnows
<1>10. search'[s].since =< now' /\ now' =< search'[s].since + Lag
  BY <1>1, <1>3, <1>6, Times
<1>11. \A t \in Searches :
          \/ search'[t] = search[t] /\ (Live(t) => now' =< search[t].since + Lag)
          \/ /\ search[t].stage # "answered"
             /\ search'[t].since =< now'
             /\ Live(t)' => now' =< search'[t].since + Lag
             /\ search'[t].stage \in {"gathered", "normalised"} =>
                   KnownRows(search[t].rows, search[t].since + Ttl - RawTtl + 1)'
  <2>. SUFFICES ASSUME NEW t \in Searches, t # s
                PROVE  search'[t] = search[t] /\ (Live(t) => now' =< search[t].since + Lag)
    BY <1>1, <1>9, <1>10
  <2>. QED
    BY <1>1, <1>6, EntriesHold
<1>. QED
  BY <1>1, <1>4, <1>7, <1>8, <1>11, StepPreserves

\* A search that waits is promised nothing yet.
LEMMA SearchMissStep ==
    ASSUME IInv, NEW s \in Searches, NEW q \in Queries, SearchMiss(s, q)
    PROVE  IInv'
<1>. DEFINE record == [stage |-> "waiting", query |-> q, since |-> now, rows |-> <<>>]
<1>1. /\ search[s].stage = "new" /\ raw' = Without(raw, q) /\ loading' = loading \cup {q}
      /\ search' = [search EXCEPT ![s] = record]
      /\ now' = now /\ context' = context /\ pushedOut' = pushedOut /\ offers' = offers
  BY DEF SearchMiss
<1>2. now \in Nat
  BY EntriesHold
<1>3. /\ raw' \in Seq(RawEntry) /\ Once(raw') /\ Entries(raw') \subseteq Entries(raw)
  BY <1>1, WithoutEffect DEF IInv, TypeOK, KeysOnce
<1>4. record \in SearchRecord
  BY <1>2, RecordType
<1>5. /\ search' \in [Searches -> SearchRecord]
      /\ search'[s] = record /\ \A t \in Searches \ {s} : search'[t] = search[t]
  <2>. HIDE DEF record
  <2>. QED
    BY <1>1, <1>4 DEF IInv, TypeOK
<1>6. /\ KnownStays /\ PushedOutGone' /\ now' \in Nat /\ now =< now'
      /\ context' \in [Stores -> Seq(ContextEntry)] /\ pushedOut' \in [Stores -> SUBSET Sources]
      /\ \A x \in Stores : Once(context'[x])
      /\ \A x \in Stores : \A d \in Entries(context'[x]) : d.until =< now' + Ttl
  BY <1>1, ContextUntouched
<1>7. TypeOK' /\ KeysOnce'
  BY <1>1, <1>3, <1>5, <1>6 DEF IInv, TypeOK, KeysOnce
<1>8. /\ search'[s].since =< now' /\ now' =< search'[s].since + Lag
      /\ search'[s].stage \notin {"gathered", "normalised"}
  BY <1>1, <1>2, <1>5, Times
<1>9. \A t \in Searches :
         \/ search'[t] = search[t] /\ (Live(t) => now' =< search[t].since + Lag)
         \/ /\ search[t].stage # "answered"
            /\ search'[t].since =< now'
            /\ Live(t)' => now' =< search'[t].since + Lag
            /\ search'[t].stage \in {"gathered", "normalised"} =>
                  KnownRows(search[t].rows, search[t].since + Ttl - RawTtl + 1)'
  <2>. SUFFICES ASSUME NEW t \in Searches, t # s
                PROVE  search'[t] = search[t] /\ (Live(t) => now' =< search[t].since + Lag)
    BY <1>1, <1>8
  <2>. QED
    BY <1>1, <1>5, EntriesHold
<1>. QED
  BY <1>1, <1>3, <1>6, <1>7, <1>9, StepPreserves

\* The provider fails: whoever waited for it is told so.
LEMMA LoadFailsStep ==
    ASSUME IInv, NEW q \in Queries, LoadFails(q)
    PROVE  IInv'
<1>1. /\ loading' = loading \ {q}
      /\ search' = [s \in Searches |->
                       IF search[s].stage = "waiting" /\ search[s].query = q
                       THEN Idle("ended") ELSE search[s]]
      /\ now' = now /\ raw' = raw /\ context' = context
      /\ pushedOut' = pushedOut /\ offers' = offers
  BY DEF LoadFails
<1>2. /\ KnownStays /\ PushedOutGone' /\ now' \in Nat /\ now =< now'
      /\ context' \in [Stores -> Seq(ContextEntry)] /\ pushedOut' \in [Stores -> SUBSET Sources]
      /\ \A x \in Stores : Once(context'[x])
      /\ \A x \in Stores : \A d \in Entries(context'[x]) : d.until =< now' + Ttl
  BY <1>1, ContextUntouched
<1>3. search' \in [Searches -> SearchRecord]
  BY <1>1, RecordType DEF IInv, TypeOK
<1>4. TypeOK' /\ KeysOnce'
  BY <1>1, <1>2, <1>3 DEF IInv, TypeOK, KeysOnce
<1>5. \A t \in Searches :
         \/ search'[t] = search[t] /\ (Live(t) => now' =< search[t].since + Lag)
         \/ /\ search[t].stage # "answered"
            /\ search'[t].since =< now'
            /\ Live(t)' => now' =< search'[t].since + Lag
            /\ search'[t].stage \in {"gathered", "normalised"} =>
                  KnownRows(search[t].rows, search[t].since + Ttl - RawTtl + 1)'
  <2>. SUFFICES ASSUME NEW t \in Searches
                PROVE  \/ search'[t] = search[t] /\ (Live(t) => now' =< search[t].since + Lag)
                       \/ /\ search[t].stage # "answered"
                          /\ search'[t].since =< now'
                          /\ ~Live(t)'
                          /\ search'[t].stage \notin {"gathered", "normalised"}
    OBVIOUS
  <2>1. CASE search[t].stage = "waiting" /\ search[t].query = q
    <3>1. search'[t] = Idle("ended")
      BY <1>1, <2>1
    <3>2. search'[t].stage = "ended" /\ search'[t].since = 0
      BY <3>1, RecordType
    <3>. QED
      BY <1>2, <2>1, <3>2 DEF Live
  <2>2. CASE ~(search[t].stage = "waiting" /\ search[t].query = q)
    BY <1>1, <2>2, EntriesHold
  <2>. QED
    BY <2>1, <2>2
<1>. QED
  BY <1>1, <1>2, <1>4, <1>5, StepPreserves

\* Remembering the rows of a result: what is forgotten before its time is
\* noted as pushed out, and of the rows all is known for as long as can be.
LEMMA RememberStep ==
    ASSUME IInv, now' = now, NEW rows \in Seq(Row),
           context' = RememberAll(rows), pushedOut' = PushedOut(rows)
    PROVE  /\ KnownStays
           /\ PushedOutGone'
           /\ context' \in [Stores -> Seq(ContextEntry)] /\ pushedOut' \in [Stores -> SUBSET Sources]
           /\ \A x \in Stores : Once(context'[x])
           /\ \A x \in Stores : \A e \in Entries(context'[x]) : e.until =< now' + Ttl
           /\ KnownRows(rows, now + Ttl)'
<1>. DEFINE given(x) == {row.id : row \in {r \in Entries(rows) : x # "refunds" \/ r.ruled}}
<1>1. /\ now \in Nat
      /\ context' \in [Stores -> Seq(ContextEntry)]
      /\ \A x \in Stores :
            /\ Once(context'[x])
            /\ \A e \in Entries(context'[x]) :
                  \/ e.until = now + Ttl
                  \/ e \in Entries(context[x]) /\ e.key \notin Given(x, rows, Len(rows))
  BY RememberAllEffect DEF IInv, TypeOK
<1>2. \A x \in Stores : Given(x, rows, Len(rows)) = given(x) /\ given(x) \subseteq Sources
  <2>1. DOMAIN rows = 1..Len(rows) /\ Entries(rows) \in SUBSET Row
    BY StoreType
  <2>2. \A x \in Stores : Given(x, rows, Len(rows)) = given(x)
    BY <2>1 DEF Given, Entries
  <2>3. \A x \in Stores : given(x) \subseteq Sources
    BY <2>1 DEF Row
  <2>. QED
    BY <2>2, <2>3
<1>3. pushedOut' = [x \in Stores |->
                      (pushedOut[x] \cup Held(context[x]) \cup given(x)) \ Held(context'[x])]
  BY DEF PushedOut
<1>. HIDE DEF given
<1>4. \A x \in Stores : \A e \in Entries(context[x]) :
         e.key \in Sources /\ e.until \in Nat /\ e.until =< now + Ttl
  BY EntriesHold
<1>5. pushedOut' \in [Stores -> SUBSET Sources]
  <2>1. \A x \in Stores : Held(context[x]) \subseteq Sources /\ pushedOut[x] \subseteq Sources
    BY <1>4 DEF Held, IInv, TypeOK
  <2>. QED
    BY <1>2, <1>3, <2>1
<1>6. \A x \in Stores : \A e \in Entries(context'[x]) : e.until =< now' + Ttl
  <2>1. now + Ttl =< now + Ttl
    BY <1>1, Times
  <2>2. \A x \in Stores : \A e \in Entries(context'[x]) : e.until =< now + Ttl
    BY <1>1, <1>4, <2>1
  <2>. QED
    BY <2>2
<1>7. PushedOutGone'
  <2>1. \A x \in Stores : Held(context[x])' = Held(context'[x])
    BY DEF Held
  <2>. QED
    BY <1>3, <2>1 DEF PushedOutGone
<1>8. KnownStays
  <2>. SUFFICES ASSUME NEW x \in Stores, NEW id \in Sources, NEW u \in Int,
                       u =< now + Ttl, Known(x, id, u), u > now, id \notin pushedOut'[x]
                PROVE  \E e \in Entries(context'[x]) : e.key = id /\ e.until >= u
    BY <1>1 DEF KnownStays, Known
  <2>1. id \in pushedOut[x] \cup Held(context[x])
    <3>1. CASE \E e \in Entries(context[x]) : e.key = id /\ e.until >= u
      BY <1>1, <1>4, <3>1 DEF Held
    <3>2. CASE id \in pushedOut[x]
      BY <3>2
    <3>. QED
      BY <1>1, <3>1, <3>2 DEF Known
  <2>2. id \in Held(context'[x])
    BY <1>3, <2>1
  <2>3. PICK e \in Entries(context'[x]) : e.key = id /\ e.until > now
    BY <2>2 DEF Held
  <2>4. CASE e.until = now + Ttl
    BY <2>3, <2>4
  <2>5. CASE e \in Entries(context[x])
    <3>1. id \in Held(context[x]) /\ id \notin pushedOut[x]
      BY <2>3, <2>5 DEF Held, IInv, PushedOutGone
    <3>2. PICK d \in Entries(context[x]) : d.key = id /\ d.until >= u
      BY <1>1, <3>1 DEF Known
    <3>3. d = e
      BY <2>3, <2>5, <3>2 DEF IInv, KeysOnce, Once, Entries
    <3>. QED
      BY <2>3, <3>2, <3>3
  <2>. QED
    BY <1>1, <2>4, <2>5
<1>9. KnownRows(rows, now + Ttl)'
  <2>. SUFFICES ASSUME NEW row \in Entries(rows), NEW x \in Stores, x # "refunds" \/ row.ruled
                PROVE  Known(x, row.id, now + Ttl)'
    BY DEF KnownRows
  <2>1. row.id \in given(x)
    BY DEF given
  <2>2. CASE row.id \notin Held(context'[x])
    BY <1>3, <2>1, <2>2 DEF Known
  <2>3. CASE row.id \in Held(context'[x])
    <3>1. PICK e \in Entries(context'[x]) : e.key = row.id
      BY <2>3 DEF Held
    <3>2. e.until = now + Ttl
      BY <1>1, <1>2, <2>1, <3>1
    <3>3. e.until >= now' + Ttl
      BY <1>1, <3>2, Times
    <3>. QED
      BY <3>1, <3>3 DEF Known
  <2>. QED
    BY <2>2, <2>3
<1>. QED
  BY <1>1, <1>5, <1>6, <1>7, <1>8, <1>9

\* A provider's answer, with rules for some of its offers.
LEMMA AnswerType ==
    ASSUME NEW q \in Queries, NEW ruled
    PROVE  [i \in DOMAIN Rows[q] |-> [id |-> Rows[q][i], ruled |-> Rows[q][i] \in ruled]]
              \in Seq(Row)
<1>. DEFINE ids == Rows[q]
            rows == [i \in DOMAIN ids |-> [id |-> ids[i], ruled |-> ids[i] \in ruled]]
<1>1. ids \in Seq(Sources)
  BY ConstantsAssumption DEF ConstantsAssumption
<1>2. Len(ids) \in Nat /\ DOMAIN ids = 1..Len(ids) /\ \A i \in 1..Len(ids) : ids[i] \in Sources
  BY <1>1, StoreType
<1>. HIDE DEF ids
<1>3. rows \in [1..Len(ids) -> Row]
  BY <1>2 DEF Row
<1>4. rows \in Seq(Row)
  BY <1>2, <1>3, SeqDef
<1>. QED
  BY <1>4 DEF ids

\* The provider answers: whoever waited for it began no later than now.
LEMMA LoadStep ==
    ASSUME IInv, NEW q \in Queries, Load(q)
    PROVE  IInv'
<1>1. PICK ruled \in SUBSET Refundable :
         LET rows == [i \in DOMAIN Rows[q] |->
                         [id |-> Rows[q][i], ruled |-> Rows[q][i] \in ruled]]
         IN  /\ context' = RememberAll(rows)
             /\ pushedOut' = PushedOut(rows)
             /\ raw' = Put(raw, Entry(q, rows, RawTtl), Cardinality(Queries))
             /\ search' = [s \in Searches |->
                              IF search[s].stage = "waiting" /\ search[s].query = q
                              THEN [search[s] EXCEPT !.stage = "gathered", !.rows = rows]
                              ELSE search[s]]
  BY DEF Load
<1>. DEFINE rows == [i \in DOMAIN Rows[q] |->
                        [id |-> Rows[q][i], ruled |-> Rows[q][i] \in ruled]]
            entry == Entry(q, rows, RawTtl)
<1>2. rows \in Seq(Row)
  BY AnswerType
<1>. HIDE DEF rows
<1>3. /\ context' = RememberAll(rows)
      /\ pushedOut' = PushedOut(rows)
      /\ raw' = Put(raw, entry, Cardinality(Queries))
      /\ search' = [s \in Searches |->
                       IF search[s].stage = "waiting" /\ search[s].query = q
                       THEN [search[s] EXCEPT !.stage = "gathered", !.rows = rows]
                       ELSE search[s]]
      /\ loading' = loading \ {q} /\ now' = now /\ offers' = offers
  BY <1>1 DEF rows, Load
<1>4. now' = now /\ now \in Nat /\ now' \in Nat /\ now =< now'
  <2>1. now' = now
    BY DEF Load
  <2>2. now \in Nat
    BY EntriesHold
  <2>. QED
    BY <2>1, <2>2
<1>5. entry \in RawEntry /\ entry.until = now + RawTtl /\ entry.value = rows
  BY <1>2, <1>4, Times DEF Entry, RawEntry
<1>. HIDE DEF entry
<1>6. /\ KnownStays /\ PushedOutGone'
      /\ context' \in [Stores -> Seq(ContextEntry)] /\ pushedOut' \in [Stores -> SUBSET Sources]
      /\ \A x \in Stores : Once(context'[x])
      /\ \A x \in Stores : \A e \in Entries(context'[x]) : e.until =< now' + Ttl
      /\ KnownRows(rows, now + Ttl)'
  BY <1>2, <1>3, RememberStep
<1>7. /\ raw' \in Seq(RawEntry) /\ Once(raw')
      /\ \A e \in Entries(raw') : e = entry \/ e \in Entries(raw)
  BY <1>3, <1>5, PutEffect, Times DEF IInv, TypeOK, KeysOnce
<1>8. \A s \in Searches :
         /\ search[s].stage = "waiting" /\ search[s].query = q =>
               /\ search'[s] \in SearchRecord
               /\ search'[s].stage = "gathered" /\ search'[s].rows = rows
               /\ search'[s].since = search[s].since
         /\ ~(search[s].stage = "waiting" /\ search[s].query = q) => search'[s] = search[s]
  <2>. SUFFICES ASSUME NEW s \in Searches,
                       search'[s] = IF search[s].stage = "waiting" /\ search[s].query = q
                                    THEN [search[s] EXCEPT !.stage = "gathered", !.rows = rows]
                                    ELSE search[s]
                PROVE  search[s].stage = "waiting" /\ search[s].query = q =>
                          /\ search'[s] \in SearchRecord
                          /\ search'[s].stage = "gathered" /\ search'[s].rows = rows
                          /\ search'[s].since = search[s].since
    BY <1>3
  <2>1. search[s] \in SearchRecord
    BY EntriesHold
  <2>. QED
    BY <1>2, <2>1 DEF SearchRecord
<1>9. search' \in [Searches -> SearchRecord]
  <2>1. \A s \in Searches : search'[s] \in SearchRecord
    BY <1>8, EntriesHold
  <2>. QED
    BY <1>3, <2>1
<1>10. TypeOK' /\ KeysOnce'
  BY <1>3, <1>4, <1>6, <1>7, <1>9 DEF IInv, TypeOK, KeysOnce
<1>11. \A e \in Entries(raw') :
          \/ e \in Entries(raw)
          \/ /\ e.until =< now' + RawTtl
             /\ KnownRows(e.value, e.until + Ttl - RawTtl)'
  <2>. SUFFICES ASSUME NEW e \in Entries(raw'), e = entry
                PROVE  /\ e.until =< now' + RawTtl
                       /\ KnownRows(e.value, e.until + Ttl - RawTtl)'
    BY <1>7
  <2>1. e.until =< now' + RawTtl
    BY <1>4, <1>5, Times
  <2>2. PICK r, v : r = e.value /\ v = e.until + Ttl - RawTtl
    OBVIOUS
  <2>3. r = rows /\ v = now' + Ttl
    BY <1>4, <1>5, <2>2, Times
  <2>4. KnownRows(r, v)'
    BY <1>6, <2>3
  <2>. QED
    BY <2>1, <2>2, <2>4
<1>12. \A s \in Searches :
          \/ search'[s] = search[s] /\ (Live(s) => now' =< search[s].since + Lag)
          \/ /\ search[s].stage # "answered"
             /\ search'[s].since =< now'
             /\ Live(s)' => now' =< search'[s].since + Lag
             /\ search'[s].stage \in {"gathered", "normalised"} =>
                   KnownRows(search[s].rows, search[s].since + Ttl - RawTtl + 1)'
  <2>. SUFFICES ASSUME NEW s \in Searches
                PROVE  \/ search'[s] = search[s] /\ (Live(s) => now' =< search[s].since + Lag)
                       \/ /\ search[s].stage # "answered"
                          /\ search'[s].since =< now'
                          /\ Live(s)' => now' =< search'[s].since + Lag
                          /\ search'[s].stage \in {"gathered", "normalised"} =>
                                KnownRows(search[s].rows, search[s].since + Ttl - RawTtl + 1)'
    OBVIOUS
  <2>0. /\ search[s].since \in Nat /\ search[s].since =< now
        /\ Live(s) => now =< search[s].since + Lag
    BY EntriesHold
  <2>1. CASE search[s].stage = "waiting" /\ search[s].query = q
    <3>1. PICK r, since, u :
             r = rows /\ since = search[s].since /\ u = search[s].since + Ttl - RawTtl + 1
      OBVIOUS
    <3>2. u \in Int /\ u =< now' + Ttl /\ now' + Ttl \in Int /\ now' + Ttl = now + Ttl
      BY <1>4, <2>0, <3>1, Times
    <3>3. PICK v : v = now' + Ttl
      OBVIOUS
    <3>4. KnownRows(r, v)'
      BY <1>6, <3>1, <3>2, <3>3
    <3>5. KnownRows(r, u)'
      <4>1. /\ context' \in [Stores -> Seq(ContextEntry)] /\ now' \in Nat
            /\ v \in Int /\ u \in Int /\ u =< v
        BY <1>4, <1>6, <3>2, <3>3
      <4>2. \A x \in Stores : \A e \in Entries(context'[x]) : e.until \in Nat
        <5>1. \A x \in Stores : Entries(context'[x]) \in SUBSET ContextEntry
          BY <4>1, StoreType
        <5>. QED
          BY <5>1 DEF ContextEntry
      <4>3. \A x \in Stores : \A id : Known(x, id, v)' => Known(x, id, u)'
        BY <4>1, <4>2 DEF Known
      <4>. QED
        BY <3>4, <4>3 DEF KnownRows
    <3>6. search'[s].rows = r /\ search'[s].since = since
      BY <1>8, <2>1, <3>1
    <3>7. KnownRows(search[s].rows, search[s].since + Ttl - RawTtl + 1)'
      BY <3>1, <3>5, <3>6, SearchKnows
    <3>. QED
      BY <1>4, <1>8, <2>0, <2>1, <3>7 DEF Live
  <2>2. CASE ~(search[s].stage = "waiting" /\ search[s].query = q)
    BY <1>4, <1>8, <2>0, <2>2
  <2>. QED
    BY <2>1, <2>2
<1>. QED
  BY <1>3, <1>4, <1>6, <1>10, <1>11, <1>12, StepPreserves

\* A first part of rows.
LEMMA FirstRows ==
    ASSUME NEW rows \in Seq(Row), NEW read \in SUBSET DOMAIN rows
    PROVE  SubSeq(rows, 1, Cardinality(read)) \in Seq(Row)
<1>. DEFINE size == Cardinality(read)
<1>1. Len(rows) \in Nat /\ DOMAIN rows = 1..Len(rows) /\ \A i \in 1..Len(rows) : rows[i] \in Row
  BY StoreType
<1>2. size \in Nat /\ size =< Len(rows)
  <2>1. IsFiniteSet(1..Len(rows)) /\ Cardinality(1..Len(rows)) = Len(rows)
    BY <1>1, FS_Interval
  <2>2. read \in SUBSET (1..Len(rows))
    BY <1>1
  <2>3. IsFiniteSet(read) /\ Cardinality(read) =< Cardinality(1..Len(rows))
    BY <2>1, <2>2, FS_Subset
  <2>. QED
    BY <2>1, <2>3, FS_CardinalityType
<1>. HIDE DEF size
<1>3. 1 \in 1..(Len(rows) + 1) /\ size \in Int /\ 1 \in Int /\ \A i \in 1..size : rows[i] \in Row
  BY <1>1, <1>2
<1>4. SubSeq(rows, 1, size) \in Seq(Row)
  BY <1>3, SubSeqProperties
<1>. QED
  BY <1>4 DEF size

\* A gathered row whose redirect is not there was pushed out, unless the search
\* has run for longer than its adapter's context outlives the result.
LEMMA MissingRedirect ==
    ASSUME IInv, NEW s \in Searches, search[s].stage = "gathered",
           now - search[s].since =< Ttl - RawTtl,
           NEW row \in Entries(search[s].rows), row.id \notin Held(context["redirects"])
    PROVE  row.id \in pushedOut["redirects"]
<1>. DEFINE u == search[s].since + Ttl - RawTtl + 1
<1>1. KnownRows(search[s].rows, u)
  BY DEF IInv, SearchKnown
<1>2. Known("redirects", row.id, u)
  <2>1. "redirects" \in Stores /\ "redirects" # "refunds"
    BY DEF Stores
  <2>. HIDE DEF u
  <2>. QED
    BY <1>1, <2>1 DEF KnownRows
<1>3. now \in Nat /\ search[s].since \in Nat
  BY EntriesHold DEF Live
<1>4. u \in Int /\ now < u
  BY <1>3, Times
<1>. HIDE DEF u
<1>5. \A e \in Entries(context["redirects"]) : e.until \in Nat
  BY EntriesHold DEF Stores
<1>6. ~ \E e \in Entries(context["redirects"]) : e.key = row.id /\ e.until >= u
  BY <1>3, <1>4, <1>5 DEF Held
<1>. QED
  BY <1>2, <1>3, <1>4, <1>6 DEF Known

\* Redirects are read; a search goes on with the rows it has, or ends.
LEMMA NormaliseStep ==
    ASSUME IInv, NEW s \in Searches, Normalise(s)
    PROVE  IInv'
<1>. DEFINE rows == search[s].rows
            missing == {i \in DOMAIN rows : rows[i].id \notin Held(context["redirects"])}
            read == {i \in DOMAIN rows : \A j \in missing : i =< j}
            first == SubSeq(rows, 1, Cardinality(read))
            store == Loop(TouchRow, context["redirects"], first)
            record == IF missing = {} THEN [search[s] EXCEPT !.stage = "normalised"]
                      ELSE Idle("malformed")
<1>1. /\ search[s].stage = "gathered"
      /\ context' = [context EXCEPT !["redirects"] = store]
      /\ search' = [search EXCEPT ![s] = record]
      /\ now' = now /\ raw' = raw /\ loading' = loading
      /\ pushedOut' = pushedOut /\ offers' = offers
  BY DEF Normalise
<1>2. /\ search[s] \in SearchRecord /\ rows \in Seq(Row)
      /\ search[s].since \in Nat /\ search[s].since =< now /\ now =< search[s].since + Lag
      /\ now \in Nat
  BY <1>1, EntriesHold DEF Live
<1>3. first \in Seq(Row)
  <2>1. read \in SUBSET DOMAIN rows
    OBVIOUS
  <2>. QED
    BY <1>2, <2>1, FirstRows
<1>4. /\ record \in SearchRecord
      /\ \/ /\ record.stage = "normalised"
            /\ record.since = search[s].since /\ record.rows = rows
         \/ record.stage = "malformed" /\ record.since = 0
  BY <1>2, RecordType DEF SearchRecord
<1>. HIDE DEF first, record
<1>5. /\ context["redirects"] \in Seq(ContextEntry) /\ Once(context["redirects"])
      /\ context \in [Stores -> Seq(ContextEntry)] /\ "redirects" \in Stores
  BY DEF IInv, TypeOK, KeysOnce, Stores
<1>6. /\ store \in Seq(ContextEntry)
      /\ Once(store)
      /\ Entries(store) \subseteq Entries(context["redirects"])
      /\ \A e \in Entries(context["redirects"]) : e.until > now => e \in Entries(store)
  BY <1>3, <1>5, TouchAllEffect
<1>. HIDE DEF store
<1>7. /\ context' \in [Stores -> Seq(ContextEntry)]
      /\ context'["redirects"] = store
      /\ \A x \in Stores \ {"redirects"} : context'[x] = context[x]
  BY <1>1, <1>5, <1>6
<1>8. /\ search' \in [Searches -> SearchRecord]
      /\ search'[s] = record /\ \A t \in Searches \ {s} : search'[t] = search[t]
  BY <1>1, <1>4 DEF IInv, TypeOK
<1>9. \A x \in Stores :
         /\ Entries(context'[x]) \subseteq Entries(context[x])
         /\ \A e \in Entries(context[x]) : e.until > now => e \in Entries(context'[x])
  BY <1>6, <1>7
<1>10. KnownStays /\ PushedOutGone'
  BY <1>1, <1>2, <1>9, QuietStep DEF IInv
<1>11. TypeOK' /\ KeysOnce'
  <2>1. \A x \in Stores : Once(context'[x])
    BY <1>6, <1>7 DEF IInv, KeysOnce
  <2>. QED
    BY <1>1, <1>7, <1>8, <2>1 DEF IInv, TypeOK, KeysOnce
<1>12. \A x \in Stores : \A e \in Entries(context'[x]) : e.until =< now' + Ttl
  <2>1. \A x \in Stores : \A e \in Entries(context[x]) : e.until =< now + Ttl
    BY EntriesHold
  <2>. QED
    BY <1>1, <1>9, <2>1
<1>13. record.stage = "normalised" =>
          KnownRows(search[s].rows, search[s].since + Ttl - RawTtl + 1)'
  <2>. SUFFICES ASSUME record.stage = "normalised"
                PROVE  KnownRows(search[s].rows, search[s].since + Ttl - RawTtl + 1)'
    OBVIOUS
  <2>1. PICK r, since, u :
           r = rows /\ since = search[s].since /\ u = search[s].since + Ttl - RawTtl + 1
    OBVIOUS
  <2>2. u \in Int /\ u =< now + Ttl /\ r \in Seq(Row)
    BY <1>2, <2>1, Times
  <2>3. KnownRows(r, u)
    BY <1>1, <2>1 DEF IInv, SearchKnown
  <2>4. KnownRows(r, u)'
    BY <1>10, <2>2, <2>3, KnownRowsStay
  <2>5. search'[s].rows = r /\ search'[s].since = since
    BY <1>4, <1>8, <2>1
  <2>. QED
    BY <2>1, <2>4, <2>5, SearchKnows
<1>14. \A t \in Searches :
          \/ search'[t] = search[t] /\ (Live(t) => now' =< search[t].since + Lag)
          \/ /\ search[t].stage # "answered"
             /\ search'[t].since =< now'
             /\ Live(t)' => now' =< search'[t].since + Lag
             /\ search'[t].stage \in {"gathered", "normalised"} =>
                   KnownRows(search[t].rows, search[t].since + Ttl - RawTtl + 1)'
  <2>1. /\ search'[s].since =< now'
        /\ Live(s)' => now' =< search'[s].since + Lag
        /\ search'[s].stage \in {"gathered", "normalised"} =>
              KnownRows(search[s].rows, search[s].since + Ttl - RawTtl + 1)'
    <3>1. now' = now
      BY <1>1
    <3>2. search'[s].since =< now'
      BY <1>2, <1>4, <1>8, <3>1
    <3>3. Live(s)' => now' =< search'[s].since + Lag
      BY <1>2, <1>4, <1>8, <3>1 DEF Live
    <3>. QED
      BY <1>4, <1>8, <1>13, <3>2, <3>3
  <2>. SUFFICES ASSUME NEW t \in Searches, t # s
                PROVE  search'[t] = search[t] /\ (Live(t) => now' =< search[t].since + Lag)
    BY <1>1, <2>1
  <2>. QED
    BY <1>1, <1>8, EntriesHold
<1>. QED
  BY <1>1, <1>2, <1>10, <1>11, <1>12, <1>14, StepPreserves

\* A search saves what it knows of; the others keep what they saved.
LEMMA SaveStep ==
    ASSUME IInv, NEW s \in Searches, Save(s)
    PROVE  IInv'
<1>. DEFINE rows == search[s].rows
            answered == [search[s] EXCEPT !.stage = "answered", !.since = 0]
<1>1. /\ search[s].stage = "normalised"
      /\ now' = now /\ raw' = raw /\ loading' = loading
      /\ context' = context /\ pushedOut' = pushedOut
      /\ \/ search' = [search EXCEPT ![s] = Idle("ended")] /\ offers' = offers
         \/ /\ Len(rows) =< OfferLimit
            /\ search' = [search EXCEPT ![s] = answered] /\ offers' = SaveAll(s)
  <2>1. rows \in Seq(Row)
    BY EntriesHold
  <2>2. Len(rows) \in Nat
    BY <2>1, StoreType
  <2>. QED
    BY <2>2, Times DEF Save
<1>2. /\ search[s] \in SearchRecord /\ rows \in Seq(Row)
      /\ search[s].since \in Nat /\ search[s].since =< now /\ now =< search[s].since + Lag
      /\ now \in Nat
  BY <1>1, EntriesHold DEF Live
<1>3. /\ KnownStays /\ PushedOutGone' /\ now' \in Nat /\ now =< now'
      /\ context' \in [Stores -> Seq(ContextEntry)] /\ pushedOut' \in [Stores -> SUBSET Sources]
      /\ \A x \in Stores : Once(context'[x])
      /\ \A x \in Stores : \A d \in Entries(context'[x]) : d.until =< now' + Ttl
  BY <1>1, ContextUntouched
<1>4. /\ answered \in SearchRecord /\ answered.stage = "answered" /\ answered.since = 0
      /\ Idle("ended") \in SearchRecord
      /\ Idle("ended").stage = "ended" /\ Idle("ended").since = 0
  BY <1>2, RecordType DEF SearchRecord
<1>. HIDE DEF answered
<1>5. /\ search' \in [Searches -> SearchRecord]
      /\ search'[s].stage \in {"answered", "ended"} /\ search'[s].since = 0
      /\ offers' # offers => search'[s].stage = "answered"
      /\ \A t \in Searches \ {s} : search'[t] = search[t]
  BY <1>1, <1>4 DEF IInv, TypeOK
<1>6. CASE offers' = offers
  <2>1. TypeOK' /\ KeysOnce'
    BY <1>1, <1>3, <1>5, <1>6 DEF IInv, TypeOK, KeysOnce
  <2>2. \A t \in Searches :
           \/ search'[t] = search[t] /\ (Live(t) => now' =< search[t].since + Lag)
           \/ /\ search[t].stage # "answered"
              /\ search'[t].since =< now'
              /\ ~Live(t)'
              /\ search'[t].stage \notin {"gathered", "normalised"}
    BY <1>1, <1>3, <1>5, EntriesHold DEF Live
  <2>. QED
    BY <1>1, <1>3, <1>6, <2>1, <2>2, StepPreserves
<1>7. CASE offers' # offers
  <2>1. /\ offers' \in Seq(OfferEntry) /\ Once(offers')
        /\ \A e \in Entries(offers') :
              \/ e \in Entries(offers)
              \/ \E row \in Entries(rows) :
                    e.key = <<s, row.id>> /\ e.value = row.ruled /\ e.until = now + Ttl
    BY <1>1, <1>2, <1>7, SaveAllEffect DEF IInv
  <2>2. TypeOK' /\ KeysOnce'
    BY <1>1, <1>3, <1>5, <2>1 DEF IInv, TypeOK, KeysOnce
  <2>3. \A t \in Searches :
           \/ search'[t] = search[t] /\ (Live(t) => now' =< search[t].since + Lag)
           \/ /\ search[t].stage # "answered"
              /\ search'[t].since =< now'
              /\ ~Live(t)'
              /\ search'[t].stage \notin {"gathered", "normalised"}
    BY <1>1, <1>3, <1>5, EntriesHold DEF Live
  <2>4. ASSUME NEW e \in Entries(offers'), e \notin Entries(offers)
        PROVE  /\ e.until =< now' + Ttl
               /\ OfferIsKnown(e)'
               /\ search'[e.key[1]].stage = "answered"
    <3>1. PICK row \in Entries(rows) :
             e.key = <<s, row.id>> /\ e.value = row.ruled /\ e.until = now + Ttl
      BY <2>1, <2>4
    <3>2. e.key[1] = s /\ e.key[2] = row.id
      BY <3>1
    <3>3. PICK u : u = search[s].since + Ttl - RawTtl + 1
      OBVIOUS
    <3>4. PICK v : v = e.until - Lag - RawTtl + 1
      OBVIOUS
    <3>5. u \in Int /\ v \in Int /\ v =< u
      BY <1>2, <3>1, <3>3, <3>4, Times
    <3>6. KnownRows(rows, u)
      BY <1>1, <3>3 DEF IInv, SearchKnown
    <3>7. KnownRows(rows, v)
      BY <1>2, <3>5, <3>6, KnownRowsEarlier DEF IInv, TypeOK
    <3>8. \A x \in {"details", "refunds"} :
             x = "details" \/ e.value => Known(x, row.id, v)
      BY <3>1, <3>7 DEF KnownRows, Stores
    <3>9. OfferIsKnown(e)'
      <4>1. \A x \in Stores : Known(x, row.id, v)' <=> Known(x, row.id, v)
        BY <1>1 DEF Known
      <4>2. \A x \in {"details", "refunds"} :
               x = "details" \/ e.value => Known(x, e.key[2], v)'
        BY <3>2, <3>8, <4>1 DEF Stores
      <4>. QED
        BY <3>4, <4>2 DEF OfferIsKnown
    <3>10. e.until =< now' + Ttl
      BY <1>1, <1>2, <3>1, Times
    <3>. QED
      BY <1>5, <1>7, <3>2, <3>9, <3>10
  <2>. QED
    BY <1>1, <1>3, <2>2, <2>3, <2>4, StepPreserves
<1>. QED
  BY <1>6, <1>7

\* What the pages do: the offer is read, and what the adapter remembers is read.
Opened(o) ==
    /\ offers' = Touch(offers, o)
    /\ now' = now /\ raw' = raw /\ loading' = loading
    /\ pushedOut' = pushedOut /\ search' = search
    /\ \/ context' = context
       \/ \E key : context' = [context EXCEPT !["details"] = Touch(@, key)]
       \/ \E key : context' = [context EXCEPT !["details"] = Touch(@, key),
                                              !["refunds"] = Touch(@, key)]

\* All the pages do no more.
LEMMA PagesOpen ==
    ASSUME NEW o, \/ GetOffer(o) \/ PreviewRedirect(o) \/ GetDetails(o)
                  \/ GetSeatMap(o) \/ GetRefundRules(o)
    PROVE  Opened(o)
<1>1. GetOffer(o) => Opened(o)
  BY DEF GetOffer, Opened
<1>2. GetDetails(o) => Opened(o)
  BY DEF GetDetails, Opened
<1>3. GetRefundRules(o) => Opened(o)
  <2>. SUFFICES ASSUME GetRefundRules(o) PROVE Opened(o)
    OBVIOUS
  <2>1. CASE ~(o \in Held(offers) /\ Lookup(offers, o).value)
    BY <2>1 DEF GetRefundRules, Opened
  <2>2. CASE /\ o \in Held(offers) /\ Lookup(offers, o).value
             /\ o[2] \in Held(context["details"])
    BY <2>2 DEF GetRefundRules, Opened
  <2>3. CASE /\ o \in Held(offers) /\ Lookup(offers, o).value
             /\ o[2] \notin Held(context["details"])
    <3>1. context' = [context EXCEPT !["details"] = Touch(@, o[2]), !["refunds"] = @]
      BY <2>3 DEF GetRefundRules
    <3>2. context' = [context EXCEPT !["details"] = Touch(@, o[2])]
      BY <3>1
    <3>. QED
      BY <3>2 DEF GetRefundRules, Opened
  <2>. QED
    BY <2>1, <2>2, <2>3
<1>. QED
  BY <1>1, <1>2, <1>3 DEF PreviewRedirect, GetSeatMap

\* They forget nothing.
LEMMA OpenedStep ==
    ASSUME IInv, NEW o, Opened(o)
    PROVE  /\ IInv'
           /\ \A e \in Entries(Fresh(offers)) : e \in Entries(offers')
<1>1. /\ offers' = Touch(offers, o)
      /\ now' = now /\ raw' = raw /\ loading' = loading
      /\ pushedOut' = pushedOut /\ search' = search
  BY DEF Opened
<1>2. /\ offers \in Seq(OfferEntry) /\ Once(offers)
      /\ context \in [Stores -> Seq(ContextEntry)] /\ \A x \in Stores : Once(context[x])
      /\ now \in Nat
  BY DEF IInv, TypeOK, KeysOnce
<1>3. /\ offers' \in Seq(OfferEntry) /\ Once(offers')
      /\ Entries(offers') \subseteq Entries(offers)
      /\ \A e \in Entries(offers) : e.until > now => e \in Entries(offers')
  BY <1>1, <1>2, TouchEffect
<1>4. ASSUME NEW x \in Stores, NEW key
      PROVE  LET after == Touch(context[x], key) IN
             /\ after \in Seq(ContextEntry) /\ Once(after)
             /\ Entries(after) \subseteq Entries(context[x])
             /\ \A e \in Entries(context[x]) : e.until > now => e \in Entries(after)
  BY <1>2, TouchEffect
<1>5. /\ context' \in [Stores -> Seq(ContextEntry)]
      /\ \A x \in Stores :
            /\ Once(context'[x])
            /\ Entries(context'[x]) \subseteq Entries(context[x])
            /\ \A e \in Entries(context[x]) : e.until > now => e \in Entries(context'[x])
  <2>1. CASE context' = context
    BY <1>2, <2>1
  <2>2. CASE context' # context
    <3>1. PICK key : \/ context' = [context EXCEPT !["details"] = Touch(@, key)]
                     \/ context' = [context EXCEPT !["details"] = Touch(@, key),
                                                   !["refunds"] = Touch(@, key)]
      BY <2>2 DEF Opened
    <3>2. /\ DOMAIN context' = Stores
          /\ context' = [x \in Stores |-> context'[x]]
          /\ \A x \in Stores : context'[x] = context[x] \/ context'[x] = Touch(context[x], key)
      BY <1>2, <3>1
    <3>3. \A x \in Stores : context'[x] \in Seq(ContextEntry)
      BY <1>2, <1>4, <3>2
    <3>4. context' \in [Stores -> Seq(ContextEntry)]
      BY <3>2, <3>3
    <3>. QED
      BY <1>2, <1>4, <3>2, <3>4
  <2>. QED
    BY <2>1, <2>2
<1>6. KnownStays /\ PushedOutGone'
  BY <1>1, <1>2, <1>5, QuietStep DEF IInv
<1>7. TypeOK' /\ KeysOnce'
  BY <1>1, <1>3, <1>5 DEF IInv, TypeOK, KeysOnce
<1>8. \A x \in Stores : \A e \in Entries(context'[x]) : e.until =< now' + Ttl
  <2>1. \A x \in Stores : \A e \in Entries(context[x]) : e.until =< now + Ttl
    BY EntriesHold
  <2>. QED
    BY <1>1, <1>5, <2>1
<1>9. \A s \in Searches : search'[s] = search[s] /\ (Live(s) => now' =< search[s].since + Lag)
  BY <1>1, EntriesHold
<1>10. now =< now'
  BY <1>1, <1>2
<1>11. IInv'
  BY <1>1, <1>3, <1>6, <1>7, <1>8, <1>9, <1>10, StepPreserves
<1>12. \A e \in Entries(Fresh(offers)) : e \in Entries(offers')
  BY <1>2, <1>3, FreshEffect
<1>. QED
  BY <1>11, <1>12

\* Nothing happens, or one of the steps.
LEMMA StepInvariant == IInv /\ [Next]_vars => IInv'
<1>. SUFFICES ASSUME IInv, [Next]_vars PROVE IInv'
  OBVIOUS
<1>1. CASE Tick
  BY <1>1, TickStep
<1>2. ASSUME NEW s \in Searches, NEW q \in Queries, SearchHit(s, q) PROVE IInv'
  BY <1>2, SearchHitStep
<1>3. ASSUME NEW s \in Searches, NEW q \in Queries, SearchMiss(s, q) PROVE IInv'
  BY <1>3, SearchMissStep
<1>4. ASSUME NEW s \in Searches, Normalise(s) PROVE IInv'
  BY <1>4, NormaliseStep
<1>5. ASSUME NEW s \in Searches, Save(s) PROVE IInv'
  BY <1>5, SaveStep
<1>6. ASSUME NEW q \in Queries, Load(q) PROVE IInv'
  BY <1>6, LoadStep
<1>7. ASSUME NEW q \in Queries, LoadFails(q) PROVE IInv'
  BY <1>7, LoadFailsStep
<1>8. ASSUME NEW o \in Answered, \/ GetOffer(o) \/ PreviewRedirect(o) \/ GetDetails(o)
                                 \/ GetSeatMap(o) \/ GetRefundRules(o)
      PROVE  IInv'
  BY <1>8, PagesOpen, OpenedStep
<1>9. CASE UNCHANGED vars
  <2>1. /\ now' = now /\ raw' = raw /\ loading' = loading /\ context' = context
        /\ pushedOut' = pushedOut /\ offers' = offers /\ search' = search
    BY <1>9 DEF vars
  <2>2. TypeOK' /\ KeysOnce'
    BY <2>1 DEF IInv, TypeOK, KeysOnce
  <2>3. \A s \in Searches : search'[s] = search[s] /\ (Live(s) => now' =< search[s].since + Lag)
    BY <2>1, EntriesHold
  <2>. QED
    BY <2>1, <2>2, <2>3, ContextUntouched, StepPreserves
<1>. QED
  BY <1>1, <1>2, <1>3, <1>4, <1>5, <1>6, <1>7, <1>8, <1>9 DEF Next

-----------------------------------------------------------------------------
(* The theorems *)

\* Every reachable state: the stores are dictionaries that keep nothing beyond
\* its time, and what a cached result, a search or a saved offer needs of the
\* adapter is remembered for as long as it is needed, or was pushed out.
THEOREM Invariance == Spec => []IInv
<1>1. Init => IInv
  BY InitHolds
<1>2. IInv /\ [Next]_vars => IInv'
  BY StepInvariant
<1>. QED
  BY <1>1, <1>2, PTL DEF Spec

\* An offer that can be found can be opened, with the rules it was offered
\* with, until the last RawTtl + Lag of its time, unless a limit of the
\* adapter's stores pushed its context out (context.py:39).
THEOREM OffersCanBeOpened == Spec => []ContextOutlivesOffers
<1>1. IInv => ContextOutlivesOffers
  <2>. SUFFICES ASSUME IInv, NEW e \in Entries(Fresh(offers)), NEW x \in {"details", "refunds"},
                       x = "details" \/ e.value
                PROVE  \/ e.key[2] \in Held(context[x]) \cup pushedOut[x]
                       \/ e.until - now < RawTtl + Lag
    BY DEF ContextOutlivesOffers
  <2>. DEFINE u == e.until - Lag - RawTtl + 1
  <2>1. e \in Entries(offers) /\ x \in Stores
    BY FreshEffect DEF IInv, TypeOK, Stores
  <2>2. e.until \in Nat /\ now \in Nat
    BY <2>1, EntriesHold
  <2>3. \A d \in Entries(context[x]) : d.until \in Nat
    BY <2>1, EntriesHold
  <2>4. u \in Int /\ (u =< now => e.until - now < RawTtl + Lag)
    BY <2>2, Times
  <2>5. Known(x, e.key[2], u)
    BY <2>1 DEF IInv, OfferKnown, OfferIsKnown
  <2>. HIDE DEF u
  <2>6. CASE u =< now
    BY <2>4, <2>6
  <2>7. CASE u > now
    <3>1. CASE \E d \in Entries(context[x]) : d.key = e.key[2] /\ d.until >= u
      BY <2>2, <2>3, <2>4, <2>7, <3>1 DEF Held
    <3>. QED
      BY <2>2, <2>4, <2>5, <2>7, <3>1 DEF Known
  <2>. QED
    BY <2>2, <2>4, <2>6, <2>7
<1>. QED
  BY <1>1, Invariance, PTL

\* Who changes what the searches are at: normalisation alone finds a provider's
\* results malformed, saving alone answers, and nothing else adds an offer.
LEMMA StageSteps ==
    ASSUME IInv, Next
    PROVE  \/ \E s \in Searches :
                 /\ Normalise(s)
                 /\ offers' = offers
                 /\ \A t \in Searches \ {s} : search'[t] = search[t]
                 /\ search'[s].stage \in {"normalised", "malformed"}
           \/ \E s \in Searches :
                 /\ Save(s)
                 /\ \A t \in Searches \ {s} : search'[t] = search[t]
                 /\ search'[s].stage \in {"answered", "ended"}
           \/ /\ \A s \in Searches :
                    \/ search'[s] = search[s]
                    \/ search'[s].stage \in {"waiting", "gathered", "ended"}
              /\ \A e \in Entries(Fresh(offers)) : e \in Entries(offers')
<1>0. /\ search \in [Searches -> SearchRecord]
      /\ \A e \in Entries(Fresh(offers)) : e \in Entries(offers)
  BY FreshEffect DEF IInv, TypeOK
<1>1. CASE Tick
  BY <1>0, <1>1 DEF Tick
<1>2. ASSUME NEW s \in Searches, NEW q \in Queries, SearchHit(s, q)
      PROVE  /\ \A t \in Searches : search'[t] = search[t] \/ search'[t].stage = "gathered"
             /\ offers' = offers
  <2>1. PICK rows : search' = [search EXCEPT ![s] = [stage |-> "gathered", query |-> q,
                                                     since |-> now, rows |-> rows]]
    BY <1>2 DEF SearchHit
  <2>2. offers' = offers
    BY <1>2 DEF SearchHit
  <2>. QED
    BY <1>0, <2>1, <2>2
<1>3. ASSUME NEW s \in Searches, NEW q \in Queries, SearchMiss(s, q)
      PROVE  /\ \A t \in Searches : search'[t] = search[t] \/ search'[t].stage = "waiting"
             /\ offers' = offers
  BY <1>0, <1>3 DEF SearchMiss
<1>4. ASSUME NEW q \in Queries, Load(q)
      PROVE  /\ \A t \in Searches : search'[t] = search[t] \/ search'[t].stage = "gathered"
             /\ offers' = offers
  <2>1. PICK rows : search' = [s \in Searches |->
                                  IF search[s].stage = "waiting" /\ search[s].query = q
                                  THEN [search[s] EXCEPT !.stage = "gathered", !.rows = rows]
                                  ELSE search[s]]
    BY <1>4 DEF Load
  <2>2. \A t \in Searches :
           [search[t] EXCEPT !.stage = "gathered", !.rows = rows].stage = "gathered"
    BY <1>0 DEF SearchRecord
  <2>3. offers' = offers
    BY <1>4 DEF Load
  <2>. QED
    BY <2>1, <2>2, <2>3
<1>5. ASSUME NEW q \in Queries, LoadFails(q)
      PROVE  /\ \A t \in Searches : search'[t] = search[t] \/ search'[t].stage = "ended"
             /\ offers' = offers
  BY <1>5, RecordType DEF LoadFails
<1>6. ASSUME NEW s \in Searches, Normalise(s)
      PROVE  /\ offers' = offers
             /\ \A t \in Searches \ {s} : search'[t] = search[t]
             /\ search'[s].stage \in {"normalised", "malformed"}
  <2>1. /\ offers' = offers
        /\ \/ search' = [search EXCEPT ![s] = [@ EXCEPT !.stage = "normalised"]]
           \/ search' = [search EXCEPT ![s] = Idle("malformed")]
    BY <1>6 DEF Normalise
  <2>. QED
    BY <1>0, <2>1, RecordType DEF SearchRecord
<1>7. ASSUME NEW s \in Searches, Save(s)
      PROVE  /\ \A t \in Searches \ {s} : search'[t] = search[t]
             /\ search'[s].stage \in {"answered", "ended"}
  <2>1. \/ search' = [search EXCEPT ![s] = [@ EXCEPT !.stage = "answered", !.since = 0]]
        \/ search' = [search EXCEPT ![s] = Idle("ended")]
    BY <1>7 DEF Save
  <2>2. /\ [search[s] EXCEPT !.stage = "answered", !.since = 0].stage = "answered"
        /\ Idle("ended").stage = "ended"
    BY <1>0, RecordType DEF SearchRecord
  <2>. QED
    BY <1>0, <2>1, <2>2
<1>8. ASSUME NEW o \in Answered, \/ GetOffer(o) \/ PreviewRedirect(o) \/ GetDetails(o)
                                 \/ GetSeatMap(o) \/ GetRefundRules(o)
      PROVE  search' = search /\ \A e \in Entries(Fresh(offers)) : e \in Entries(offers')
  BY <1>8, PagesOpen, OpenedStep DEF Opened
<1>. QED
  BY <1>0, <1>1, <1>2, <1>3, <1>4, <1>5, <1>6, <1>7, <1>8 DEF Next

\* A provider fails for the want of a redirect only when the limit of its store
\* pushed it out, or the search has run for longer than the context outlives a
\* raw result.  With equal settings, which main.py:96-99 allows, that is any
\* time at all.
THEOREM CachedResultsNormalise == Spec => ResultsNormalise
<1>1. IInv /\ [Next]_vars =>
         [\A s \in Searches :
             /\ search[s].stage # "malformed" /\ search'[s].stage = "malformed"
             /\ now - search[s].since =< Ttl - RawTtl
             => \E row \in Entries(search[s].rows) : row.id \in pushedOut["redirects"]]_vars
  <2>. SUFFICES ASSUME IInv, Next, NEW s \in Searches,
                       search[s].stage # "malformed", search'[s].stage = "malformed",
                       now - search[s].since =< Ttl - RawTtl
                PROVE  \E row \in Entries(search[s].rows) : row.id \in pushedOut["redirects"]
    OBVIOUS
  <2>1. Normalise(s)
    BY StageSteps
  <2>2. search[s].stage = "gathered"
    BY <2>1 DEF Normalise
  <2>3. PICK i \in DOMAIN search[s].rows :
           search[s].rows[i].id \notin Held(context["redirects"])
    <3>. DEFINE missing == {i \in DOMAIN search[s].rows :
                               search[s].rows[i].id \notin Held(context["redirects"])}
    <3>1. search' = [search EXCEPT ![s] = IF missing = {} THEN [@ EXCEPT !.stage = "normalised"]
                                           ELSE Idle("malformed")]
      BY <2>1 DEF Normalise
    <3>2. missing = {} => search'[s].stage = "normalised"
      BY <3>1 DEF IInv, TypeOK, SearchRecord
    <3>. QED
      BY <3>2
  <2>4. search[s].rows[i] \in Entries(search[s].rows)
    BY DEF Entries
  <2>. QED
    BY <2>2, <2>3, <2>4, MissingRedirect
<1>. QED
  BY <1>1, Invariance, PTL DEF Spec, ResultsNormalise

\* Whatever a search is answered with can be found then, and the offers of
\* others go by age, or when the repository is full (offer_repository.py:22-33).
THEOREM AnswersCanBeFound == Spec => AnswersAreOnSale
<1>1. IInv /\ [Next]_vars =>
         [/\ \A s \in Searches \ Probes :
                search[s].stage = "normalised" /\ search'[s].stage = "answered" =>
                    \A row \in Entries(search[s].rows) :
                        \E e \in Entries(offers') : e.key = <<s, row.id>> /\ e.until = now + Ttl
          /\ \A e \in Entries(Fresh(offers)) :
                e \notin Entries(offers') => Len(offers') = OfferLimit]_vars
  <2>. SUFFICES ASSUME IInv, Next
                PROVE  /\ \A s \in Searches \ Probes :
                             search[s].stage = "normalised" /\ search'[s].stage = "answered" =>
                                 \A row \in Entries(search[s].rows) :
                                     \E e \in Entries(offers') :
                                         e.key = <<s, row.id>> /\ e.until = now + Ttl
                       /\ \A e \in Entries(Fresh(offers)) :
                             e \notin Entries(offers') => Len(offers') = OfferLimit
    OBVIOUS
  <2>1. TypeOK /\ KeysOnce
    BY DEF IInv
  <2>2. ASSUME NEW s \in Searches, Save(s), offers' # offers \/ search'[s].stage = "answered"
        PROVE  /\ \A row \in Entries(search[s].rows) :
                     \E e \in Entries(offers') : e.key = <<s, row.id>> /\ e.until = now + Ttl
               /\ \A e \in Entries(Fresh(offers)) :
                     e.key[1] # s /\ e \notin Entries(offers') => Len(offers') = OfferLimit
    <3>1. search[s].rows \in Seq(Row)
      BY EntriesHold
    <3>2. offers' = SaveAll(s) /\ Len(search[s].rows) =< OfferLimit
      <4>1. Len(search[s].rows) \in Nat
        BY <3>1, StoreType
      <4>2. search' = [search EXCEPT ![s] = Idle("ended")] => search'[s].stage # "answered"
        BY RecordType DEF IInv, TypeOK
      <4>. QED
        BY <2>2, <4>1, <4>2, Times DEF Save
    <3>3. PICK rows \in Seq(Row) : rows = search[s].rows
      BY <3>1
    <3>4. /\ \A row \in Entries(rows) :
                \E e \in Entries(SaveAll(s)) : e.key = <<s, row.id>> /\ e.until = now + Ttl
          /\ \A e \in Entries(Fresh(offers)) :
                e.key[1] # s /\ e \notin Entries(SaveAll(s)) => Len(SaveAll(s)) = OfferLimit
      BY <2>1, <3>2, <3>3, SaveAllEffect
    <3>. QED
      BY <3>2, <3>3, <3>4
  <2>3. \A s \in Searches \ Probes :
           search[s].stage = "normalised" /\ search'[s].stage = "answered" =>
               \A row \in Entries(search[s].rows) :
                   \E e \in Entries(offers') : e.key = <<s, row.id>> /\ e.until = now + Ttl
    <3>1. \A s \in Searches :
             search[s].stage = "normalised" /\ search'[s].stage = "answered" => Save(s)
      BY StageSteps
    <3>. QED
      BY <2>2, <3>1
  <2>4. ASSUME NEW e \in Entries(Fresh(offers)), e \notin Entries(offers')
        PROVE  Len(offers') = OfferLimit
    <3>1. e \in Entries(offers)
      BY <2>1, FreshEffect DEF TypeOK
    <3>2. PICK s \in Searches : Save(s)
      BY <2>4, <3>1, StageSteps
    <3>3. search[s].stage = "normalised"
      BY <3>2 DEF Save
    <3>4. e.key[1] # s
      BY <3>1, <3>3, EntriesHold
    <3>. QED
      BY <2>2, <2>4, <3>1, <3>2, <3>4
  <2>. QED
    BY <2>3, <2>4
<1>. QED
  BY <1>1, Invariance, PTL DEF Spec, AnswersAreOnSale
=============================================================================
