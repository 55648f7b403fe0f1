------------------------ MODULE AsyncSemaphoreProofs ------------------------
(* What the operations of an asyncio semaphore do to its slots and its line,   *)
(* for any number of slots and any finite set of tasks.  SearchAdmission and   *)
(* ProviderHttp cite these lemmas for their own semaphores.                    *)
EXTENDS AsyncSemaphore, FiniteSetTheorems, SequenceTheorems, TLAPS

InLine(sem) == {sem.queue[i] : i \in DOMAIN sem.queue}

\* A semaphore of tasks of T: everybody is in line once, and only those in line
\* have been granted a slot.
WellFormed(sem, T) ==
    /\ sem \in [free : Nat, queue : Seq(T), granted : SUBSET T]
    /\ \A i, j \in DOMAIN sem.queue : sem.queue[i] = sem.queue[j] => i = j
    /\ sem.granted \subseteq InLine(sem)

\* The slots that nobody holds: free ones, and those handed to somebody who has
\* not resumed yet.
Unheld(sem) == sem.free + Cardinality(sem.granted)

\* No slot is free while somebody waits, unless somebody who was granted one has
\* yet to resume.
Prompt(sem) == sem.free > 0 /\ Pending(sem) # {} => sem.granted # {}

\* Nobody was granted a slot past one who waits for it and was not signalled.
InTurn(sem) ==
    \A i, j \in DOMAIN sem.queue :
        i < j /\ sem.queue[j] \in sem.granted => sem.queue[i] \notin Pending(sem)

-----------------------------------------------------------------------------
(* Counting *)

\* Disjoint sets add up.
LEMMA DisjointUnion ==
    ASSUME NEW S, IsFiniteSet(S), NEW U, IsFiniteSet(U), S \cap U = {}
    PROVE  /\ IsFiniteSet(S \cup U)
           /\ Cardinality(S \cup U) = Cardinality(S) + Cardinality(U)
<1>1. Cardinality(S) \in Nat /\ Cardinality(U) \in Nat
  BY FS_CardinalityType
<1>2. /\ IsFiniteSet(S \cup U)
      /\ Cardinality(S \cup U) = Cardinality(S) + Cardinality(U) - Cardinality(S \cap U)
  BY FS_Union
<1>3. Cardinality(S \cap U) = 0
  BY FS_EmptySet
<1>. QED
  BY <1>1, <1>2, <1>3

\* The elements of a set of positions have the ranks 1, 2, ... once each.
LEMMA RanksAreUnique ==
    ASSUME NEW len \in Nat, NEW K \in SUBSET (1..len)
    PROVE  LET rank == [j \in K |-> Cardinality({k \in 1..j : k \in K})]
           IN  /\ IsFiniteSet(K)
               /\ Cardinality(K) \in Nat
               /\ rank \in Injection(K, 1..Cardinality(K))
               /\ rank \in Surjection(K, 1..Cardinality(K))
<1>. DEFINE below(j) == {k \in 1..j : k \in K}
            rank == [j \in K |-> Cardinality(below(j))]
<1>1. IsFiniteSet(K) /\ Cardinality(K) \in Nat
  <2>1. IsFiniteSet(1..len)
    BY FS_Interval
  <2>2. IsFiniteSet(K)
    BY <2>1, FS_Subset
  <2>. QED
    BY <2>2, FS_CardinalityType
<1>2. ASSUME NEW j \in K
      PROVE  /\ IsFiniteSet(below(j))
             /\ Cardinality(below(j)) \in 1..Cardinality(K)
  <2>1. below(j) \in SUBSET K /\ j \in below(j)
    OBVIOUS
  <2>2. IsFiniteSet(below(j)) /\ Cardinality(below(j)) =< Cardinality(K)
    BY <1>1, <2>1, FS_Subset
  <2>3. Cardinality(below(j)) \in Nat /\ Cardinality(below(j)) # 0
    BY <2>1, <2>2, FS_CardinalityType, FS_EmptySet
  <2>. QED
    BY <1>1, <2>2, <2>3
<1>3. ASSUME NEW i \in K, NEW j \in K, i < j
      PROVE  rank[i] # rank[j]
  <2>1. below(i) \in SUBSET below(j) /\ j \in below(j) /\ j \notin below(i)
    BY <1>3
  <2>2. below(i) # below(j)
    BY <2>1
  <2>3. IsFiniteSet(below(j))
    BY <1>2
  <2>4. Cardinality(below(i)) # Cardinality(below(j))
    BY <2>1, <2>2, <2>3, FS_Subset
  <2>. QED
    BY <2>4
<1>4. rank \in [K -> 1..Cardinality(K)]
  BY <1>2
<1>5. \A i, j \in K : rank[i] = rank[j] => i = j
  <2>. HIDE DEF rank
  <2>. QED
    BY <1>3
<1>6. rank \in Injection(K, 1..Cardinality(K))
  BY <1>4, <1>5 DEF Injection, IsInjective
<1>7. rank \in Surjection(K, 1..Cardinality(K))
  <2>1. IsFiniteSet(1..Cardinality(K)) /\ Cardinality(1..Cardinality(K)) = Cardinality(K)
    BY <1>1, FS_Interval
  <2>. HIDE DEF rank
  <2>. QED
    BY <1>6, <2>1, FS_Injection
<1>. QED
  BY <1>1, <1>6, <1>7

-----------------------------------------------------------------------------
(* Waking waiters *)

\* The positions of a line are numbers, and those in line are tasks.
LEMMA LineType ==
    ASSUME NEW T, NEW sem, WellFormed(sem, T)
    PROVE  /\ Len(sem.queue) \in Nat
           /\ DOMAIN sem.queue = 1..Len(sem.queue)
           /\ InLine(sem) \in SUBSET T
           /\ sem.granted \in SUBSET T
           /\ sem.free \in Nat
<1>1. sem.queue \in Seq(T)
  BY DEF WellFormed
<1>2. /\ Len(sem.queue) \in Nat
      /\ DOMAIN sem.queue = 1..Len(sem.queue)
      /\ \A i \in 1..Len(sem.queue) : sem.queue[i] \in T
  BY <1>1, LenProperties, ElementOfSeq
<1>. QED
  BY <1>2 DEF WellFormed, InLine

\* At most n pending waiters come first, and one of them if there is any.
LEMMA FirstPendingSize ==
    ASSUME NEW T, NEW sem, WellFormed(sem, T), NEW n \in Nat
    PROVE  /\ FirstPending(sem, n) \subseteq Pending(sem)
           /\ IsFiniteSet(FirstPending(sem, n))
           /\ Cardinality(FirstPending(sem, n)) \in Nat
           /\ Cardinality(FirstPending(sem, n)) =< n
           /\ n > 0 /\ Pending(sem) # {} => FirstPending(sem, n) # {}
<1>. DEFINE len == Len(sem.queue)
            K == {j \in 1..len : sem.queue[j] \in Pending(sem)}
            rank == [j \in K |-> Cardinality({k \in 1..j : k \in K})]
            J == {j \in K : rank[j] =< n}
            member == [j \in J |-> sem.queue[j]]
<1>1. len \in Nat /\ DOMAIN sem.queue = 1..len
  BY LineType
<1>2. /\ IsFiniteSet(K)
      /\ Cardinality(K) \in Nat
      /\ rank \in Injection(K, 1..Cardinality(K))
      /\ rank \in Surjection(K, 1..Cardinality(K))
  BY <1>1, RanksAreUnique
<1>3. FirstPending(sem, n) = {sem.queue[j] : j \in J}
  <2>1. ASSUME NEW j \in DOMAIN sem.queue
        PROVE  {k \in 1..j : sem.queue[k] \in Pending(sem)} = {k \in 1..j : k \in K}
    BY <1>1
  <2>2. J = {j \in DOMAIN sem.queue :
                /\ sem.queue[j] \in Pending(sem)
                /\ Cardinality({k \in 1..j : sem.queue[k] \in Pending(sem)}) =< n}
    BY <1>1, <2>1
  <2>. QED
    BY <2>2 DEF FirstPending
<1>4. \A j \in K : rank[j] \in 1..Cardinality(K)
  <2>. HIDE DEF rank
  <2>. QED
    BY <1>2 DEF Injection
<1>5. \A i, j \in K : rank[i] = rank[j] => i = j
  <2>. HIDE DEF rank
  <2>. QED
    BY <1>2 DEF Injection, IsInjective
<1>6. IsFiniteSet(J) /\ Cardinality(J) \in Nat /\ Cardinality(J) =< n
  <2>. DEFINE short == [j \in J |-> rank[j]]
  <2>1. short \in [J -> 1..n] /\ \A i, j \in J : short[i] = short[j] => i = j
    <3>. HIDE DEF rank, K
    <3>. QED
      BY <1>2, <1>4, <1>5
  <2>2. short \in Injection(J, 1..n)
    BY <2>1 DEF Injection, IsInjective
  <2>3. IsFiniteSet(1..n) /\ Cardinality(1..n) = n
    BY FS_Interval
  <2>4. IsFiniteSet(J) /\ Cardinality(J) =< n
    <3>. HIDE DEF short, J
    <3>. QED
      BY <2>2, <2>3, FS_Injection
  <2>. QED
    BY <2>4, FS_CardinalityType
<1>7. member \in Surjection(J, FirstPending(sem, n))
  BY <1>3 DEF Surjection
<1>8. /\ IsFiniteSet(FirstPending(sem, n))
      /\ Cardinality(FirstPending(sem, n)) =< Cardinality(J)
  <2>. HIDE DEF member, J
  <2>. QED
    BY <1>6, <1>7, FS_Surjection
<1>9. Cardinality(FirstPending(sem, n)) \in Nat
  BY <1>8, FS_CardinalityType
<1>10. ASSUME n > 0, Pending(sem) # {}
       PROVE  FirstPending(sem, n) # {}
  <2>1. K # {}
    BY <1>1, <1>10 DEF Pending
  <2>2. Cardinality(K) # 0
    BY <1>2, <2>1, FS_EmptySet
  <2>3. 1 \in 1..Cardinality(K)
    BY <1>2, <2>2
  <2>4. PICK j \in K : rank[j] = 1
    <3>. HIDE DEF rank, K
    <3>. QED
      BY <1>2, <2>3 DEF Surjection
  <2>5. j \in J
    BY <1>10, <2>4
  <2>. QED
    BY <1>3, <2>5
<1>11. FirstPending(sem, n) \subseteq Pending(sem)
  BY <1>3
<1>. QED
  BY <1>6, <1>8, <1>9, <1>10, <1>11

\* Waking at most as many as there are free slots makes and loses none, leaves
\* the line as it is, and leaves nobody waiting beside a free slot.
LEMMA WakeEffect ==
    ASSUME NEW T, IsFiniteSet(T), NEW sem, WellFormed(sem, T), NEW n \in 0..sem.free
    PROVE  /\ WellFormed(Wake(sem, n), T)
           /\ Wake(sem, n).queue = sem.queue
           /\ Unheld(Wake(sem, n)) = Unheld(sem)
           /\ sem.granted \subseteq Wake(sem, n).granted
           /\ n > 0 => Prompt(Wake(sem, n))
<1>. DEFINE first == FirstPending(sem, n)
            woken == Wake(sem, n)
<1>1. n \in Nat /\ sem.free \in Nat /\ sem.granted \in SUBSET T /\ InLine(sem) \in SUBSET T
  BY LineType
<1>2. /\ first \subseteq Pending(sem)
      /\ IsFiniteSet(first)
      /\ Cardinality(first) \in Nat
      /\ Cardinality(first) =< n
      /\ n > 0 /\ Pending(sem) # {} => first # {}
  BY <1>1, FirstPendingSize
<1>3. first \subseteq InLine(sem) /\ first \cap sem.granted = {}
  BY <1>2 DEF Pending, InLine
<1>4. IsFiniteSet(sem.granted) /\ Cardinality(sem.granted) \in Nat
  BY <1>1, FS_Subset, FS_CardinalityType
<1>5. Cardinality(sem.granted \cup first) = Cardinality(sem.granted) + Cardinality(first)
  <2>. HIDE DEF first
  <2>1. sem.granted \cap first = {}
    BY <1>3
  <2>. QED
    BY <1>2, <1>4, <2>1, DisjointUnion
<1>6. sem \in [free : Nat, queue : Seq(T), granted : SUBSET T]
  BY DEF WellFormed
<1>7. /\ woken.queue = sem.queue
      /\ woken.granted = sem.granted \cup first
      /\ woken.free = sem.free - Cardinality(first)
  BY <1>6 DEF Wake
<1>8. sem.free - Cardinality(first) \in Nat
  BY <1>1, <1>2
<1>9. woken \in [free : Nat, queue : Seq(T), granted : SUBSET T]
  BY <1>1, <1>3, <1>6, <1>8 DEF Wake
<1>. HIDE DEF first, woken
<1>10. WellFormed(woken, T)
  BY <1>3, <1>7, <1>9 DEF WellFormed, InLine
<1>11. Unheld(woken) = Unheld(sem)
  BY <1>1, <1>2, <1>4, <1>5, <1>7 DEF Unheld
<1>12. n > 0 => Prompt(woken)
  <2>1. Pending(woken) \subseteq Pending(sem)
    BY <1>7 DEF Pending
  <2>. QED
    BY <1>2, <1>7, <2>1 DEF Prompt
<1>. QED
  BY <1>7, <1>10, <1>11, <1>12 DEF woken

-----------------------------------------------------------------------------
(* Taking, lining up, leaving *)

\* Whoever finds the semaphore unlocked takes a slot that is free, and passes
\* nobody who waits.
LEMMA TakeEffect ==
    ASSUME NEW T, IsFiniteSet(T), NEW sem, WellFormed(sem, T), ~Locked(sem)
    PROVE  /\ WellFormed(Take(sem), T)
           /\ Take(sem).queue = sem.queue
           /\ Take(sem).granted = sem.granted
           /\ Unheld(Take(sem)) = Unheld(sem) - 1
           /\ Prompt(Take(sem))
<1>1. sem.free \in Nat \ {0} /\ Pending(sem) = {}
  BY LineType DEF Locked, Pending
<1>2. sem \in [free : Nat, queue : Seq(T), granted : SUBSET T]
  BY DEF WellFormed
<1>3. /\ Take(sem) \in [free : Nat, queue : Seq(T), granted : SUBSET T]
      /\ Take(sem).queue = sem.queue
      /\ Take(sem).granted = sem.granted
      /\ Take(sem).free = sem.free - 1
  BY <1>1, <1>2 DEF Take
<1>4. WellFormed(Take(sem), T)
  BY <1>3 DEF WellFormed, InLine
<1>5. Pending(Take(sem)) = {}
  BY <1>1, <1>3 DEF Pending
<1>6. Cardinality(sem.granted) \in Nat
  BY <1>2, FS_Subset, FS_CardinalityType
<1>7. Unheld(Take(sem)) = Unheld(sem) - 1
  BY <1>1, <1>3, <1>6 DEF Unheld
<1>8. Prompt(Take(sem))
  BY <1>5 DEF Prompt
<1>. QED
  BY <1>3, <1>4, <1>7, <1>8

\* Whoever finds it locked stands behind the others, once.
LEMMA LineUpEffect ==
    ASSUME NEW T, NEW sem, WellFormed(sem, T), NEW s \in T, s \notin InLine(sem)
    PROVE  /\ WellFormed(LineUp(sem, s), T)
           /\ InLine(LineUp(sem, s)) = InLine(sem) \cup {s}
           /\ LineUp(sem, s).granted = sem.granted
           /\ LineUp(sem, s).free = sem.free
           /\ Unheld(LineUp(sem, s)) = Unheld(sem)
           /\ Locked(sem) /\ Prompt(sem) => Prompt(LineUp(sem, s))
<1>. DEFINE new == LineUp(sem, s)
<1>1. sem \in [free : Nat, queue : Seq(T), granted : SUBSET T]
  BY DEF WellFormed
<1>2. /\ Len(sem.queue) \in Nat
      /\ DOMAIN sem.queue = 1..Len(sem.queue)
  BY LineType
<1>3. /\ new.queue = Append(sem.queue, s)
      /\ new.granted = sem.granted
      /\ new.free = sem.free
  BY <1>1 DEF LineUp
<1>4. /\ Append(sem.queue, s) \in Seq(T)
      /\ Len(Append(sem.queue, s)) = Len(sem.queue) + 1
      /\ \A i \in 1..Len(sem.queue) : Append(sem.queue, s)[i] = sem.queue[i]
      /\ Append(sem.queue, s)[Len(sem.queue) + 1] = s
  BY <1>1, AppendProperties
<1>5. new \in [free : Nat, queue : Seq(T), granted : SUBSET T]
  BY <1>1, <1>4 DEF LineUp
<1>6. DOMAIN new.queue = 1..(Len(sem.queue) + 1)
  BY <1>3, <1>4, LenProperties
<1>. HIDE DEF new
<1>7. InLine(new) = InLine(sem) \cup {s}
  <2>1. \A i \in DOMAIN new.queue :
            new.queue[i] = IF i = Len(sem.queue) + 1 THEN s ELSE sem.queue[i]
    BY <1>2, <1>3, <1>4, <1>6
  <2>2. DOMAIN new.queue = DOMAIN sem.queue \cup {Len(sem.queue) + 1}
    BY <1>2, <1>6
  <2>. QED
    BY <1>2, <2>1, <2>2 DEF InLine
<1>8. WellFormed(new, T)
  <2>1. ASSUME NEW i \in DOMAIN new.queue, NEW j \in DOMAIN new.queue,
               new.queue[i] = new.queue[j]
        PROVE  i = j
    <3>1. \A k \in 1..Len(sem.queue) : new.queue[k] = sem.queue[k] /\ new.queue[k] # s
      BY <1>2, <1>3, <1>4 DEF InLine
    <3>2. new.queue[Len(sem.queue) + 1] = s
      BY <1>3, <1>4
    <3>3. CASE i \in 1..Len(sem.queue) /\ j \in 1..Len(sem.queue)
      BY <1>2, <2>1, <3>1, <3>3 DEF WellFormed
    <3>4. CASE ~(i \in 1..Len(sem.queue) /\ j \in 1..Len(sem.queue))
      BY <1>2, <1>6, <2>1, <3>1, <3>2, <3>4
    <3>. QED
      BY <3>3, <3>4
  <2>. QED
    BY <1>3, <1>5, <1>7, <2>1 DEF WellFormed
<1>9. Locked(sem) /\ Prompt(sem) => Prompt(new)
  <2>. SUFFICES ASSUME Locked(sem), Prompt(sem), sem.free > 0
                PROVE  sem.granted # {}
    BY <1>3 DEF Prompt
  <2>1. Pending(sem) # {} \/ sem.granted # {}
    BY <1>1 DEF Locked, Pending
  <2>. QED
    BY <2>1 DEF Prompt
<1>. QED
  BY <1>3, <1>7, <1>8, <1>9 DEF new, Unheld

\* Whoever leaves the line leaves the others in it, in their order.
LEMMA OutOfLineEffect ==
    ASSUME NEW T, IsFiniteSet(T), NEW sem, WellFormed(sem, T), NEW s \in InLine(sem)
    PROVE  /\ WellFormed(OutOfLine(sem, s), T)
           /\ InLine(OutOfLine(sem, s)) = InLine(sem) \ {s}
           /\ OutOfLine(sem, s).granted = sem.granted \ {s}
           /\ OutOfLine(sem, s).free = sem.free
           /\ Unheld(OutOfLine(sem, s)) = IF s \in sem.granted THEN Unheld(sem) - 1 ELSE Unheld(sem)
           /\ \A j, k \in DOMAIN OutOfLine(sem, s).queue : j < k =>
                 \E a, b \in DOMAIN sem.queue :
                    /\ a < b
                    /\ OutOfLine(sem, s).queue[j] = sem.queue[a]
                    /\ OutOfLine(sem, s).queue[k] = sem.queue[b]
<1>. DEFINE q == sem.queue
            len == Len(q)
            i == CHOOSE j \in DOMAIN q : q[j] = s
            front == SubSeq(q, 1, i - 1)
            back == SubSeq(q, i + 1, len)
            new == OutOfLine(sem, s)
<1>1. sem \in [free : Nat, queue : Seq(T), granted : SUBSET T]
  BY DEF WellFormed
<1>2. len \in Nat /\ DOMAIN q = 1..len /\ \A k \in 1..len : q[k] \in T
  BY <1>1, LineType, ElementOfSeq
<1>3. i \in 1..len /\ q[i] = s
  <2>1. \E j \in DOMAIN q : q[j] = s
    BY DEF InLine
  <2>. QED
    BY <1>2, <2>1
<1>4. /\ new.queue = front \o back
      /\ new.granted = sem.granted \ {s}
      /\ new.free = sem.free
      /\ new = [sem EXCEPT !.queue = front \o back, !.granted = sem.granted \ {s}]
  BY <1>1 DEF OutOfLine
<1>. HIDE DEF i, len, q, new
<1>5. /\ front \in Seq(T)
      /\ Len(front) = i - 1
      /\ \A k \in 1..(i - 1) : front[k] = q[k]
  BY <1>2, <1>3, SubSeqProperties
<1>6. /\ back \in Seq(T)
      /\ Len(back) = len - i
      /\ \A k \in 1..(len - i) : back[k] = q[k + i]
  BY <1>2, <1>3, SubSeqProperties
<1>. HIDE DEF front, back
<1>7. /\ front \o back \in Seq(T)
      /\ Len(front \o back) = len - 1
      /\ \A k \in 1..(len - 1) : (front \o back)[k] = IF k < i THEN q[k] ELSE q[k + 1]
  <2>1. /\ front \o back \in Seq(T)
        /\ Len(front \o back) = Len(front) + Len(back)
        /\ \A k \in 1..(Len(front) + Len(back)) :
              (front \o back)[k] = IF k =< Len(front) THEN front[k] ELSE back[k - Len(front)]
    BY <1>5, <1>6, ConcatProperties
  <2>2. Len(front) + Len(back) = len - 1
    BY <1>2, <1>3, <1>5, <1>6
  <2>3. ASSUME NEW k \in 1..(len - 1), k < i
        PROVE  (front \o back)[k] = q[k]
    <3>1. k \in 1..(i - 1) /\ k =< Len(front)
      BY <1>2, <1>3, <1>5, <2>3
    <3>. QED
      BY <1>5, <2>1, <2>2, <3>1
  <2>4. ASSUME NEW k \in 1..(len - 1), ~(k < i)
        PROVE  (front \o back)[k] = q[k + 1]
    <3>1. /\ ~(k =< Len(front))
          /\ k - Len(front) = k - i + 1
          /\ k - i + 1 \in 1..(len - i)
          /\ (k - i + 1) + i = k + 1
      BY <1>2, <1>3, <1>5, <2>4
    <3>2. (front \o back)[k] = back[k - i + 1]
      BY <2>1, <2>2, <3>1
    <3>. QED
      BY <1>6, <3>1, <3>2
  <2>. QED
    BY <2>1, <2>2, <2>3, <2>4
<1>8. /\ DOMAIN new.queue = 1..(len - 1)
      /\ \A k \in 1..(len - 1) : new.queue[k] = IF k < i THEN q[k] ELSE q[k + 1]
  BY <1>4, <1>7, LenProperties
<1>9. \A j, k \in 1..len : q[j] = q[k] => j = k
  BY <1>2 DEF WellFormed, q
<1>10. new \in [free : Nat, queue : Seq(T), granted : SUBSET T]
  BY <1>1, <1>4, <1>7
<1>11. InLine(new) = InLine(sem) \ {s}
  <2>1. ASSUME NEW k \in 1..(len - 1)
        PROVE  new.queue[k] \in {q[j] : j \in 1..len} \ {s}
    BY <1>2, <1>3, <1>8, <1>9
  <2>2. ASSUME NEW j \in 1..len, q[j] # s
        PROVE  \E k \in 1..(len - 1) : new.queue[k] = q[j]
    <3>1. CASE j < i
      BY <1>2, <1>3, <1>8, <3>1
    <3>2. CASE j > i
      <4>1. j - 1 \in 1..(len - 1) /\ ~(j - 1 < i) /\ (j - 1) + 1 = j
        BY <1>2, <1>3, <3>2
      <4>. QED
        BY <1>8, <4>1
    <3>. QED
      BY <1>2, <1>3, <2>2, <3>1, <3>2
  <2>3. InLine(sem) = {q[j] : j \in 1..len} /\ InLine(new) = {new.queue[k] : k \in 1..(len - 1)}
    BY <1>2, <1>8 DEF InLine, q
  <2>. QED
    BY <2>1, <2>2, <2>3
<1>12. WellFormed(new, T)
  <2>1. \A j, k \in 1..(len - 1) : new.queue[j] = new.queue[k] => j = k
    BY <1>2, <1>3, <1>8, <1>9
  <2>2. new.granted \subseteq InLine(new)
    BY <1>4, <1>11 DEF WellFormed
  <2>. QED
    BY <1>8, <1>10, <2>1, <2>2 DEF WellFormed
<1>13. Cardinality(new.granted)
          = IF s \in sem.granted THEN Cardinality(sem.granted) - 1 ELSE Cardinality(sem.granted)
  <2>1. IsFiniteSet(sem.granted)
    BY <1>1, FS_Subset
  <2>. QED
    BY <1>4, <2>1, FS_RemoveElement
<1>14. Cardinality(sem.granted) \in Nat /\ sem.free \in Nat
  BY <1>1, FS_Subset, FS_CardinalityType
<1>15. ASSUME NEW j \in 1..(len - 1), NEW k \in 1..(len - 1), j < k
       PROVE  \E a, b \in 1..len : a < b /\ new.queue[j] = q[a] /\ new.queue[k] = q[b]
  <2>. DEFINE was(m) == IF m < i THEN m ELSE m + 1
  <2>1. was(j) \in 1..len /\ was(k) \in 1..len /\ was(j) < was(k)
    BY <1>2, <1>3, <1>15
  <2>2. new.queue[j] = q[was(j)] /\ new.queue[k] = q[was(k)]
    BY <1>8
  <2>. QED
    BY <2>1, <2>2
<1>16. DOMAIN new.queue = 1..(len - 1) /\ DOMAIN q = 1..len
  BY <1>2, <1>8
<1>17. ASSUME NEW j \in DOMAIN new.queue, NEW k \in DOMAIN new.queue, j < k
       PROVE  \E a, b \in DOMAIN q : a < b /\ new.queue[j] = q[a] /\ new.queue[k] = q[b]
  <2>1. j \in 1..(len - 1) /\ k \in 1..(len - 1)
    BY <1>16
  <2>2. PICK a \in 1..len, b \in 1..len : a < b /\ new.queue[j] = q[a] /\ new.queue[k] = q[b]
    BY <1>15, <1>17, <2>1
  <2>. QED
    BY <1>16, <2>2
<1>18. \A j, k \in DOMAIN new.queue : j < k =>
          \E a, b \in DOMAIN q : a < b /\ new.queue[j] = q[a] /\ new.queue[k] = q[b]
  BY <1>17
<1>19. Unheld(new) = IF s \in sem.granted THEN Unheld(sem) - 1 ELSE Unheld(sem)
  BY <1>4, <1>13, <1>14 DEF Unheld
<1>20. /\ WellFormed(new, T)
       /\ InLine(new) = InLine(sem) \ {s}
       /\ new.granted = sem.granted \ {s}
       /\ new.free = sem.free
  BY <1>4, <1>11, <1>12
<1>21. \A j, k \in DOMAIN new.queue : j < k =>
          \E a, b \in DOMAIN sem.queue :
             a < b /\ new.queue[j] = sem.queue[a] /\ new.queue[k] = sem.queue[b]
  BY <1>18 DEF q
<1>. QED
  BY <1>19, <1>20, <1>21 DEF new

-----------------------------------------------------------------------------
(* Giving back, resuming, giving up *)

\* One more slot than before, in nobody's hand, and handed over when somebody
\* waits.
LEMMA ReleaseEffect ==
    ASSUME NEW T, IsFiniteSet(T), NEW sem, WellFormed(sem, T)
    PROVE  /\ WellFormed(Release(sem), T)
           /\ Release(sem).queue = sem.queue
           /\ Unheld(Release(sem)) = Unheld(sem) + 1
           /\ Prompt(Release(sem))
<1>. DEFINE more == [sem EXCEPT !.free = @ + 1]
<1>1. sem \in [free : Nat, queue : Seq(T), granted : SUBSET T]
  BY DEF WellFormed
<1>2. /\ more \in [free : Nat, queue : Seq(T), granted : SUBSET T]
      /\ more.queue = sem.queue
      /\ more.granted = sem.granted
      /\ more.free = sem.free + 1
  BY <1>1
<1>3. Release(sem) = Wake(more, 1)
  BY DEF Release
<1>. HIDE DEF more
<1>4. WellFormed(more, T)
  BY <1>2 DEF WellFormed, InLine
<1>5. 1 \in 0..more.free
  BY <1>1, <1>2
<1>6. /\ WellFormed(Wake(more, 1), T)
      /\ Wake(more, 1).queue = more.queue
      /\ Unheld(Wake(more, 1)) = Unheld(more)
      /\ Prompt(Wake(more, 1))
  BY <1>4, <1>5, WakeEffect
<1>7. Cardinality(sem.granted) \in Nat /\ sem.free \in Nat
  BY <1>1, FS_Subset, FS_CardinalityType
<1>8. Unheld(more) = Unheld(sem) + 1
  BY <1>2, <1>7 DEF Unheld
<1>. QED
  BY <1>2, <1>3, <1>6, <1>8

\* Whoever resumes with a slot takes it out of the line, and passes on no slot
\* that somebody else needs to keep.
LEMMA AcquiredEffect ==
    ASSUME NEW T, IsFiniteSet(T), NEW sem, WellFormed(sem, T),
           NEW s \in sem.granted, NEW new \in Acquired(sem, s)
    PROVE  /\ WellFormed(new, T)
           /\ InLine(new) = InLine(sem) \ {s}
           /\ Unheld(new) = Unheld(sem) - 1
           /\ Prompt(new)
<1>. DEFINE left == OutOfLine(sem, s)
<1>1. s \in InLine(sem)
  BY DEF WellFormed
<1>2. /\ WellFormed(left, T)
      /\ InLine(left) = InLine(sem) \ {s}
      /\ Unheld(left) = Unheld(sem) - 1
  BY <1>1, OutOfLineEffect
<1>3. PICK n \in {IF left.free = 0 THEN 0 ELSE 1, left.free} : new = Wake(left, n)
  BY DEF Acquired
<1>. HIDE DEF left
<1>4. left.free \in Nat
  BY <1>2, LineType
<1>5. n \in 0..left.free /\ (left.free > 0 => n > 0)
  BY <1>3, <1>4
<1>6. /\ WellFormed(new, T)
      /\ new.queue = left.queue
      /\ Unheld(new) = Unheld(left)
      /\ n > 0 => Prompt(new)
  BY <1>2, <1>3, <1>5, WakeEffect
<1>7. Prompt(new)
  <2>1. CASE left.free > 0
    BY <1>5, <1>6, <2>1
  <2>2. CASE left.free = 0
    <3>1. n = 0
      BY <1>5, <2>2
    <3>2. IsFiniteSet(FirstPending(left, n)) /\ Cardinality(FirstPending(left, n)) = 0
      BY <1>2, <3>1, FirstPendingSize
    <3>3. left \in [free : Nat, queue : Seq(T), granted : SUBSET T]
      BY <1>2 DEF WellFormed
    <3>4. new.free = 0
      BY <1>3, <2>2, <3>2, <3>3 DEF Wake
    <3>. QED
      BY <3>4 DEF Prompt
  <2>. QED
    BY <1>4, <2>1, <2>2
<1>8. InLine(new) = InLine(left)
  BY <1>6 DEF InLine
<1>. QED
  BY <1>2, <1>6, <1>7, <1>8

\* Whoever gives up leaves the slots as they were: the one it was handed goes
\* back, and to somebody else who waits.
LEMMA GivenUpEffect ==
    ASSUME NEW T, IsFiniteSet(T), NEW sem, WellFormed(sem, T),
           NEW s \in InLine(sem), NEW new \in GivenUp(sem, s)
    PROVE  /\ WellFormed(new, T)
           /\ InLine(new) = InLine(sem) \ {s}
           /\ Unheld(new) = Unheld(sem)
           /\ signals[s] # {} /\ Prompt(sem) => Prompt(new)
<1>. DEFINE out == OutOfLine(sem, s)
            left == IF s \in sem.granted THEN [out EXCEPT !.free = @ + 1] ELSE out
<1>1. /\ WellFormed(out, T)
      /\ InLine(out) = InLine(sem) \ {s}
      /\ out.granted = sem.granted \ {s}
      /\ out.free = sem.free
      /\ Unheld(out) = IF s \in sem.granted THEN Unheld(sem) - 1 ELSE Unheld(sem)
  BY OutOfLineEffect
<1>2. PICK n \in {IF s \in sem.granted THEN 1 ELSE 0, left.free} : new = Wake(left, n)
  BY DEF GivenUp
<1>. HIDE DEF out
<1>3. out \in [free : Nat, queue : Seq(T), granted : SUBSET T]
  BY <1>1 DEF WellFormed
<1>4. /\ left \in [free : Nat, queue : Seq(T), granted : SUBSET T]
      /\ left.queue = out.queue
      /\ left.granted = out.granted
      /\ left.free = IF s \in sem.granted THEN out.free + 1 ELSE out.free
  BY <1>3
<1>. HIDE DEF left
<1>5. WellFormed(left, T) /\ InLine(left) = InLine(out)
  BY <1>1, <1>4 DEF WellFormed, InLine
<1>6. left.free \in Nat /\ out.free \in Nat /\ sem.free \in Nat
  BY <1>3, <1>4, LineType
<1>7. n \in 0..left.free /\ (s \in sem.granted => n > 0)
  BY <1>2, <1>4, <1>6
<1>8. /\ WellFormed(new, T)
      /\ new.queue = left.queue
      /\ Unheld(new) = Unheld(left)
      /\ left.granted \subseteq new.granted
      /\ n > 0 => Prompt(new)
  BY <1>2, <1>5, <1>7, WakeEffect
<1>9. Unheld(left) = Unheld(sem)
  <2>1. Cardinality(out.granted) \in Nat /\ Cardinality(sem.granted) \in Nat
    BY <1>3, FS_Subset, FS_CardinalityType DEF WellFormed
  <2>. QED
    BY <1>1, <1>4, <1>6, <2>1 DEF Unheld
<1>10. ASSUME signals[s] # {}, Prompt(sem), n = 0
       PROVE  Prompt(new)
  <2>1. s \notin sem.granted
    BY <1>7, <1>10
  <2>2. left.free = sem.free /\ left.granted = sem.granted
    BY <1>1, <1>4, <2>1
  <2>3. Pending(left) = Pending(sem)
    <3>1. InLine(left) = InLine(sem) \ {s}
      BY <1>1, <1>5
    <3>. QED
      BY <1>10, <2>2, <3>1 DEF Pending, InLine
  <2>4. Cardinality(FirstPending(left, n)) = 0
    BY <1>5, <1>10, FirstPendingSize
  <2>5. new.free = left.free
    BY <1>2, <1>4, <1>6, <2>4 DEF Wake
  <2>6. Pending(new) \subseteq Pending(left)
    BY <1>8 DEF Pending
  <2>. QED
    BY <1>8, <1>10, <2>2, <2>3, <2>5, <2>6 DEF Prompt
<1>11. signals[s] # {} /\ Prompt(sem) => Prompt(new)
  BY <1>7, <1>8, <1>10
<1>12. InLine(new) = InLine(left)
  BY <1>8 DEF InLine
<1>. QED
  BY <1>1, <1>5, <1>8, <1>9, <1>11, <1>12

-----------------------------------------------------------------------------
(* The order of the line *)

\* Waking the first that wait passes over nobody who waits.
LEMMA WakeInTurn ==
    ASSUME NEW T, NEW sem, WellFormed(sem, T), NEW n \in Nat, InTurn(sem)
    PROVE  InTurn(Wake(sem, n))
<1>. DEFINE first == FirstPending(sem, n)
            waits(j) == {k \in 1..j : sem.queue[k] \in Pending(sem)}
<1>1. DOMAIN sem.queue = 1..Len(sem.queue) /\ Len(sem.queue) \in Nat
  BY LineType
<1>2. sem \in [free : Nat, queue : Seq(T), granted : SUBSET T]
  BY DEF WellFormed
<1>3. Wake(sem, n).queue = sem.queue /\ Wake(sem, n).granted = sem.granted \cup first
  BY <1>2 DEF Wake
<1>4. ASSUME NEW i \in DOMAIN sem.queue, NEW j \in DOMAIN sem.queue, i < j,
             sem.queue[j] \in first, sem.queue[i] \in Pending(sem)
      PROVE  sem.queue[i] \in first
  <2>1. PICK k \in DOMAIN sem.queue :
           sem.queue[k] = sem.queue[j] /\ Cardinality(waits(k)) =< n
    BY <1>4 DEF FirstPending
  <2>2. k = j
    BY <2>1 DEF WellFormed
  <2>3. IsFiniteSet(waits(j))
    <3>1. IsFiniteSet(1..j) /\ waits(j) \subseteq 1..j
      BY <1>1, FS_Interval
    <3>. QED
      BY <3>1, FS_Subset
  <2>4. waits(i) \subseteq waits(j)
    BY <1>1, <1>4
  <2>5. /\ Cardinality(waits(i)) =< Cardinality(waits(j))
        /\ Cardinality(waits(i)) \in Nat
        /\ Cardinality(waits(j)) \in Nat
    <3>. HIDE DEF waits
    <3>. QED
      BY <2>3, <2>4, FS_Subset, FS_CardinalityType
  <2>6. Cardinality(waits(i)) =< n
    BY <2>1, <2>2, <2>5
  <2>. QED
    BY <1>4, <2>6 DEF FirstPending
<1>5. Pending(Wake(sem, n)) = Pending(sem) \ first
  BY <1>3 DEF Pending
<1>. HIDE DEF first
<1>. QED
  BY <1>3, <1>4, <1>5 DEF InTurn

\* So does a slot more.
LEMMA ReleaseInTurn ==
    ASSUME NEW T, NEW sem, WellFormed(sem, T), InTurn(sem)
    PROVE  InTurn(Release(sem))
<1>. DEFINE more == [sem EXCEPT !.free = @ + 1]
<1>1. /\ more \in [free : Nat, queue : Seq(T), granted : SUBSET T]
      /\ more.queue = sem.queue
      /\ more.granted = sem.granted
  BY DEF WellFormed
<1>2. Release(sem) = Wake(more, 1)
  BY DEF Release
<1>. HIDE DEF more
<1>3. WellFormed(more, T) /\ InTurn(more)
  BY <1>1 DEF WellFormed, InLine, InTurn, Pending
<1>. QED
  BY <1>2, <1>3, WakeInTurn

\* Whoever takes a slot changes nothing for those in line, and whoever lines up
\* stands behind them without one.
LEMMA EnterInTurn ==
    ASSUME NEW T, NEW sem, WellFormed(sem, T), NEW s \in T, InTurn(sem)
    PROVE  /\ InTurn(Take(sem))
           /\ s \notin InLine(sem) => InTurn(LineUp(sem, s))
<1>1. sem \in [free : Nat, queue : Seq(T), granted : SUBSET T]
  BY DEF WellFormed
<1>2. Len(sem.queue) \in Nat /\ DOMAIN sem.queue = 1..Len(sem.queue)
  BY LineType
<1>3. InTurn(Take(sem))
  <2>1. Take(sem).queue = sem.queue /\ Take(sem).granted = sem.granted
    BY <1>1 DEF Take
  <2>. QED
    BY <2>1 DEF InTurn, Pending
<1>4. ASSUME s \notin InLine(sem) PROVE InTurn(LineUp(sem, s))
  <2>. DEFINE new == LineUp(sem, s)
              len == Len(sem.queue)
  <2>1. new.queue = Append(sem.queue, s) /\ new.granted = sem.granted
    BY <1>1 DEF LineUp
  <2>2. /\ DOMAIN new.queue = 1..(len + 1)
        /\ \A i \in 1..len : new.queue[i] = sem.queue[i]
        /\ new.queue[len + 1] = s
    BY <1>1, <2>1, AppendProperties, LenProperties
  <2>3. s \notin sem.granted
    BY <1>4 DEF WellFormed
  <2>. HIDE DEF new
  <2>4. ASSUME NEW i \in DOMAIN new.queue, NEW j \in DOMAIN new.queue, i < j,
               new.queue[j] \in new.granted
        PROVE  new.queue[i] \notin Pending(new)
    <3>1. j \in 1..len /\ i \in 1..len
      BY <1>2, <2>1, <2>2, <2>3, <2>4
    <3>2. sem.queue[j] \in sem.granted /\ new.queue[i] = sem.queue[i]
      BY <2>1, <2>2, <2>4, <3>1
    <3>3. sem.queue[i] \notin Pending(sem)
      BY <1>2, <2>4, <3>1, <3>2 DEF InTurn
    <3>. QED
      BY <1>2, <2>1, <3>1, <3>2, <3>3 DEF Pending
  <2>. QED
    BY <2>4 DEF InTurn, new
<1>. QED
  BY <1>3, <1>4

\* Whoever leaves does not let anybody past.
LEMMA OutOfLineInTurn ==
    ASSUME NEW T, IsFiniteSet(T), NEW sem, WellFormed(sem, T), NEW s \in InLine(sem), InTurn(sem)
    PROVE  InTurn(OutOfLine(sem, s))
<1>. DEFINE new == OutOfLine(sem, s)
<1>1. /\ InLine(new) = InLine(sem) \ {s}
      /\ new.granted = sem.granted \ {s}
      /\ \A j, k \in DOMAIN new.queue : j < k =>
            \E a, b \in DOMAIN sem.queue :
               a < b /\ new.queue[j] = sem.queue[a] /\ new.queue[k] = sem.queue[b]
  BY OutOfLineEffect
<1>. HIDE DEF new
<1>2. Pending(new) \subseteq Pending(sem)
  BY <1>1 DEF Pending, InLine
<1>3. ASSUME NEW j \in DOMAIN new.queue, NEW k \in DOMAIN new.queue, j < k,
             new.queue[k] \in new.granted
      PROVE  new.queue[j] \notin Pending(new)
  <2>1. PICK a \in DOMAIN sem.queue, b \in DOMAIN sem.queue :
           a < b /\ new.queue[j] = sem.queue[a] /\ new.queue[k] = sem.queue[b]
    BY <1>1, <1>3
  <2>2. sem.queue[a] \notin Pending(sem)
    BY <1>1, <1>3, <2>1 DEF InTurn
  <2>. QED
    BY <1>2, <2>1, <2>2
<1>. QED
  BY <1>3 DEF InTurn, new

\* Resuming and giving up are that, and a slot passed on in turn.
LEMMA LeaveInTurn ==
    ASSUME NEW T, IsFiniteSet(T), NEW sem, WellFormed(sem, T), NEW s \in InLine(sem), InTurn(sem),
           NEW new \in Acquired(sem, s) \cup GivenUp(sem, s)
    PROVE  InTurn(new)
<1>. DEFINE out == OutOfLine(sem, s)
            more == [out EXCEPT !.free = @ + 1]
<1>1. WellFormed(out, T) /\ InTurn(out)
  BY OutOfLineEffect, OutOfLineInTurn
<1>2. out \in [free : Nat, queue : Seq(T), granted : SUBSET T]
  BY <1>1 DEF WellFormed
<1>. HIDE DEF out
<1>3. /\ more \in [free : Nat, queue : Seq(T), granted : SUBSET T]
      /\ more.queue = out.queue
      /\ more.granted = out.granted
  BY <1>2
<1>. HIDE DEF more
<1>4. WellFormed(more, T) /\ InTurn(more)
  BY <1>1, <1>3 DEF WellFormed, InLine, InTurn, Pending
<1>5. out.free \in Nat /\ more.free \in Nat
  BY <1>2, <1>3
<1>6. \E left \in {out, more}, n \in Nat : new = Wake(left, n)
  <2>1. CASE new \in Acquired(sem, s)
    BY <1>5, <2>1 DEF Acquired, out
  <2>2. CASE new \in GivenUp(sem, s)
    BY <1>5, <2>2 DEF GivenUp, out, more
  <2>. QED
    BY <2>1, <2>2
<1>. QED
  BY <1>1, <1>4, <1>6, WakeInTurn

-----------------------------------------------------------------------------
(* The line itself *)

\* As many places in line as tasks that stand in it.
LEMMA LineLength ==
    ASSUME NEW T, NEW sem, WellFormed(sem, T)
    PROVE  IsFiniteSet(InLine(sem)) /\ Cardinality(InLine(sem)) = Len(sem.queue)
<1>. DEFINE len == Len(sem.queue)
            at(i) == sem.queue[i]
            place == [i \in 1..len |-> at(i)]
<1>1. len \in Nat /\ DOMAIN sem.queue = 1..len
  BY LineType
<1>2. IsFiniteSet(1..len) /\ Cardinality(1..len) = len
  BY <1>1, FS_Interval
<1>3. InLine(sem) = {at(i) : i \in 1..len}
  BY <1>1 DEF InLine
<1>4. place \in [1..len -> InLine(sem)] /\ \A t \in InLine(sem) : \E i \in 1..len : place[i] = t
  BY <1>3
<1>5. \A i, j \in 1..len : place[i] = place[j] => i = j
  BY <1>1 DEF WellFormed
<1>. HIDE DEF place, len
<1>6. place \in Bijection(1..len, InLine(sem))
  BY <1>4, <1>5 DEF Bijection, Injection, IsInjective, Surjection
<1>7. ExistsBijection(1..len, InLine(sem))
  BY <1>6 DEF ExistsBijection
<1>. QED
  BY <1>2, <1>7, FS_Bijection DEF len

-----------------------------------------------------------------------------
(* The account of a semaphore: what its users prove about it.  T are its tasks, *)
(* W those that stand in line, H those that hold one of its n slots.            *)

InUse(sem, T, W, H, n) ==
    /\ WellFormed(sem, T)
    /\ InLine(sem) = W
    /\ IsFiniteSet(H)
    /\ Unheld(sem) + Cardinality(H) = n

\* A semaphore starts with its slots free and nobody in line.
LEMMA StartInUse ==
    ASSUME NEW T, NEW n \in Nat, NEW sem,
           sem = [free |-> n, queue |-> <<>>, granted |-> {}]
    PROVE  InUse(sem, T, {}, {}, n) /\ Prompt(sem)
<1>1. WellFormed(sem, T) /\ InLine(sem) = {}
  BY DEF WellFormed, InLine
<1>2. IsFiniteSet({}) /\ Cardinality({}) = 0
  BY FS_EmptySet
<1>3. Unheld(sem) + Cardinality({}) = n
  BY <1>2 DEF Unheld
<1>4. Prompt(sem)
  BY DEF Prompt, Pending
<1>. QED
  BY <1>1, <1>2, <1>3, <1>4 DEF InUse

\* The numbers of an account.
LEMMA AccountType ==
    ASSUME NEW T, IsFiniteSet(T), NEW sem, NEW W, NEW H, NEW n, InUse(sem, T, W, H, n)
    PROVE  /\ WellFormed(sem, T)
           /\ sem.free \in Nat
           /\ Cardinality(sem.granted) \in Nat
           /\ Unheld(sem) \in Nat
           /\ Cardinality(H) \in Nat
           /\ n \in Nat
<1>1. WellFormed(sem, T)
  BY DEF InUse
<1>2. sem.free \in Nat /\ sem.granted \in SUBSET T
  BY <1>1, LineType
<1>3. Cardinality(sem.granted) \in Nat
  BY <1>2, FS_Subset, FS_CardinalityType
<1>4. Cardinality(H) \in Nat
  BY FS_CardinalityType DEF InUse
<1>5. Unheld(sem) \in Nat
  BY <1>2, <1>3 DEF Unheld
<1>6. n \in Nat
  BY <1>4, <1>5 DEF InUse
<1>. QED
  BY <1>1, <1>2, <1>3, <1>4, <1>5, <1>6

\* A task that finds the semaphore unlocked becomes a holder.
LEMMA TakeInUse ==
    ASSUME NEW T, IsFiniteSet(T), NEW sem, NEW W, NEW H, NEW n, InUse(sem, T, W, H, n),
           NEW s, s \notin H, ~Locked(sem)
    PROVE  InUse(Take(sem), T, W, H \cup {s}, n) /\ Prompt(Take(sem))
<1>1. WellFormed(sem, T) /\ Unheld(sem) \in Nat /\ Cardinality(H) \in Nat
  BY AccountType
<1>2. /\ WellFormed(Take(sem), T)
      /\ Take(sem).queue = sem.queue
      /\ Unheld(Take(sem)) = Unheld(sem) - 1
      /\ Prompt(Take(sem))
  BY <1>1, TakeEffect
<1>3. InLine(Take(sem)) = W
  BY <1>2 DEF InLine, InUse
<1>4. IsFiniteSet(H \cup {s}) /\ Cardinality(H \cup {s}) = Cardinality(H) + 1
  BY FS_AddElement DEF InUse
<1>. QED
  BY <1>1, <1>2, <1>3, <1>4 DEF InUse

\* A task that finds it locked stands in line.
LEMMA LineUpInUse ==
    ASSUME NEW T, NEW sem, NEW W, NEW H, NEW n, InUse(sem, T, W, H, n),
           NEW s \in T \ W, Locked(sem)
    PROVE  /\ InUse(LineUp(sem, s), T, W \cup {s}, H, n)
           /\ Prompt(sem) => Prompt(LineUp(sem, s))
  BY LineUpEffect DEF InUse

\* A task that resumes with a slot leaves the line and becomes a holder.
LEMMA AcquiredInUse ==
    ASSUME NEW T, IsFiniteSet(T), NEW sem, NEW W, NEW H, NEW n, InUse(sem, T, W, H, n),
           NEW s \in sem.granted, s \notin H, NEW new \in Acquired(sem, s)
    PROVE  InUse(new, T, W \ {s}, H \cup {s}, n) /\ Prompt(new)
<1>1. WellFormed(sem, T) /\ Unheld(sem) \in Nat /\ Cardinality(H) \in Nat
  BY AccountType
<1>2. /\ WellFormed(new, T)
      /\ InLine(new) = InLine(sem) \ {s}
      /\ Unheld(new) = Unheld(sem) - 1
      /\ Prompt(new)
  BY <1>1, AcquiredEffect
<1>3. IsFiniteSet(H \cup {s}) /\ Cardinality(H \cup {s}) = Cardinality(H) + 1
  BY FS_AddElement DEF InUse
<1>. QED
  BY <1>1, <1>2, <1>3 DEF InUse

\* A holder that releases its slot is none any more.
LEMMA ReleaseInUse ==
    ASSUME NEW T, IsFiniteSet(T), NEW sem, NEW W, NEW H, NEW n, InUse(sem, T, W, H, n),
           NEW s \in H
    PROVE  InUse(Release(sem), T, W, H \ {s}, n) /\ Prompt(Release(sem))
<1>1. WellFormed(sem, T) /\ Unheld(sem) \in Nat /\ Cardinality(H) \in Nat
  BY AccountType
<1>2. /\ WellFormed(Release(sem), T)
      /\ Release(sem).queue = sem.queue
      /\ Unheld(Release(sem)) = Unheld(sem) + 1
      /\ Prompt(Release(sem))
  BY <1>1, ReleaseEffect
<1>3. InLine(Release(sem)) = W
  BY <1>2 DEF InLine, InUse
<1>4. IsFiniteSet(H \ {s}) /\ Cardinality(H \ {s}) = Cardinality(H) - 1
  BY FS_RemoveElement DEF InUse
<1>. QED
  BY <1>1, <1>2, <1>3, <1>4 DEF InUse

\* A task that gives up because somebody cancelled it leaves the line, and the
\* holders are the same.
LEMMA GivenUpInUse ==
    ASSUME NEW T, IsFiniteSet(T), NEW sem, NEW W, NEW H, NEW n, InUse(sem, T, W, H, n),
           NEW s \in W, signals[s] # {}, NEW new \in GivenUp(sem, s)
    PROVE  /\ InUse(new, T, W \ {s}, H, n)
           /\ Prompt(sem) => Prompt(new)
  BY GivenUpEffect DEF InUse

\* Everything is accounted for.
LEMMA InUseAllAccounted ==
    ASSUME NEW T, NEW sem, NEW W, NEW H, NEW n, InUse(sem, T, W, H, n)
    PROVE  AllAccounted(sem, H, W, n)
<1>1. sem.free \in Nat /\ Len(sem.queue) = Cardinality(W)
  BY LineType, LineLength DEF InUse
<1>. QED
  BY <1>1 DEF InUse, AllAccounted, Unheld, InLine

\* Signals that only go away with the tasks that had them make nobody wait who
\* did not wait before.
LEMMA PromptKept ==
    ASSUME NEW sem, Prompt(sem),
           \A t \in InLine(sem) : signals'[t] = {} => signals[t] = {}
    PROVE  sem.free > 0 /\ {t \in InLine(sem) \ sem.granted : signals'[t] = {}} # {}
              => sem.granted # {}
  BY DEF Prompt, Pending, InLine
=============================================================================
