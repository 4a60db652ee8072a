--------------------------- MODULE JobQueue_proofs ---------------------------
(***************************************************************************)
(* What the operations of JobQueue do to the ids that wait, for sequences  *)
(* over any set.  The invariance proofs of FinetuneService cite these.     *)
(***************************************************************************)
EXTENDS JobQueue, SequenceTheorems, WellFoundedInduction, TLAPS

(* enqueue adds its id and keeps the others; a new id stays unique. *)
LEMMA EnqueueFacts ==
    ASSUME NEW S, NEW q \in Seq(S), NEW e \in S
    PROVE  /\ Enqueue(q, e) \in Seq(S)
           /\ \A j : Holds(Enqueue(q, e), j) <=> Holds(q, j) \/ j = e
           /\ Distinct(q) /\ ~Holds(q, e) => Distinct(Enqueue(q, e))
<1> DEFINE a == Append(q, e)
<1>1. /\ a \in Seq(S) /\ Len(a) = Len(q) + 1 /\ Len(q) \in Nat
      /\ \A i \in 1..Len(q) : a[i] = q[i]
      /\ a[Len(q) + 1] = e
  BY AppendProperties, LenProperties
<1>2. \A j : Holds(a, j) <=> Holds(q, j) \/ j = e
  <2>1. ASSUME NEW j, Holds(a, j) PROVE Holds(q, j) \/ j = e
    BY <1>1, <2>1 DEF Holds
  <2>2. ASSUME NEW j, Holds(q, j) \/ j = e PROVE Holds(a, j)
    <3>1. CASE Holds(q, j)
      BY <1>1, <3>1 DEF Holds
    <3>2. CASE j = e
      BY <1>1, <3>2, Len(q) + 1 \in 1..Len(a) DEF Holds
    <3> QED BY <2>2, <3>1, <3>2
  <2> QED BY <2>1, <2>2
<1>3. ASSUME Distinct(q), ~Holds(q, e) PROVE Distinct(a)
  <2> SUFFICES ASSUME NEW i \in 1..Len(a), NEW k \in 1..Len(a), a[i] = a[k]
               PROVE  i = k
    BY DEF Distinct
  <2> QED BY <1>1, <1>3 DEF Distinct, Holds
<1> QED BY <1>1, <1>2, <1>3 DEF Enqueue

(* Dropping a position loses its id, at most, and nothing else. *)
LEMMA DropFacts ==
    ASSUME NEW S, NEW q \in Seq(S), NEW k \in 1..Len(q)
    PROVE  /\ Drop(q, k) \in Seq(S)
           /\ \A j : Holds(Drop(q, k), j) => Holds(q, j)
           /\ \A j : Holds(q, j) /\ j # q[k] => Holds(Drop(q, k), j)
           /\ Distinct(q) => Distinct(Drop(q, k)) /\ ~Holds(Drop(q, k), q[k])
<1> DEFINE d == Drop(q, k)
           at(i) == IF i < k THEN i ELSE i + 1
<1>1. Len(q) \in Nat /\ k \in Nat /\ Len(q) - 1 \in Nat
  BY LenProperties
<1>2. \A i \in 1..(Len(q) - 1) : at(i) \in 1..Len(q) /\ at(i) # k /\ q[at(i)] \in S
  BY <1>1, ElementOfSeq
<1>3. d \in Seq(S) /\ Len(d) = Len(q) - 1
      /\ \A i \in 1..(Len(q) - 1) : d[i] = q[at(i)]
  <2>1. d = [i \in 1..(Len(q) - 1) |-> q[at(i)]]
    BY DEF Drop
  <2>2. d \in [1..(Len(q) - 1) -> S]
    BY <1>2, <2>1
  <2>3. d \in Seq(S)
    BY <1>1, <2>2, SeqDef
  <2>4. Len(d) = Len(q) - 1
    BY <1>1, <2>2, <2>3, LenProperties
  <2> HIDE DEF d
  <2> QED BY <2>1, <2>3, <2>4
<1>4. \A j : Holds(d, j) => Holds(q, j)
  BY <1>2, <1>3 DEF Holds
<1>5. ASSUME NEW j, Holds(q, j), j # q[k] PROVE Holds(d, j)
  <2>1. PICK i \in 1..Len(q) : q[i] = j
    BY <1>5 DEF Holds
  <2>2. CASE i < k
    <3>1. i \in 1..(Len(q) - 1) /\ d[i] = q[i]
      BY <1>1, <1>3, <2>2
    <3> QED BY <1>3, <2>1, <3>1 DEF Holds
  <2>3. CASE i > k
    <3>1. i - 1 \in 1..(Len(q) - 1) /\ at(i - 1) = i
      BY <1>1, <2>3
    <3>2. d[i - 1] = q[i]
      BY <1>3, <3>1
    <3> QED BY <1>3, <2>1, <3>1, <3>2 DEF Holds
  <2> QED BY <1>1, <1>5, <2>1, <2>2, <2>3
<1>6. ASSUME Distinct(q) PROVE Distinct(d) /\ ~Holds(d, q[k])
  <2>1. ASSUME NEW i \in 1..Len(d), NEW m \in 1..Len(d), d[i] = d[m]
        PROVE  i = m
    <3>1. at(i) = at(m)
      BY <1>2, <1>3, <1>6, <2>1 DEF Distinct
    <3> QED BY <1>1, <1>3, <3>1
  <2>2. ASSUME NEW i \in 1..Len(d), d[i] = q[k] PROVE FALSE
    BY <1>2, <1>3, <1>6, <2>2 DEF Distinct
  <2> HIDE DEF d
  <2> QED BY <2>1, <2>2 DEF Distinct, Holds
<1> QED BY <1>3, <1>4, <1>5, <1>6

(* Dropping a position shortens the sequence by one. *)
LEMMA DropLength ==
    ASSUME NEW S, NEW q \in Seq(S), NEW k \in 1..Len(q)
    PROVE  Len(Drop(q, k)) = Len(q) - 1
<1>1. Len(q) \in Nat /\ k \in Nat /\ Len(q) - 1 \in Nat
  BY LenProperties
<1>2. \A i \in 1..(Len(q) - 1) : q[IF i < k THEN i ELSE i + 1] \in S
  BY <1>1, ElementOfSeq
<1>3. Drop(q, k) \in [1..(Len(q) - 1) -> S]
  BY <1>2 DEF Drop
<1>4. Drop(q, k) \in Seq(S) /\ DOMAIN Drop(q, k) = 1..(Len(q) - 1)
  BY <1>1, <1>3, SeqDef
<1> QED BY <1>1, <1>4, LenProperties

(* An id that waits has a leftmost position. *)
LEMMA PositionExists ==
    ASSUME NEW S, NEW q \in Seq(S), NEW e, Holds(q, e)
    PROVE  Position(q, e) \in 1..Len(q) /\ q[Position(q, e)] = e
<1> DEFINE T == {i \in 1..Len(q) : q[i] = e}
           R == OpToRel(<, Nat)
<1>1. T \subseteq Nat /\ T # {} /\ Len(q) \in Nat
  BY LenProperties DEF Holds
<1>2. PICK i \in T : \A k \in T : <<k, i>> \notin R
  <2>1. IsWellFoundedOn(R, Nat)
    BY NatLessThanWellFounded
  <2> HIDE DEF T, R
  <2> QED BY <1>1, <2>1, WFMin
<1>3. \A k \in 1..(i - 1) : q[k] # e
  <2> SUFFICES ASSUME NEW k \in 1..(i - 1), q[k] = e PROVE FALSE
    OBVIOUS
  <2>1. k \in T /\ k \in Nat /\ i \in Nat /\ k < i
    BY <1>1
  <2>2. <<k, i>> \in R
    BY <2>1 DEF OpToRel
  <2> QED BY <1>2, <2>1, <2>2
<1> QED BY <1>2, <1>3 DEF Position

(* remove takes its id out of a queue without duplicates, and only that. *)
LEMMA RemoveFacts ==
    ASSUME NEW S, NEW q \in Seq(S), NEW e, Distinct(q)
    PROVE  /\ Remove(q, e) \in Seq(S)
           /\ Distinct(Remove(q, e))
           /\ \A j : Holds(Remove(q, e), j) <=> Holds(q, j) /\ j # e
<1>1. CASE ~Holds(q, e)
  BY <1>1 DEF Remove
<1>2. CASE Holds(q, e)
  BY <1>2, PositionExists, DropFacts DEF Remove
<1> QED BY <1>1, <1>2

(* remove keeps a sequence of ids one, with or without duplicates. *)
LEMMA RemoveType ==
    ASSUME NEW S, NEW q \in Seq(S), NEW e
    PROVE  Remove(q, e) \in Seq(S)
<1>1. CASE Holds(q, e)
  BY <1>1, PositionExists, DropFacts DEF Remove
<1>2. CASE ~Holds(q, e)
  BY <1>2 DEF Remove
<1> QED BY <1>1, <1>2

(* Two sequences without duplicates and without a common id, joined. *)
LEMMA JoinFacts ==
    ASSUME NEW S, NEW p \in Seq(S), NEW q \in Seq(S),
           Distinct(p), Distinct(q), \A j : ~(Holds(p, j) /\ Holds(q, j))
    PROVE  /\ p \o q \in Seq(S)
           /\ Distinct(p \o q)
           /\ \A j : Holds(p \o q, j) <=> Holds(p, j) \/ Holds(q, j)
<1> DEFINE c == p \o q
<1>1. /\ c \in Seq(S) /\ Len(c) = Len(p) + Len(q)
      /\ \A i \in 1..(Len(p) + Len(q)) :
            c[i] = IF i <= Len(p) THEN p[i] ELSE q[i - Len(p)]
      /\ Len(p) \in Nat /\ Len(q) \in Nat
  BY ConcatProperties, LenProperties
<1> HIDE DEF c
<1>2. ASSUME NEW i \in 1..Len(c), NEW k \in 1..Len(c), c[i] = c[k]
      PROVE  i = k
  <2>1. CASE i <= Len(p) /\ k <= Len(p)
    BY <1>1, <1>2, <2>1 DEF Distinct
  <2>2. CASE i > Len(p) /\ k > Len(p)
    <3>1. i - Len(p) \in 1..Len(q) /\ k - Len(p) \in 1..Len(q)
      BY <1>1, <2>2
    <3>2. q[i - Len(p)] = q[k - Len(p)]
      BY <1>1, <1>2, <2>2
    <3>3. i - Len(p) = k - Len(p)
      BY <3>1, <3>2 DEF Distinct
    <3> QED BY <1>1, <3>3
  <2>3. CASE i <= Len(p) /\ k > Len(p)
    <3>1. i \in 1..Len(p) /\ k - Len(p) \in 1..Len(q) /\ p[i] = q[k - Len(p)]
      BY <1>1, <1>2, <2>3
    <3> QED BY <3>1 DEF Holds
  <2>4. CASE i > Len(p) /\ k <= Len(p)
    <3>1. k \in 1..Len(p) /\ i - Len(p) \in 1..Len(q) /\ p[k] = q[i - Len(p)]
      BY <1>1, <1>2, <2>4
    <3> QED BY <3>1 DEF Holds
  <2> QED BY <1>1, <2>1, <2>2, <2>3, <2>4
<1>3. ASSUME NEW j, Holds(c, j) PROVE Holds(p, j) \/ Holds(q, j)
  <2>1. PICK i \in 1..Len(c) : c[i] = j
    BY <1>3 DEF Holds
  <2>2. CASE i <= Len(p)
    BY <1>1, <2>1, <2>2 DEF Holds
  <2>3. CASE i > Len(p)
    <3>1. i - Len(p) \in 1..Len(q) /\ q[i - Len(p)] = j
      BY <1>1, <2>1, <2>3
    <3> QED BY <3>1 DEF Holds
  <2> QED BY <1>1, <2>2, <2>3
<1>4. ASSUME NEW j, Holds(p, j) PROVE Holds(c, j)
  BY <1>1, <1>4 DEF Holds
<1>5. ASSUME NEW j, Holds(q, j) PROVE Holds(c, j)
  <2>1. PICK i \in 1..Len(q) : q[i] = j
    BY <1>5 DEF Holds
  <2>2. i + Len(p) \in 1..Len(c) /\ c[i + Len(p)] = q[i]
    <3>1. /\ i + Len(p) \in 1..(Len(p) + Len(q))
          /\ ~(i + Len(p) <= Len(p)) /\ (i + Len(p)) - Len(p) = i
      BY <1>1
    <3> QED BY <1>1, <3>1
  <2> QED BY <2>1, <2>2 DEF Holds
<1>6. Distinct(c)
  BY <1>2 DEF Distinct
<1> QED BY <1>1, <1>3, <1>4, <1>5, <1>6 DEF c

(* An enqueued id is behind whatever waits. *)
LEMMA EnqueueOrder ==
    ASSUME NEW S, NEW q \in Seq(S), NEW e \in S, NEW i, NEW j,
           i # e, Ahead(Enqueue(q, e), j, i)
    PROVE  Ahead(q, j, i)
<1> DEFINE a == Append(q, e)
<1>1. /\ Len(a) = Len(q) + 1 /\ Len(q) \in Nat
      /\ \A k \in 1..Len(q) : a[k] = q[k]
      /\ a[Len(q) + 1] = e
  BY AppendProperties, LenProperties
<1> HIDE DEF a
<1>2. PICK k, m \in 1..Len(a) : k < m /\ a[k] = j /\ a[m] = i
  BY DEF Ahead, Enqueue, a
<1>3. m \in 1..Len(q)
  BY <1>1, <1>2
<1>4. k \in 1..Len(q)
  BY <1>1, <1>2, <1>3
<1> QED BY <1>1, <1>2, <1>3, <1>4 DEF Ahead

(* Taking out one position leaves the others in their order. *)
LEMMA DropOrder ==
    ASSUME NEW S, NEW q \in Seq(S), NEW k \in 1..Len(q), NEW i, NEW j,
           Ahead(Drop(q, k), j, i)
    PROVE  Ahead(q, j, i)
<1> DEFINE at(m) == IF m < k THEN m ELSE m + 1
           d == Drop(q, k)
<1>1. Len(q) \in Nat /\ k \in Nat /\ Len(q) - 1 \in Nat
  BY LenProperties
<1>2. Len(d) = Len(q) - 1 /\ \A m \in 1..(Len(q) - 1) : d[m] = q[at(m)]
  <2>1. \A m \in 1..(Len(q) - 1) : q[at(m)] \in S
    BY <1>1, ElementOfSeq
  <2>2. d = [m \in 1..(Len(q) - 1) |-> q[at(m)]]
    BY DEF Drop
  <2>3. d \in [1..(Len(q) - 1) -> S]
    BY <2>1, <2>2
  <2>4. d \in Seq(S) /\ DOMAIN d = 1..(Len(q) - 1)
    BY <1>1, <2>3, SeqDef
  <2>5. Len(d) = Len(q) - 1
    BY <1>1, <2>4, LenProperties
  <2> HIDE DEF d
  <2> QED BY <2>2, <2>5
<1> HIDE DEF d
<1>3. PICK m, n \in 1..(Len(q) - 1) : m < n /\ d[m] = j /\ d[n] = i
  BY <1>2 DEF Ahead, d
<1>4. at(m) \in 1..Len(q) /\ at(n) \in 1..Len(q) /\ at(m) < at(n)
  BY <1>1, <1>3
<1>5. q[at(m)] = j /\ q[at(n)] = i
  BY <1>2, <1>3
<1> HIDE DEF at
<1> QED BY <1>4, <1>5 DEF Ahead

(* So does taking out an id. *)
LEMMA RemoveOrder ==
    ASSUME NEW S, NEW q \in Seq(S), NEW e, NEW i, NEW j, Ahead(Remove(q, e), j, i)
    PROVE  Ahead(q, j, i)
<1>1. CASE Holds(q, e)
  BY <1>1, PositionExists, DropOrder DEF Remove
<1>2. CASE ~Holds(q, e)
  BY <1>2 DEF Remove
<1> QED BY <1>1, <1>2

(* The id that dequeue hands out was ahead of all that still wait. *)
LEMMA OldestFirst ==
    ASSUME NEW S, NEW q \in Seq(S), q # << >>, NEW i, Holds(Dequeue(q), i)
    PROVE  Ahead(q, Oldest(q), i)
<1>1. Len(q) \in Nat /\ 1 \in 1..Len(q) /\ Len(q) - 1 \in Nat
  BY EmptySeq, LenProperties
<1> DEFINE d == Dequeue(q)
<1>2. Len(d) = Len(q) - 1 /\ \A m \in 1..(Len(q) - 1) : d[m] = q[m + 1]
  <2>1. \A m \in 1..(Len(q) - 1) : ~(m < 1) /\ m + 1 \in 1..Len(q)
    BY <1>1
  <2>2. d = [m \in 1..(Len(q) - 1) |-> q[m + 1]]
    BY <2>1 DEF Dequeue, Drop
  <2>3. d \in [1..(Len(q) - 1) -> S]
    BY <2>1, <2>2, ElementOfSeq
  <2>4. d \in Seq(S) /\ DOMAIN d = 1..(Len(q) - 1)
    BY <1>1, <2>3, SeqDef
  <2>5. Len(d) = Len(q) - 1
    BY <1>1, <2>4, LenProperties
  <2> HIDE DEF d
  <2> QED BY <2>2, <2>5
<1> HIDE DEF d
<1>3. PICK m \in 1..(Len(q) - 1) : d[m] = i
  BY <1>2 DEF Holds, d
<1>4. m + 1 \in 1..Len(q) /\ 1 < m + 1 /\ q[m + 1] = i
  BY <1>1, <1>2, <1>3
<1> QED BY <1>1, <1>4 DEF Ahead, Oldest
=============================================================================
