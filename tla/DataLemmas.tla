----------------------------- MODULE DataLemmas -----------------------------
(***************************************************************************)
(* Induction and recursion on the naturals, stated with sets and functions *)
(* in place of operators, so that first-order provers can instantiate      *)
(* them, and what it gives: the positions that a loop keeps, in order.     *)
(* The induction is the pigeonhole principle in disguise: a set that is    *)
(* closed under successor and leaves out n would have the numbers up to n  *)
(* injected, by successor, in themselves without 0.                        *)
(***************************************************************************)
EXTENDS Selections, FiniteSetTheorems, SequenceTheorems, TLAPS

(* A set that has 0, and with a number the next, has all.                  *)
LEMMA SetInduction ==
  ASSUME NEW S, 0 \in S, \A n \in Nat : n \in S => n + 1 \in S
  PROVE  Nat \subseteq S
  <1> SUFFICES ASSUME NEW n \in Nat, n \notin S PROVE FALSE
    OBVIOUS
  <1> DEFINE A == {k \in 0..n : k \in S}
             B == A \ {0}
             next == [k \in A |-> k + 1]
  <1>1. IsFiniteSet(A) /\ 0 \in A
    <2>1. IsFiniteSet(0..n)
      BY FS_Interval
    <2>2. QED
      BY <2>1, FS_Subset
  <1>2. next \in [A -> B]
    OBVIOUS
  <1>3. Cardinality(B) = Cardinality(A) - 1 /\ IsFiniteSet(B)
    BY <1>1, FS_RemoveElement
  <1>4. Cardinality(B) < Cardinality(A)
    BY <1>1, <1>3, FS_CardinalityType
  <1>5. \A x, y \in A : x # y => next[x] # next[y]
    OBVIOUS
  <1>6. \E x, y \in A : x # y /\ next[x] = next[y]
    <2> HIDE DEF A, B, next
    <2>1. QED
      BY <1>1, <1>2, <1>3, <1>4, FS_PigeonHole
  <1>7. QED
    BY <1>5, <1>6

(* A function given by its value at 0 and by a step to the next value.     *)
StepFunctions(V) == [Nat -> [V -> V]]

Recursive(f, V, a, G) ==
  f \in [Nat -> V] /\ f[0] = a /\ \A n \in Nat : f[n + 1] = G[n][f[n]]

(* Such a function exists.                                                 *)
LEMMA RecursionExists ==
  ASSUME NEW V, NEW a \in V, NEW G \in StepFunctions(V)
  PROVE  \E f : Recursive(f, V, a, G)
  <1> USE DEF StepFunctions
  <1> DEFINE Begins(n, g) == /\ g \in [0..n -> V] /\ g[0] = a
                             /\ \A m \in 0..(n - 1) : g[m + 1] = G[m][g[m]]
  <1>1. \A n \in Nat : \E g : Begins(n, g)
    <2> DEFINE S == {n \in Nat : \E g : Begins(n, g)}
    <2>1. 0 \in S
      <3>1. Begins(0, [m \in 0..0 |-> a])
        OBVIOUS
      <3>2. QED
        BY <3>1
    <2>2. ASSUME NEW n \in Nat, n \in S PROVE n + 1 \in S
      <3>1. PICK g : Begins(n, g)
        BY <2>2
      <3> DEFINE h == [m \in 0..(n + 1) |-> IF m = n + 1 THEN G[n][g[n]] ELSE g[m]]
      <3>2. h \in [0..(n + 1) -> V]
        BY <3>1
      <3>3. h[0] = a
        BY <3>1
      <3>4. ASSUME NEW m \in 0..((n + 1) - 1) PROVE h[m + 1] = G[m][h[m]]
        <4>1. h[m] = g[m]
          OBVIOUS
        <4>2. CASE m = n
          BY <4>1, <4>2
        <4>3. CASE m # n
          <5>1. m \in 0..(n - 1) /\ h[m + 1] = g[m + 1]
            BY <4>3
          <5>2. QED
            BY <5>1, <4>1, <3>1
        <4>4. QED
          BY <4>2, <4>3
      <3>5. Begins(n + 1, h)
        BY <3>2, <3>3, <3>4
      <3>6. QED
        <4> HIDE DEF Begins, h
        <4>1. QED
          BY <3>5
    <2>3. Nat \subseteq S
      <3> HIDE DEF S
      <3>1. QED
        BY <2>1, <2>2, SetInduction
    <2>4. QED
      BY <2>3
  <1>2. ASSUME NEW n \in Nat, NEW p \in Nat, n <= p, NEW g, NEW h, Begins(n, g), Begins(p, h)
        PROVE  g[n] = h[n]
    <2> DEFINE S == {m \in Nat : m <= n => g[m] = h[m]}
    <2>1. 0 \in S
      BY <1>2
    <2>2. ASSUME NEW m \in Nat, m \in S PROVE m + 1 \in S
      <3> SUFFICES ASSUME m + 1 <= n PROVE g[m + 1] = h[m + 1]
        OBVIOUS
      <3>1. m \in 0..(n - 1) /\ m \in 0..(p - 1) /\ g[m] = h[m]
        BY <1>2, <2>2
      <3>2. QED
        BY <3>1, <1>2
    <2>3. Nat \subseteq S
      <3> HIDE DEF S
      <3>1. QED
        BY <2>1, <2>2, SetInduction
    <2>4. QED
      BY <2>3
  <1> DEFINE Chosen(n) == CHOOSE g : Begins(n, g)
             f == [n \in Nat |-> Chosen(n)[n]]
  <1>3. \A n \in Nat : Begins(n, Chosen(n))
    <2> HIDE DEF Begins
    <2>1. QED
      BY <1>1
  <1> HIDE DEF Chosen
  <1>4. f \in [Nat -> V]
    BY <1>3
  <1>5. f[0] = a
    BY <1>3
  <1>6. ASSUME NEW n \in Nat PROVE f[n + 1] = G[n][f[n]]
    <2>1. Chosen(n + 1)[n + 1] = G[n][Chosen(n + 1)[n]]
      BY <1>3
    <2>2. Chosen(n)[n] = Chosen(n + 1)[n]
      <3>1. n + 1 \in Nat /\ n <= n + 1
        OBVIOUS
      <3> HIDE DEF Begins
      <3>2. QED
        BY <1>2, <1>3, <3>1
    <2>3. QED
      BY <2>1, <2>2
  <1>7. QED
    BY <1>4, <1>5, <1>6 DEF Recursive

-----------------------------------------------------------------------------
(* Selections.                                                             *)

Before(C, i) == {j \in C : j < i}

LEMMA SubsetsFinite ==
  ASSUME NEW m \in Nat, NEW C \in SUBSET (1..m)
  PROVE  IsFiniteSet(C) /\ Cardinality(C) \in Nat /\ Cardinality(C) <= m
  <1>1. IsFiniteSet(1..m) /\ Cardinality(1..m) = m
    BY FS_Interval
  <1>2. QED
    BY <1>1, FS_Subset, FS_CardinalityType

(* A later position has more before it.                                    *)
LEMMA RanksDiffer ==
  ASSUME NEW m \in Nat, NEW C \in SUBSET (1..m), NEW i \in C, NEW k \in C, i < k
  PROVE  Cardinality(Before(C, i)) < Cardinality(Before(C, k))
  <1>1. Before(C, i) \in SUBSET (1..m) /\ Before(C, k) \in SUBSET (1..m)
    BY DEF Before
  <1>2. Before(C, i) \in SUBSET Before(C, k)
    <2>1. \A j \in C : j \in Int /\ i \in Int /\ k \in Int
      OBVIOUS
    <2>2. \A j \in C : j < i => j < k
      BY <2>1
    <2>3. QED
      BY <2>2 DEF Before
  <1>3. i \in Before(C, k) /\ i \notin Before(C, i)
    BY DEF Before
  <1>4. /\ Cardinality(Before(C, i)) <= Cardinality(Before(C, k))
        /\ Cardinality(Before(C, k)) = Cardinality(Before(C, i)) => Before(C, k) = Before(C, i)
    BY <1>1, <1>2, SubsetsFinite, FS_Subset
  <1>5. Cardinality(Before(C, i)) \in Nat /\ Cardinality(Before(C, k)) \in Nat
    BY <1>1, SubsetsFinite
  <1>6. QED
    BY <1>3, <1>4, <1>5

(* Every rank is taken.                                                    *)
LEMMA RanksTaken ==
  \A m \in Nat : \A C \in SUBSET (1..m) : \A n \in 1..Cardinality(C) :
    \E i \in C : Cardinality(Before(C, i)) = n - 1
  <1> DEFINE Taken(m) == \A C \in SUBSET (1..m) : \A n \in 1..Cardinality(C) :
                           \E i \in C : Cardinality(Before(C, i)) = n - 1
             S == {m \in Nat : Taken(m)}
  <1>1. 0 \in S
    <2>1. ASSUME NEW C \in SUBSET (1..0) PROVE Cardinality(C) = 0
      <3>1. C = {}
        OBVIOUS
      <3>2. QED
        BY <3>1, FS_EmptySet
    <2>2. QED
      BY <2>1
  <1>2. ASSUME NEW m \in Nat, m \in S PROVE m + 1 \in S
    <2> SUFFICES ASSUME NEW C \in SUBSET (1..(m + 1)), NEW n \in 1..Cardinality(C)
                 PROVE  \E i \in C : Cardinality(Before(C, i)) = n - 1
      OBVIOUS
    <2>1. CASE m + 1 \notin C
      <3>1. C \in SUBSET (1..m)
        BY <2>1
      <3>2. QED
        BY <1>2, <3>1
    <2>2. CASE m + 1 \in C
      <3> DEFINE D == C \ {m + 1}
      <3>1. D \in SUBSET (1..m)
        OBVIOUS
      <3>2. Cardinality(D) = Cardinality(C) - 1 /\ Cardinality(C) \in Nat
        BY <2>2, SubsetsFinite, FS_RemoveElement
      <3>3. \A i \in C : Before(C, i) = Before(D, i)
        BY <3>1 DEF Before
      <3>4. Before(C, m + 1) = D
        <4>1. \A j \in C : j < m + 1 <=> j # m + 1
          OBVIOUS
        <4>2. QED
          BY <4>1 DEF Before
      <3> HIDE DEF D
      <3>5. CASE n <= Cardinality(D)
        <4>1. n \in 1..Cardinality(D)
          BY <3>2, <3>5
        <4>2. PICK i \in D : Cardinality(Before(D, i)) = n - 1
          BY <1>2, <3>1, <4>1
        <4>3. i \in C
          BY <4>2 DEF D
        <4>4. QED
          BY <3>3, <4>2, <4>3
      <3>6. CASE ~(n <= Cardinality(D))
        <4>1. n - 1 = Cardinality(D)
          BY <3>2, <3>6
        <4>2. QED
          BY <2>2, <3>4, <4>1
      <3>7. QED
        BY <3>5, <3>6
    <2>3. QED
      BY <2>1, <2>2
  <1>3. Nat \subseteq S
    <2> HIDE DEF S
    <2>1. QED
      BY <1>1, <1>2, SetInduction
  <1>4. QED
    BY <1>3

LEMMA NthIs ==
  ASSUME NEW m \in Nat, NEW C \in SUBSET (1..m), NEW n \in 1..Cardinality(C)
  PROVE  Nth(C, n) \in C /\ Cardinality(Before(C, Nth(C, n))) = n - 1
  <1>1. \E i \in C : Cardinality({j \in C : j < i}) = n - 1
    BY RanksTaken DEF Before
  <1>2. QED
    BY <1>1 DEF Nth, Before

LEMMA NthOnly ==
  ASSUME NEW m \in Nat, NEW C \in SUBSET (1..m), NEW n \in 1..Cardinality(C),
         NEW i \in C, Cardinality(Before(C, i)) = n - 1
  PROVE  Nth(C, n) = i
  <1> DEFINE k == Nth(C, n)
  <1>1. k \in C /\ Cardinality(Before(C, k)) = n - 1
    BY NthIs
  <1> HIDE DEF k
  <1>2. Cardinality(C) \in Nat /\ n - 1 \in Int
    BY SubsetsFinite
  <1>3. ~(i < k) /\ ~(k < i)
    <2>1. i < k => Cardinality(Before(C, i)) < Cardinality(Before(C, k))
      BY <1>1, RanksDiffer
    <2>2. k < i => Cardinality(Before(C, k)) < Cardinality(Before(C, i))
      BY <1>1, RanksDiffer
    <2>3. QED
      BY <1>1, <1>2, <2>1, <2>2
  <1>4. i \in Int /\ k \in Int
    BY <1>1
  <1>5. i = k
    BY <1>3, <1>4
  <1>6. QED
    BY <1>5 DEF k

(* The first positions of a part are those of the whole.                   *)
LEMMA NthOfPart ==
  ASSUME NEW m \in Nat, NEW C \in SUBSET (1..m), NEW k \in Int,
         NEW D, D = {j \in C : j <= k}, NEW n \in 1..Cardinality(D)
  PROVE  Nth(D, n) = Nth(C, n) /\ Nth(D, n) \in D /\ n \in 1..Cardinality(C)
  <1>1. D \in SUBSET (1..m) /\ D \in SUBSET C
    OBVIOUS
  <1>2. Nth(D, n) \in D /\ Cardinality(Before(D, Nth(D, n))) = n - 1
    BY <1>1, NthIs
  <1>3. Before(D, Nth(D, n)) = Before(C, Nth(D, n))
    <2> DEFINE i == Nth(D, n)
    <2>1. i \in Int /\ i <= k /\ \A j \in C : j \in Int
      BY <1>1, <1>2
    <2> HIDE DEF i
    <2>2. \A j \in C : j < i => j \in D
      BY <2>1
    <2>3. Before(D, i) = Before(C, i)
      BY <1>1, <2>2 DEF Before
    <2>4. QED
      BY <2>3 DEF i
  <1>4. Cardinality(D) <= Cardinality(C) /\ Cardinality(D) \in Nat /\ Cardinality(C) \in Nat
    BY <1>1, SubsetsFinite, FS_Subset
  <1>5. n \in 1..Cardinality(C)
    BY <1>4
  <1>6. Nth(C, n) = Nth(D, n)
    <2>1. Nth(D, n) \in C /\ Cardinality(Before(C, Nth(D, n))) = n - 1
      BY <1>1, <1>2, <1>3
    <2>2. QED
      BY <1>5, <2>1, NthOnly
  <1>7. QED
    BY <1>2, <1>5, <1>6

(* One position more: it comes last.                                       *)
LEMMA NthAdded ==
  ASSUME NEW m \in Nat, NEW C \in SUBSET (1..m)
  PROVE  /\ Cardinality(C \cup {m + 1}) = Cardinality(C) + 1
         /\ Nth(C \cup {m + 1}, Cardinality(C) + 1) = m + 1
         /\ \A n \in 1..Cardinality(C) : Nth(C \cup {m + 1}, n) = Nth(C, n)
  <1> DEFINE E == C \cup {m + 1}
  <1>1. E \in SUBSET (1..(m + 1)) /\ m + 1 \in E /\ m + 1 \notin C /\ m + 1 \in Nat
    OBVIOUS
  <1>2. Cardinality(E) = Cardinality(C) + 1 /\ Cardinality(C) \in Nat
    BY <1>1, SubsetsFinite, FS_AddElement
  <1>3. Before(E, m + 1) = C /\ C = {j \in E : j <= m}
    <2>1. \A j \in C : j < m + 1 /\ j <= m
      OBVIOUS
    <2>2. ~(m + 1 < m + 1) /\ ~(m + 1 <= m)
      OBVIOUS
    <2>3. QED
      BY <2>1, <2>2 DEF Before
  <1> HIDE DEF E
  <1>4. Cardinality(C) + 1 \in 1..Cardinality(E)
    BY <1>2
  <1>5. Cardinality(Before(E, m + 1)) = (Cardinality(C) + 1) - 1
    <2>1. Cardinality(Before(E, m + 1)) = Cardinality(C)
      BY <1>3
    <2>2. QED
      BY <1>2, <2>1
  <1>6. Nth(E, Cardinality(C) + 1) = m + 1
    BY <1>1, <1>4, <1>5, NthOnly
  <1>7. ASSUME NEW n \in 1..Cardinality(C) PROVE Nth(E, n) = Nth(C, n)
    <2>1. C = {j \in E : j <= m} /\ m \in Int
      BY <1>3
    <2>2. QED
      BY <1>1, <2>1, NthOfPart
  <1>8. QED
    BY <1>2, <1>6, <1>7 DEF E

(* A selection is a list of as many elements as there are positions.       *)
LEMMA PickedIs ==
  ASSUME NEW m \in Nat, NEW C \in SUBSET (1..m), NEW list
  PROVE  /\ DOMAIN Picked(list, C) = 1..Cardinality(C)
         /\ Len(Picked(list, C)) = Cardinality(C)
         /\ \A n \in 1..Cardinality(C) : Picked(list, C)[n] = list[Nth(C, n)]
         /\ IsList(Picked(list, C))
  <1> DEFINE p == Picked(list, C)
  <1>1. DOMAIN p = 1..Cardinality(C) /\ \A n \in 1..Cardinality(C) : p[n] = list[Nth(C, n)]
    BY DEF Picked
  <1>2. p = [n \in DOMAIN p |-> p[n]]
    BY DEF Picked
  <1> HIDE DEF p
  <1>3. Cardinality(C) \in Nat
    BY SubsetsFinite
  <1>4. p \in [1..Cardinality(C) -> {p[n] : n \in DOMAIN p}]
    BY <1>1, <1>2
  <1>5. IsList(p)
    BY <1>3, <1>4, SeqDef DEF IsList
  <1>6. Len(p) = Cardinality(C)
    BY <1>1, <1>3, <1>5, LenProperties DEF IsList
  <1>7. QED
    BY <1>1, <1>5, <1>6 DEF p

-----------------------------------------------------------------------------
(* Lists.                                                                  *)

LEMMA ListFacts ==
  ASSUME NEW s, IsList(s)
  PROVE  Len(s) \in Nat /\ DOMAIN s = 1..Len(s)
  BY LenProperties DEF IsList

(* A function on the first numbers is a list.                              *)
LEMMA ListIs ==
  ASSUME NEW n \in Nat, NEW f, f = [i \in 1..n |-> f[i]]
  PROVE  IsList(f) /\ Len(f) = n /\ DOMAIN f = 1..n
  <1>1. DOMAIN f = 1..n /\ f \in [1..n -> {f[i] : i \in DOMAIN f}]
    OBVIOUS
  <1>2. IsList(f)
    BY <1>1, SeqDef DEF IsList
  <1>3. QED
    BY <1>1, <1>2, ListFacts

LEMMA BeginningIs ==
  ASSUME NEW s, IsList(s), NEW k \in 0..Len(s)
  PROVE  /\ IsList(SubSeq(s, 1, k)) /\ Len(SubSeq(s, 1, k)) = k /\ DOMAIN SubSeq(s, 1, k) = 1..k
         /\ \A i \in 1..k : SubSeq(s, 1, k)[i] = s[i]
  <1> DEFINE b == SubSeq(s, 1, k)
             V == {s[i] : i \in DOMAIN s}
  <1>1. Len(s) \in Nat /\ DOMAIN s = 1..Len(s)
    BY ListFacts
  <1>2. k \in Nat /\ \A i \in 1..k : s[i] \in V
    BY <1>1
  <1> HIDE DEF V
  <1>3. b \in Seq(V) /\ Len(b) = k /\ \A i \in 1..k : b[i] = s[i]
    <2>1. /\ b \in Seq(V)
          /\ Len(b) = IF 1 <= k THEN k - 1 + 1 ELSE 0
          /\ \A i \in 1..(k - 1 + 1) : b[i] = s[1 + i - 1]
      BY <1>2, SubSeqProperties
    <2>2. QED
      BY <1>2, <2>1
  <1> HIDE DEF b
  <1>4. b = [i \in 1..k |-> b[i]]
    BY <1>3, LenProperties
  <1>5. IsList(b) /\ DOMAIN b = 1..k
    BY <1>2, <1>4, ListIs
  <1>6. QED
    BY <1>3, <1>5 DEF b

LEMMA SameList ==
  ASSUME NEW s, NEW t, IsList(s), IsList(t), Len(s) = Len(t),
         \A i \in 1..Len(s) : s[i] = t[i]
  PROVE  s = t
  <1>1. s = [i \in 1..Len(s) |-> s[i]] /\ t = [i \in 1..Len(t) |-> t[i]]
    BY LenProperties DEF IsList
  <1>2. QED
    BY <1>1
=============================================================================
