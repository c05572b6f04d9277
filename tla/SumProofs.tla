------------------------------ MODULE SumProofs ------------------------------
(***************************************************************************)
(* Facts that proofs about counts and sums need: induction by least        *)
(* counterexample, and what SumFunctionOnSet of module Functions, which    *)
(* recurs on an arbitrary order of the set, does to unions.                *)
(***************************************************************************)
EXTENDS Integers, FiniteSets, FiniteSetsExt, Functions, FiniteSetTheorems, WellFoundedInduction,
        TLAPS

(* A nonempty set of naturals has a least element. *)
LEMMA LeastExists ==
  ASSUME NEW T, T \subseteq Nat, T # {}
  PROVE  \E x \in T : \A y \in T : x <= y
<1> DEFINE R == OpToRel(<, Nat)
<1>1. IsWellFoundedOn(R, Nat)
  BY NatLessThanWellFounded
<1>2. \E x \in T : \A y \in T : ~(<<y, x>> \in R)
  <2> HIDE DEF R
  <2> QED BY <1>1, WFMin
<1>3. \A x, y \in Nat : y < x => <<y, x>> \in R
  BY DEF OpToRel
<1>4. PICK x \in T : \A y \in T : ~(<<y, x>> \in R)
  BY <1>2
<1>5. ASSUME NEW y \in T PROVE x <= y
  <2>1. x \in Nat /\ y \in Nat /\ ~(<<y, x>> \in R)
    BY <1>4
  <2> HIDE DEF R
  <2>2. ~(y < x)
    BY <2>1, <1>3, Zenon
  <2> QED BY <2>1, <2>2
<1> QED BY <1>5

(* A nonempty set of naturals that is bounded has a greatest element. *)
LEMMA GreatestExists ==
  ASSUME NEW T, NEW b \in Nat, T \subseteq 0 .. b, T # {}
  PROVE  \E x \in T : \A y \in T : y <= x
<1> DEFINE D == {y \in 0 .. b : b - y \in T}
<1>1. D \subseteq Nat /\ D # {}
  <2>1. PICK x \in T : TRUE
    OBVIOUS
  <2>2. x \in 0 .. b /\ b - x \in 0 .. b /\ b - (b - x) = x
    BY <2>1
  <2>3. b - x \in D /\ D \subseteq Nat
    BY <2>2
  <2> HIDE DEF D
  <2> QED BY <2>3
<1>2. PICK z \in D : \A y \in D : z <= y
  BY <1>1, LeastExists
<1>3. z \in 0 .. b /\ b - z \in T
  BY <1>2
<1>4. ASSUME NEW y \in T PROVE y <= b - z
  <2>1. y \in 0 .. b /\ b - y \in 0 .. b /\ b - (b - y) = y
    OBVIOUS
  <2>2. z <= b - y
    BY <1>2, <2>1
  <2> QED BY <2>1, <2>2, <1>3
<1> QED BY <1>3, <1>4

(* Of a nonempty set of subsets of a finite set, one is a smallest. *)
LEMMA SmallestExists ==
  ASSUME NEW S, IsFiniteSet(S), NEW C \in SUBSET SUBSET S, C # {}
  PROVE  \E x \in C : /\ IsFiniteSet(x) /\ Cardinality(x) \in Nat
                      /\ \A y \in C : Cardinality(y) \in Nat /\ Cardinality(x) <= Cardinality(y)
<1> DEFINE T == {n \in Nat : \E x \in C : Cardinality(x) = n}
<1>1. \A x \in C : IsFiniteSet(x) /\ Cardinality(x) \in Nat
  BY FS_Subset, FS_CardinalityType
<1>2. T \subseteq Nat /\ T # {}
  <2>1. PICK x \in C : TRUE
    OBVIOUS
  <2>2. Cardinality(x) \in T
    BY <2>1, <1>1
  <2> QED BY <2>2
<1>3. PICK n \in T : \A m \in T : n <= m
  BY <1>2, LeastExists
<1>4. PICK x \in C : Cardinality(x) = n
  BY <1>3
<1>5. ASSUME NEW y \in C PROVE Cardinality(x) <= Cardinality(y)
  <2>1. Cardinality(y) \in T
    BY <1>1
  <2> QED BY <2>1, <1>3, <1>4
<1> QED BY <1>1, <1>4, <1>5

(* The function that a sum recurs on. *)
Picked(s) == CHOOSE x \in s : TRUE
SumStep(F, g, s) == IF s = {} THEN 0 ELSE F[Picked(s)] + g[s \ {Picked(s)}]
IsSum(F, S, g) == g = [s \in SUBSET S |-> SumStep(F, g, s)]

LEMMA PickedIs ==
  ASSUME NEW S, IsFiniteSet(S), NEW s \in SUBSET S, s # {}
  PROVE  /\ Picked(s) \in s /\ Picked(s) \in S /\ s \ {Picked(s)} \in SUBSET S
         /\ Cardinality(s) \in Nat /\ Cardinality(s \ {Picked(s)}) = Cardinality(s) - 1
         /\ Cardinality(s \ {Picked(s)}) \in Nat
<1> DEFINE p == Picked(s)
<1>1. p \in s
  BY DEF Picked
<1> HIDE DEF p
<1>2. IsFiniteSet(s) /\ Cardinality(s) \in Nat
  BY FS_Subset, FS_CardinalityType
<1>3. IsFiniteSet(s \ {p}) /\ Cardinality(s \ {p}) = Cardinality(s) - 1
  BY <1>1, <1>2, FS_RemoveElement
<1>4. Cardinality(s \ {p}) \in Nat
  BY <1>3, FS_CardinalityType
<1> QED BY <1>1, <1>2, <1>3, <1>4 DEF p

(* It exists: for the subsets of one more element at a time. *)
LEMMA SumExists ==
  ASSUME NEW F, NEW S, IsFiniteSet(S)
  PROVE  \E g : IsSum(F, S, g)
<1> DEFINE Upto(n, g) ==
      /\ g = [s \in SUBSET S |-> g[s]]
      /\ \A s \in SUBSET S : Cardinality(s) <= n => g[s] = SumStep(F, g, s)
<1> DEFINE T == {n \in Nat : ~\E g : Upto(n, g)}
<1>0. Cardinality(S) \in Nat /\ \A s \in SUBSET S : /\ Cardinality(s) \in Nat /\ IsFiniteSet(s)
                                                  /\ Cardinality(s) <= Cardinality(S)
  BY FS_CardinalityType, FS_Subset
<1>1. ASSUME T # {} PROVE FALSE
  <2>1. PICK n \in T : \A m \in T : n <= m
    <3>1. T \subseteq Nat
      OBVIOUS
    <3> QED BY <3>1, <1>1, LeastExists
  <2>2. n \in Nat /\ ~\E g : Upto(n, g)
    BY <2>1
  <2>3. CASE n = 0
    <3> DEFINE g == [s \in SUBSET S |-> 0]
    <3>1. \A s \in SUBSET S : g[s] = 0
      OBVIOUS
    <3>2. g = [s \in SUBSET S |-> g[s]]
      OBVIOUS
    <3>3. \A s \in SUBSET S : Cardinality(s) <= 0 => s = {}
      BY <1>0, FS_EmptySet
    <3> HIDE DEF g
    <3>4. Upto(0, g)
      BY <3>1, <3>2, <3>3 DEF SumStep
    <3> HIDE DEF Upto
    <3> QED BY <3>4, <2>2, <2>3
  <2>4. CASE n # 0
    <3>1. n - 1 \in Nat /\ n - 1 \notin T
      <4> HIDE DEF T, Upto
      <4> QED BY <2>1, <2>2, <2>4
    <3>2. PICK h : Upto(n - 1, h)
      BY <3>1
    <3> DEFINE g == [s \in SUBSET S |-> SumStep(F, h, s)]
    <3>3. \A s \in SUBSET S : g[s] = SumStep(F, h, s)
      OBVIOUS
    <3>4. g = [s \in SUBSET S |-> g[s]]
      OBVIOUS
    <3> HIDE DEF g
    <3>5. \A s \in SUBSET S : Cardinality(s) <= n - 1 => g[s] = h[s]
      BY <3>2, <3>3
    <3>6. ASSUME NEW s \in SUBSET S, Cardinality(s) <= n PROVE g[s] = SumStep(F, g, s)
      <4>1. CASE s = {}
        BY <4>1, <3>3 DEF SumStep
      <4>2. CASE s # {}
        <5> DEFINE r == s \ {Picked(s)}
        <5>1. r \in SUBSET S /\ Cardinality(r) <= n - 1
          <6>1. /\ r \in SUBSET S /\ Cardinality(s) \in Nat /\ Cardinality(r) \in Nat
                /\ Cardinality(r) = Cardinality(s) - 1
            BY <4>2, PickedIs
          <6> QED BY <6>1, <3>6, <2>2
        <5>2. g[r] = h[r]
          BY <5>1, <3>5
        <5>3. g[s] = F[Picked(s)] + h[r]
          BY <4>2, <3>3 DEF SumStep
        <5> QED BY <5>2, <5>3, <4>2 DEF SumStep
      <4> QED BY <4>1, <4>2
    <3>7. Upto(n, g)
      BY <3>4, <3>6
    <3> HIDE DEF Upto
    <3> QED BY <3>7, <2>2
  <2> QED BY <2>3, <2>4
<1>2. PICK g : Upto(Cardinality(S), g)
  <2>1. Cardinality(S) \notin T
    BY <1>1
  <2> QED BY <2>1, <1>0
<1>3. \A s \in SUBSET S : g[s] = SumStep(F, g, s)
  BY <1>0, <1>2
<1>4. g = [s \in SUBSET S |-> SumStep(F, g, s)]
  BY <1>2, <1>3
<1> QED BY <1>4 DEF IsSum

LEMMA SumValue ==
  ASSUME NEW F, NEW S, NEW g, IsSum(F, S, g), NEW s \in SUBSET S
  PROVE  g[s] = SumStep(F, g, s)
<1>1. \A r \in SUBSET S : [q \in SUBSET S |-> SumStep(F, g, q)][r] = SumStep(F, g, r)
  OBVIOUS
<1> QED BY <1>1 DEF IsSum

(* Two such functions agree where both are defined. *)
LEMMA SumUnique ==
  ASSUME NEW F, NEW S, IsFiniteSet(S), NEW R \in SUBSET S,
         NEW g, IsSum(F, S, g), NEW h, IsSum(F, R, h), NEW s \in SUBSET R
  PROVE  g[s] = h[s]
<1> DEFINE C == {r \in SUBSET R : g[r] # h[r]}
<1>1. ASSUME C # {} PROVE FALSE
  <2>0. IsFiniteSet(R) /\ C \in SUBSET SUBSET R
    BY FS_Subset
  <2>1. PICK r \in C : /\ IsFiniteSet(r) /\ Cardinality(r) \in Nat
                       /\ \A y \in C : Cardinality(y) \in Nat /\ Cardinality(r) <= Cardinality(y)
    BY <1>1, <2>0, SmallestExists
  <2>2. r \in SUBSET R /\ r \in SUBSET S /\ g[r] # h[r]
    BY <2>1
  <2>3. g[r] = SumStep(F, g, r) /\ h[r] = SumStep(F, h, r)
    BY <2>2, SumValue
  <2>4. r # {}
    BY <2>2, <2>3 DEF SumStep
  <2> DEFINE q == r \ {Picked(r)}
  <2>5. q \in SUBSET R /\ Cardinality(q) = Cardinality(r) - 1 /\ Cardinality(q) \in Nat
    BY <2>0, <2>2, <2>4, PickedIs
  <2>6. q \notin C
    BY <2>1, <2>5
  <2>7. g[q] = h[q]
    BY <2>5, <2>6
  <2> QED BY <2>2, <2>3, <2>4, <2>7 DEF SumStep
<1> QED BY <1>1

LEMMA SumIs ==
  ASSUME NEW F, NEW S, IsFiniteSet(S)
  PROVE  \E g : IsSum(F, S, g) /\ SumFunctionOnSet(F, S) = g[S]
<1> DEFINE G == CHOOSE g : g = [s \in SUBSET S |->
                  IF s = {} THEN 0
                  ELSE F[CHOOSE x \in s : TRUE] + g[s \ {CHOOSE x \in s : TRUE}]]
<1>1. SumFunctionOnSet(F, S) = G[S]
  BY Zenon DEF SumFunctionOnSet, FoldFunctionOnSet, MapThenFoldSet
<1>2. \E g : g = [s \in SUBSET S |->
                  IF s = {} THEN 0
                  ELSE F[CHOOSE x \in s : TRUE] + g[s \ {CHOOSE x \in s : TRUE}]]
  <2>1. PICK g : IsSum(F, S, g)
    BY SumExists
  <2>2. g = [s \in SUBSET S |->
                  IF s = {} THEN 0
                  ELSE F[CHOOSE x \in s : TRUE] + g[s \ {CHOOSE x \in s : TRUE}]]
    BY <2>1, Zenon DEF IsSum, SumStep, Picked
  <2> QED BY <2>2, Zenon
<1>3. IsSum(F, S, G)
  BY <1>2, Zenon DEF IsSum, SumStep, Picked
<1> QED BY <1>1, <1>3

LEMMA SumEmpty == ASSUME NEW F PROVE SumFunctionOnSet(F, {}) = 0
<1>1. PICK g : IsSum(F, {}, g) /\ SumFunctionOnSet(F, {}) = g[{}]
  BY FS_EmptySet, SumIs
<1>2. g[{}] = SumStep(F, g, {})
  BY <1>1, SumValue
<1> QED BY <1>1, <1>2 DEF SumStep

LEMMA SumPicked ==
  ASSUME NEW F, NEW S, IsFiniteSet(S), S # {}
  PROVE  SumFunctionOnSet(F, S) = F[Picked(S)] + SumFunctionOnSet(F, S \ {Picked(S)})
<1> DEFINE R == S \ {Picked(S)}
<1>0. IsFiniteSet(R) /\ R \in SUBSET S
  BY FS_Subset
<1>1. PICK g : IsSum(F, S, g) /\ SumFunctionOnSet(F, S) = g[S]
  BY SumIs
<1>2. PICK h : IsSum(F, R, h) /\ SumFunctionOnSet(F, R) = h[R]
  BY <1>0, SumIs
<1>3. g[S] = F[Picked(S)] + g[R]
  <2>1. g[S] = SumStep(F, g, S)
    BY <1>1, SumValue
  <2> QED BY <2>1 DEF SumStep
<1>4. g[R] = h[R]
  BY <1>0, <1>1, <1>2, SumUnique
<1> QED BY <1>1, <1>2, <1>3, <1>4

(* A sum of members of C is in C when C is closed under addition. *)
LEMMA SumType ==
  ASSUME NEW F, NEW S, IsFiniteSet(S), NEW C, 0 \in C, \A a, b \in C : a + b \in C,
         \A x \in S : F[x] \in C
  PROVE  SumFunctionOnSet(F, S) \in C
<1> DEFINE D == {r \in SUBSET S : SumFunctionOnSet(F, r) \notin C}
<1>1. ASSUME D # {} PROVE FALSE
  <2>0. D \in SUBSET SUBSET S
    OBVIOUS
  <2>1. PICK r \in D : /\ IsFiniteSet(r) /\ Cardinality(r) \in Nat
                       /\ \A y \in D : Cardinality(y) \in Nat /\ Cardinality(r) <= Cardinality(y)
    BY <1>1, <2>0, SmallestExists
  <2>2. r \in SUBSET S /\ SumFunctionOnSet(F, r) \notin C
    BY <2>1
  <2>3. r # {}
    BY <2>2, SumEmpty
  <2> DEFINE q == r \ {Picked(r)}
  <2>4. /\ q \in SUBSET S /\ Cardinality(q) = Cardinality(r) - 1 /\ Cardinality(q) \in Nat
        /\ Picked(r) \in S
    BY <2>2, <2>3, PickedIs
  <2>5. q \notin D
    BY <2>1, <2>4
  <2>6. SumFunctionOnSet(F, q) \in C /\ F[Picked(r)] \in C
    BY <2>4, <2>5
  <2>7. SumFunctionOnSet(F, r) = F[Picked(r)] + SumFunctionOnSet(F, q)
    BY <2>1, <2>3, SumPicked
  <2> HIDE DEF q, D
  <2> QED BY <2>2, <2>6, <2>7
<1> QED BY <1>1

(* The order of the additions does not matter. *)
LEMMA SumAdd ==
  ASSUME NEW F, NEW S, IsFiniteSet(S), \A x \in S : F[x] \in Int,
         NEW A \in SUBSET S, NEW z \in S \ A
  PROVE  SumFunctionOnSet(F, A \cup {z}) = F[z] + SumFunctionOnSet(F, A)
<1> DEFINE Adds(r) == \A x \in S \ r : SumFunctionOnSet(F, r \cup {x}) = F[x] + SumFunctionOnSet(F, r)
<1> DEFINE D == {r \in SUBSET S : ~Adds(r)}
<1>0. \A r \in SUBSET S : SumFunctionOnSet(F, r) \in Int /\ IsFiniteSet(r)
  <2> SUFFICES ASSUME NEW r \in SUBSET S PROVE SumFunctionOnSet(F, r) \in Int /\ IsFiniteSet(r)
    OBVIOUS
  <2>1. /\ IsFiniteSet(r) /\ 0 \in Int /\ (\A a, b \in Int : a + b \in Int)
        /\ \A x \in r : F[x] \in Int
    BY FS_Subset
  <2> QED BY <2>1, SumType
<1>1. ASSUME D # {} PROVE FALSE
  <2>0. D \in SUBSET SUBSET S
    OBVIOUS
  <2>1. PICK r \in D : /\ IsFiniteSet(r) /\ Cardinality(r) \in Nat
                       /\ \A y \in D : Cardinality(y) \in Nat /\ Cardinality(r) <= Cardinality(y)
    BY <1>1, <2>0, SmallestExists
  <2>2. r \in SUBSET S /\ ~Adds(r)
    BY <2>1
  <2>3. PICK x \in S \ r : SumFunctionOnSet(F, r \cup {x}) # F[x] + SumFunctionOnSet(F, r)
    BY <2>2
  <2> DEFINE u == r \cup {x}
  <2> DEFINE p == Picked(u)
  <2>4. u \in SUBSET S /\ u # {} /\ IsFiniteSet(u) /\ x \notin r
    BY <1>0, <2>2, <2>3
  <2>5. p \in u
    <3> HIDE DEF u
    <3> QED BY <2>4, PickedIs
  <2>6. SumFunctionOnSet(F, u) = F[p] + SumFunctionOnSet(F, u \ {p})
    BY <2>4, SumPicked
  <2> HIDE DEF p
  <2>7. CASE p = x
    <3>1. u \ {p} = r
      BY <2>4, <2>7
    <3> QED BY <3>1, <2>3, <2>6, <2>7
  <2>8. CASE p # x
    <3> DEFINE q == r \ {p}
    <3>1. p \in r /\ q \in SUBSET S /\ p \in S \ q /\ x \in S \ q /\ u \ {p} = q \cup {x} /\ r = q \cup {p}
      BY <2>2, <2>3, <2>4, <2>5, <2>8
    <3>2. Cardinality(q) = Cardinality(r) - 1
      BY <2>1, <3>1, FS_RemoveElement
    <3>3. q \notin D
      BY <2>1, <3>2
    <3>4. Adds(q)
      BY <3>1, <3>3
    <3> HIDE DEF q, u, D
    <3>5. /\ SumFunctionOnSet(F, q \cup {x}) = F[x] + SumFunctionOnSet(F, q)
          /\ SumFunctionOnSet(F, q \cup {p}) = F[p] + SumFunctionOnSet(F, q)
      BY <3>1, <3>4
    <3>6. F[x] \in Int /\ F[p] \in Int /\ SumFunctionOnSet(F, q) \in Int
      BY <3>1, <1>0
    <3>7. SumFunctionOnSet(F, u) = F[p] + (F[x] + SumFunctionOnSet(F, q))
      BY <3>1, <3>5, <2>6
    <3>8. SumFunctionOnSet(F, r) = F[p] + SumFunctionOnSet(F, q)
      BY <3>1, <3>5
    <3>9. SumFunctionOnSet(F, u) = F[x] + SumFunctionOnSet(F, r)
      <4> DEFINE a == SumFunctionOnSet(F, q)
      <4> HIDE DEF a
      <4>1. a \in Int /\ SumFunctionOnSet(F, u) = F[p] + (F[x] + a) /\ SumFunctionOnSet(F, r) = F[p] + a
        BY <3>6, <3>7, <3>8 DEF a
      <4> QED BY <4>1, <3>6
    <3> QED BY <3>9, <2>3 DEF u
  <2> QED BY <2>7, <2>8
<1>2. A \notin D
  BY <1>1
<1> QED BY <1>2

LEMMA SumUnion ==
  ASSUME NEW F, NEW S, IsFiniteSet(S), \A x \in S : F[x] \in Int,
         NEW A \in SUBSET S, NEW B \in SUBSET S, A \cap B = {}
  PROVE  SumFunctionOnSet(F, A \cup B) = SumFunctionOnSet(F, A) + SumFunctionOnSet(F, B)
<1> DEFINE Splits(r) == SumFunctionOnSet(F, A \cup r) = SumFunctionOnSet(F, A) + SumFunctionOnSet(F, r)
<1> DEFINE D == {r \in SUBSET B : ~Splits(r)}
<1>0. \A r \in SUBSET S : SumFunctionOnSet(F, r) \in Int /\ IsFiniteSet(r)
  <2> SUFFICES ASSUME NEW r \in SUBSET S PROVE SumFunctionOnSet(F, r) \in Int /\ IsFiniteSet(r)
    OBVIOUS
  <2>1. /\ IsFiniteSet(r) /\ 0 \in Int /\ (\A a, b \in Int : a + b \in Int)
        /\ \A x \in r : F[x] \in Int
    BY FS_Subset
  <2> QED BY <2>1, SumType
<1>1. ASSUME D # {} PROVE FALSE
  <2>0. D \in SUBSET SUBSET S
    OBVIOUS
  <2>1. PICK r \in D : /\ IsFiniteSet(r) /\ Cardinality(r) \in Nat
                       /\ \A y \in D : Cardinality(y) \in Nat /\ Cardinality(r) <= Cardinality(y)
    BY <1>1, <2>0, SmallestExists
  <2>2. r \in SUBSET B /\ r \in SUBSET S /\ ~Splits(r)
    BY <2>1
  <2>3. CASE r = {}
    <3>1. A \cup r = A /\ SumFunctionOnSet(F, r) = 0 /\ SumFunctionOnSet(F, A) \in Int
      BY <2>3, SumEmpty, <1>0
    <3>2. SumFunctionOnSet(F, A \cup r) = SumFunctionOnSet(F, A) + 0
      BY <3>1
    <3> QED BY <3>1, <3>2, <2>2
  <2>4. CASE r # {}
    <3> DEFINE p == Picked(r)
    <3> DEFINE q == r \ {p}
    <3>1. p \in r /\ q \in SUBSET S /\ Cardinality(q) = Cardinality(r) - 1
      BY <2>2, <2>4, PickedIs
    <3> HIDE DEF p
    <3>2. q \in SUBSET B /\ q \notin D
      BY <2>1, <2>2, <3>1
    <3>3. Splits(q)
      BY <3>2
    <3>4. /\ A \cup q \in SUBSET S /\ p \in S \ (A \cup q) /\ p \in S \ q
          /\ A \cup r = (A \cup q) \cup {p} /\ r = q \cup {p}
      BY <2>2, <3>1
    <3> HIDE DEF q, D
    <3>5. /\ SumFunctionOnSet(F, (A \cup q) \cup {p}) = F[p] + SumFunctionOnSet(F, A \cup q)
          /\ SumFunctionOnSet(F, q \cup {p}) = F[p] + SumFunctionOnSet(F, q)
      <4> DEFINE w == A \cup q
      <4>1. w \in SUBSET S /\ p \in S \ w
        BY <3>4
      <4> HIDE DEF w
      <4>2. SumFunctionOnSet(F, w \cup {p}) = F[p] + SumFunctionOnSet(F, w)
        BY <4>1, SumAdd
      <4>3. SumFunctionOnSet(F, q \cup {p}) = F[p] + SumFunctionOnSet(F, q)
        BY <3>1, <3>4, SumAdd
      <4> QED BY <4>2, <4>3 DEF w
    <3> DEFINE a == SumFunctionOnSet(F, A)
    <3> DEFINE b == SumFunctionOnSet(F, q)
    <3>6. a \in Int /\ b \in Int /\ F[p] \in Int
      BY <1>0, <3>1, <3>4
    <3>7. SumFunctionOnSet(F, A \cup r) = F[p] + (a + b) /\ SumFunctionOnSet(F, r) = F[p] + b
      BY <3>3, <3>4, <3>5
    <3> HIDE DEF a, b
    <3>8. F[p] + (a + b) = a + (F[p] + b)
      BY <3>6
    <3> QED BY <3>7, <3>8, <2>2 DEF a
  <2> QED BY <2>3, <2>4
<1>2. B \notin D
  BY <1>1
<1> QED BY <1>2

LEMMA SumSingle ==
  ASSUME NEW F, NEW z, F[z] \in Int
  PROVE  SumFunctionOnSet(F, {z}) = F[z]
<1>1. IsFiniteSet({z}) /\ Picked({z}) = z /\ {z} \ {z} = {}
  BY FS_Singleton DEF Picked
<1>2. SumFunctionOnSet(F, {z}) = F[z] + SumFunctionOnSet(F, {})
  BY <1>1, SumPicked
<1> QED BY <1>2, SumEmpty
=============================================================================
