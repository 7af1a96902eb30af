--------------------------- MODULE TemplateProofs ---------------------------
(***************************************************************************)
(* Facts about the decisions of module Template that the proofs about the  *)
(* two state machines rest on: the choices the C loops make exist and lie  *)
(* within the template, and the sums they compare behave like sums.        *)
(***************************************************************************)
EXTENDS Template, FiniteSetTheorems, WellFoundedInduction, TLAPS

\* The natural numbers are well ordered.
LEMMA LeastNatural ==
    ASSUME NEW S \in SUBSET Nat, S # {}
    PROVE  \E n \in S : \A m \in S : n <= m
<1>1. \E n \in S : \A m \in S : <<m, n>> \notin OpToRel(<, Nat)
  BY WFMin, NatLessThanWellFounded
<1>2. \A m, n \in Nat : <<m, n>> \in OpToRel(<, Nat) <=> m < n
  BY DEF OpToRel
<1>3. PICK n \in S : \A m \in S : <<m, n>> \notin OpToRel(<, Nat)
  BY <1>1
<1>4. ASSUME NEW m \in S
      PROVE  n <= m
  <2>1. ~(m < n)
    BY <1>2, <1>3
  <2>2. m \in Nat /\ n \in Nat
    OBVIOUS
  <2> QED
    BY <2>1, <2>2
<1> QED
  BY <1>4

\* The least element of a non-empty set of numbers.
LEMMA MinExists ==
    ASSUME NEW S \in SUBSET Nat, S # {}
    PROVE  Min(S) \in S /\ \A x \in S : Min(S) <= x
<1>1. PICK n \in S : \A m \in S : n <= m
  BY LeastNatural
<1> QED
  BY <1>1 DEF Min

\* The greatest element of a non-empty set of integers with an upper bound.
LEMMA MaxExists ==
    ASSUME NEW S \in SUBSET Int, S # {}, NEW b \in Int, \A x \in S : x <= b
    PROVE  Max(S) \in S /\ \A x \in S : x <= Max(S)
<1> DEFINE T == {n \in Nat : b - n \in S}
<1>1. \A x \in S : b - x \in T
  OBVIOUS
<1>2. PICK n \in T : \A m \in T : n <= m
  BY <1>1, LeastNatural
<1>3. ASSUME NEW x \in S
      PROVE  x <= b - n
  <2>1. n <= b - x
    BY <1>1, <1>2
  <2>2. x \in Int /\ n \in Int
    OBVIOUS
  <2> QED
    BY <2>1, <2>2
<1> QED
  BY <1>2, <1>3 DEF Max

-----------------------------------------------------------------------------
\* Induction over the subsets of a finite set: a property, given as the set Q of
\* the subsets that have it, holds of all when it passes from the sets with one
\* element less to the set itself.
LEMMA SubsetInduction ==
    ASSUME NEW S, IsFiniteSet(S), NEW Q \in SUBSET (SUBSET S),
           \A T \in SUBSET S : (\A x \in T : T \ {x} \in Q) => T \in Q
    PROVE  Q = SUBSET S
<1>1. SUFFICES ASSUME Q # SUBSET S
               PROVE  FALSE
  OBVIOUS
<1> DEFINE sizes == {n \in Nat : \E T \in SUBSET S : T \notin Q /\ Cardinality(T) = n}
<1>2. \A T \in SUBSET S : IsFiniteSet(T) /\ Cardinality(T) \in Nat
  BY FS_Subset, FS_CardinalityType
<1>3. sizes # {}
  BY <1>1, <1>2
<1>4. PICK n \in sizes : \A m \in sizes : n <= m
  BY <1>3, LeastNatural
<1>5. PICK T \in SUBSET S : T \notin Q /\ Cardinality(T) = n
  OBVIOUS
<1>6. ASSUME NEW x \in T
      PROVE  T \ {x} \in Q
  <2>1. IsFiniteSet(T) /\ IsFiniteSet(T \ {x}) /\ T \ {x} \in SUBSET S
    BY <1>2
  <2>2. Cardinality(T \ {x}) = Cardinality(T) - 1
    BY <2>1, FS_RemoveElement
  <2>3. Cardinality(T \ {x}) \in Nat
    BY <2>1, FS_CardinalityType
  <2>4. ~(n <= Cardinality(T \ {x}))
    BY <1>5, <2>2, <2>3
  <2>5. Cardinality(T \ {x}) \notin sizes
    BY <1>4, <2>4
  <2> QED
    BY <2>1, <2>3, <2>5
<1> QED
  BY <1>5, <1>6

-----------------------------------------------------------------------------
(* Sums.                                                                   *)

\* An element of a set, as the library takes them one by one.
Some(s) == CHOOSE x \in s : TRUE

Summand(F, g, s) == IF s = {} THEN 0 ELSE F[Some(s)] + g[s \ {Some(s)}]

\* The recursive function behind SumFunctionOnSet.
SumTable(F, S) == CHOOSE g : g = [s \in SUBSET S |-> Summand(F, g, s)]

LEMMA SumFromTable ==
    ASSUME NEW F, NEW S
    PROVE  SumFunctionOnSet(F, S) = SumTable(F, S)[S]
BY DEF SumFunctionOnSet, FoldFunctionOnSet, MapThenFoldSet, SumTable, Summand, Some

\* The recursion has a solution when S is finite, so that the function solves it.
LEMMA SumTableSolves ==
    ASSUME NEW F, NEW S, IsFiniteSet(S)
    PROVE  SumTable(F, S) = [s \in SUBSET S |-> Summand(F, SumTable(F, S), s)]
<1> DEFINE Solved(g, n) ==
              \A s \in SUBSET S : Cardinality(s) < n => g[s] = Summand(F, g, s)
           reach == {n \in Nat : \E g : g = [s \in SUBSET S |-> g[s]] /\ Solved(g, n)}
<1>1. \A T \in SUBSET S : IsFiniteSet(T) /\ Cardinality(T) \in Nat
  BY FS_Subset, FS_CardinalityType
<1>2. \A n \in Nat : n \in reach
  <2>1. SUFFICES ASSUME Nat \ reach # {}
                 PROVE  FALSE
    OBVIOUS
  <2>2. PICK n \in Nat \ reach : \A m \in Nat \ reach : n <= m
    BY <2>1, LeastNatural
  <2>3. 0 \in reach
    <3> DEFINE g == [s \in SUBSET S |-> 0]
    <3>1. g = [s \in SUBSET S |-> g[s]] /\ Solved(g, 0)
      BY <1>1
    <3> HIDE DEF g
    <3> QED
      BY <3>1
  <2>4. n - 1 \in reach
    <3>1. n \in Nat /\ n # 0
      BY <2>2, <2>3
    <3>2. n - 1 \in Nat /\ ~(n <= n - 1)
      BY <3>1
    <3> QED
      BY <2>2, <3>2
  <2>5. PICK g : g = [s \in SUBSET S |-> g[s]] /\ Solved(g, n - 1)
    BY <2>4
  <2> DEFINE h == [s \in SUBSET S |-> IF Cardinality(s) < n - 1 THEN g[s] ELSE Summand(F, g, s)]
  <2>6. ASSUME NEW s \in SUBSET S, Cardinality(s) < n
        PROVE  h[s] = Summand(F, h, s)
    <3>1. h[s] = Summand(F, g, s)
      BY <2>5
    <3>2. CASE s = {}
      BY <3>1, <3>2 DEF Summand
    <3>3. CASE s # {}
      <4>1. Some(s) \in s
        BY <3>3 DEF Some
      <4>2. s \ {Some(s)} \in SUBSET S
        OBVIOUS
      <4>3. Cardinality(s \ {Some(s)}) = Cardinality(s) - 1
        BY <1>1, <4>1, FS_RemoveElement
      <4>4. Cardinality(s \ {Some(s)}) < n - 1
        <5>1. Cardinality(s) \in Nat /\ n \in Nat
          BY <1>1
        <5> QED
          BY <5>1, <2>6, <4>3
      <4>5. h[s \ {Some(s)}] = g[s \ {Some(s)}]
        BY <4>2, <4>4
      <4> HIDE DEF h
      <4> QED
        BY <3>1, <3>3, <4>5 DEF Summand
    <3> QED
      BY <3>2, <3>3
  <2>7. h = [s \in SUBSET S |-> h[s]] /\ Solved(h, n)
    BY <2>6
  <2> HIDE DEF h
  <2> QED
    BY <2>2, <2>7
<1>3. PICK g : g = [s \in SUBSET S |-> g[s]] /\ Solved(g, Cardinality(S) + 1)
  <2> HIDE DEF reach
  <2>1. Cardinality(S) + 1 \in Nat
    BY <1>1
  <2>2. Cardinality(S) + 1 \in reach
    BY <1>2, <2>1
  <2> QED
    BY <2>2 DEF reach
<1>4. \A s \in SUBSET S : Cardinality(s) < Cardinality(S) + 1
  <2>1. \A s \in SUBSET S : Cardinality(s) <= Cardinality(S)
    BY FS_Subset
  <2> QED
    BY <1>1, <2>1
<1>5. g = [s \in SUBSET S |-> Summand(F, g, s)]
  BY <1>3, <1>4
<1> QED
  BY <1>5 DEF SumTable

\* The tables of a set and of its subset agree.
LEMMA SumTablesAgree ==
    ASSUME NEW F, NEW S, IsFiniteSet(S), NEW T \in SUBSET S
    PROVE  SumTable(F, S)[T] = SumTable(F, T)[T]
<1> DEFINE Q == {U \in SUBSET T : SumTable(F, S)[U] = SumTable(F, T)[U]}
<1>1. IsFiniteSet(T)
  BY FS_Subset
<1>2. \A U \in SUBSET T : /\ SumTable(F, S)[U] = Summand(F, SumTable(F, S), U)
                         /\ SumTable(F, T)[U] = Summand(F, SumTable(F, T), U)
  <2>1. SumTable(F, S) = [s \in SUBSET S |-> Summand(F, SumTable(F, S), s)]
    BY SumTableSolves
  <2>2. SumTable(F, T) = [s \in SUBSET T |-> Summand(F, SumTable(F, T), s)]
    BY <1>1, SumTableSolves
  <2>3. SUBSET T \subseteq SUBSET S
    OBVIOUS
  <2> QED
    BY <2>1, <2>2, <2>3
<1>3. ASSUME NEW U \in SUBSET T, \A x \in U : U \ {x} \in Q
      PROVE  U \in Q
  <2>1. CASE U = {}
    BY <1>2, <2>1 DEF Summand
  <2>2. CASE U # {}
    <3>1. Some(U) \in U
      BY <2>2 DEF Some
    <3> QED
      BY <1>2, <1>3, <2>2, <3>1 DEF Summand
  <2> QED
    BY <2>1, <2>2
<1> HIDE DEF Q
<1>4. Q = SUBSET T
  <2>1. Q \in SUBSET (SUBSET T)
    BY DEF Q
  <2> QED
    BY <1>1, <1>3, <2>1, SubsetInduction
<1> QED
  BY <1>4 DEF Q

\* What the library computes: nothing for the empty set, and otherwise the chosen
\* element's value and the rest.
LEMMA SumEmpty ==
    ASSUME NEW F
    PROVE  SumFunctionOnSet(F, {}) = 0
<1>1. SumTable(F, {}) = [s \in SUBSET {} |-> Summand(F, SumTable(F, {}), s)]
  BY FS_EmptySet, SumTableSolves
<1> QED
  BY <1>1, SumFromTable DEF Summand

LEMMA SumChosen ==
    ASSUME NEW F, NEW S, IsFiniteSet(S), S # {}
    PROVE  SumFunctionOnSet(F, S) = F[Some(S)] + SumFunctionOnSet(F, S \ {Some(S)})
<1>1. SumTable(F, S)[S] = Summand(F, SumTable(F, S), S)
  <2>1. SumTable(F, S) = [s \in SUBSET S |-> Summand(F, SumTable(F, S), s)]
    BY SumTableSolves
  <2> QED
    BY <2>1
<1>2. SumTable(F, S)[S \ {Some(S)}] = SumTable(F, S \ {Some(S)})[S \ {Some(S)}]
  BY SumTablesAgree
<1> QED
  BY <1>1, <1>2, SumFromTable DEF Summand

\* A sum of integers is one.
LEMMA SumType ==
    ASSUME NEW F, NEW S, IsFiniteSet(S), \A x \in S : F[x] \in Int
    PROVE  SumFunctionOnSet(F, S) \in Int
<1> DEFINE Q == {T \in SUBSET S : SumFunctionOnSet(F, T) \in Int}
<1>1. ASSUME NEW T \in SUBSET S, \A x \in T : T \ {x} \in Q
      PROVE  T \in Q
  <2>1. CASE T = {}
    BY <2>1, SumEmpty
  <2>2. CASE T # {}
    <3>1. Some(T) \in T
      BY <2>2 DEF Some
    <3>2. SumFunctionOnSet(F, T) = F[Some(T)] + SumFunctionOnSet(F, T \ {Some(T)})
      BY <2>2, SumChosen, FS_Subset
    <3> QED
      BY <1>1, <3>1, <3>2
  <2> QED
    BY <2>1, <2>2
<1> HIDE DEF Q
<1>2. Q = SUBSET S
  <2>1. Q \in SUBSET (SUBSET S)
    BY DEF Q
  <2> QED
    BY <1>1, <2>1, SubsetInduction
<1> QED
  BY <1>2 DEF Q

\* The elements may be taken in any order.
LEMMA SumWithout ==
    ASSUME NEW F, NEW S, IsFiniteSet(S), \A x \in S : F[x] \in Int, NEW y \in S
    PROVE  SumFunctionOnSet(F, S) = F[y] + SumFunctionOnSet(F, S \ {y})
<1> DEFINE Splits(T) == \A x \in T : SumFunctionOnSet(F, T) = F[x] + SumFunctionOnSet(F, T \ {x})
           Q == {T \in SUBSET S : Splits(T)}
<1>1. \A T \in SUBSET S : IsFiniteSet(T) /\ SumFunctionOnSet(F, T) \in Int
  BY FS_Subset, SumType
<1>2. ASSUME NEW T \in SUBSET S, \A x \in T : T \ {x} \in Q
      PROVE  T \in Q
  <2>1. ASSUME NEW x \in T
        PROVE  SumFunctionOnSet(F, T) = F[x] + SumFunctionOnSet(F, T \ {x})
    <3> DEFINE c == Some(T)
               U == (T \ {c}) \ {x}
    <3>1. c \in T /\ SumFunctionOnSet(F, T) = F[c] + SumFunctionOnSet(F, T \ {c})
      BY <1>1, SumChosen DEF Some
    <3>2. CASE c = x
      BY <3>1, <3>2
    <3>3. CASE c # x
      <4> HIDE DEF c
      <4>1. SumFunctionOnSet(F, T \ {c}) = F[x] + SumFunctionOnSet(F, U)
        BY <1>2, <3>1, <3>3
      <4>2. SumFunctionOnSet(F, T \ {x}) = F[c] + SumFunctionOnSet(F, U)
        <5>1. (T \ {x}) \ {c} = U
          OBVIOUS
        <5> HIDE DEF U
        <5> QED
          BY <1>2, <3>1, <3>3, <5>1
      <4>3. F[c] \in Int /\ F[x] \in Int /\ SumFunctionOnSet(F, U) \in Int
        BY <1>1, <3>1
      <4> QED
        BY <3>1, <4>1, <4>2, <4>3
    <3> QED
      BY <3>2, <3>3
  <2> QED
    BY <2>1
<1> HIDE DEF Q
<1>3. Q = SUBSET S
  <2>1. Q \in SUBSET (SUBSET S)
    BY DEF Q
  <2> QED
    BY <1>2, <2>1, SubsetInduction
<1> QED
  BY <1>3 DEF Q

\* Sums compare as their summands do.
LEMMA SumMonotone ==
    ASSUME NEW F, NEW G, NEW S, IsFiniteSet(S),
           \A x \in S : F[x] \in Int /\ G[x] \in Int /\ F[x] <= G[x]
    PROVE  SumFunctionOnSet(F, S) <= SumFunctionOnSet(G, S)
<1> DEFINE Q == {T \in SUBSET S : SumFunctionOnSet(F, T) <= SumFunctionOnSet(G, T)}
<1>1. \A T \in SUBSET S : /\ IsFiniteSet(T)
                         /\ SumFunctionOnSet(F, T) \in Int
                         /\ SumFunctionOnSet(G, T) \in Int
  BY FS_Subset, SumType
<1>2. ASSUME NEW T \in SUBSET S, \A x \in T : T \ {x} \in Q
      PROVE  T \in Q
  <2>1. CASE T = {}
    BY <2>1, SumEmpty
  <2>2. CASE T # {}
    <3>1. PICK y \in T : TRUE
      BY <2>2
    <3>2. /\ SumFunctionOnSet(F, T) = F[y] + SumFunctionOnSet(F, T \ {y})
          /\ SumFunctionOnSet(G, T) = G[y] + SumFunctionOnSet(G, T \ {y})
      BY <1>1, SumWithout
    <3>3. SumFunctionOnSet(F, T \ {y}) <= SumFunctionOnSet(G, T \ {y})
      BY <1>2
    <3>4. T \ {y} \in SUBSET S /\ y \in S
      OBVIOUS
    <3> QED
      BY <1>1, <3>2, <3>3, <3>4
  <2> QED
    BY <2>1, <2>2
<1> HIDE DEF Q
<1>3. Q = SUBSET S
  <2>1. Q \in SUBSET (SUBSET S)
    BY DEF Q
  <2> QED
    BY <1>2, <2>1, SubsetInduction
<1> QED
  BY <1>3 DEF Q

\* Only the summands of the set count.
LEMMA SumEqual ==
    ASSUME NEW F, NEW G, NEW S, IsFiniteSet(S),
           \A x \in S : F[x] \in Int /\ F[x] = G[x]
    PROVE  SumFunctionOnSet(F, S) = SumFunctionOnSet(G, S)
<1>1. \A x \in S : F[x] \in Int /\ G[x] \in Int /\ F[x] <= G[x] /\ G[x] <= F[x]
  OBVIOUS
<1>2. SumFunctionOnSet(F, S) <= SumFunctionOnSet(G, S)
  BY <1>1, SumMonotone
<1>3. SumFunctionOnSet(G, S) <= SumFunctionOnSet(F, S)
  BY <1>1, SumMonotone
<1>4. SumFunctionOnSet(F, S) \in Int /\ SumFunctionOnSet(G, S) \in Int
  BY <1>1, SumType
<1> QED
  BY <1>2, <1>3, <1>4

\* One summand more.
LEMMA SumAdded ==
    ASSUME NEW F, NEW S, IsFiniteSet(S), NEW y, y \notin S,
           \A x \in S \cup {y} : F[x] \in Int
    PROVE  SumFunctionOnSet(F, S \cup {y}) = F[y] + SumFunctionOnSet(F, S)
<1>1. IsFiniteSet(S \cup {y}) /\ (S \cup {y}) \ {y} = S
  BY FS_AddElement
<1> QED
  BY <1>1, SumWithout

\* A sum of naturals is at least each of them.
LEMMA SumNatural ==
    ASSUME NEW F, NEW S, IsFiniteSet(S), \A x \in S : F[x] \in Nat
    PROVE  /\ SumFunctionOnSet(F, S) \in Nat
           /\ \A y \in S : F[y] <= SumFunctionOnSet(F, S)
<1> DEFINE Q == {T \in SUBSET S : SumFunctionOnSet(F, T) \in Nat}
<1>1. \A T \in SUBSET S : IsFiniteSet(T)
  BY FS_Subset
<1>2. ASSUME NEW T \in SUBSET S, \A x \in T : T \ {x} \in Q
      PROVE  T \in Q
  <2>1. CASE T = {}
    BY <2>1, SumEmpty
  <2>2. CASE T # {}
    <3>1. PICK y \in T : TRUE
      BY <2>2
    <3>2. SumFunctionOnSet(F, T) = F[y] + SumFunctionOnSet(F, T \ {y})
      BY <1>1, SumWithout
    <3> QED
      BY <1>2, <3>2
  <2> QED
    BY <2>1, <2>2
<1> HIDE DEF Q
<1>3. Q = SUBSET S
  <2>1. Q \in SUBSET (SUBSET S)
    BY DEF Q
  <2> QED
    BY <1>2, <2>1, SubsetInduction
<1>4. \A T \in SUBSET S : SumFunctionOnSet(F, T) \in Nat
  BY <1>3 DEF Q
<1>5. ASSUME NEW y \in S
      PROVE  F[y] <= SumFunctionOnSet(F, S)
  <2>1. SumFunctionOnSet(F, S) = F[y] + SumFunctionOnSet(F, S \ {y})
    BY SumWithout
  <2>2. SumFunctionOnSet(F, S \ {y}) \in Nat /\ F[y] \in Nat
    BY <1>4
  <2> QED
    BY <2>1, <2>2
<1> QED
  BY <1>4, <1>5

\* A sum of zeros.
LEMMA SumZero ==
    ASSUME NEW F, NEW S, IsFiniteSet(S), \A x \in S : F[x] = 0
    PROVE  SumFunctionOnSet(F, S) = 0
<1> DEFINE Q == {T \in SUBSET S : SumFunctionOnSet(F, T) = 0}
<1>1. \A T \in SUBSET S : IsFiniteSet(T)
  BY FS_Subset
<1>2. ASSUME NEW T \in SUBSET S, \A x \in T : T \ {x} \in Q
      PROVE  T \in Q
  <2>1. CASE T = {}
    BY <2>1, SumEmpty
  <2>2. CASE T # {}
    <3>1. PICK y \in T : TRUE
      BY <2>2
    <3>2. SumFunctionOnSet(F, T) = F[y] + SumFunctionOnSet(F, T \ {y})
      BY <1>1, SumWithout
    <3>3. F[y] = 0 /\ SumFunctionOnSet(F, T \ {y}) = 0
      BY <1>2
    <3> QED
      BY <3>2, <3>3
  <2> QED
    BY <2>1, <2>2
<1> HIDE DEF Q
<1>3. Q = SUBSET S
  <2>1. Q \in SUBSET (SUBSET S)
    BY DEF Q
  <2> QED
    BY <1>2, <2>1, SubsetInduction
<1> QED
  BY <1>3 DEF Q

\* Two disjoint sets add up.
LEMMA SumDisjoint ==
    ASSUME NEW F, NEW S, IsFiniteSet(S), NEW T, IsFiniteSet(T), S \cap T = {},
           \A x \in S \cup T : F[x] \in Int
    PROVE  SumFunctionOnSet(F, S \cup T) = SumFunctionOnSet(F, S) + SumFunctionOnSet(F, T)
<1> DEFINE Q == {U \in SUBSET T : SumFunctionOnSet(F, S \cup U)
                                    = SumFunctionOnSet(F, S) + SumFunctionOnSet(F, U)}
<1>1. \A U \in SUBSET T : IsFiniteSet(U) /\ IsFiniteSet(S \cup U)
  BY FS_Subset, FS_Union
<1>2. \A U \in SUBSET T : SumFunctionOnSet(F, U) \in Int
  BY <1>1, SumType
<1>3. SumFunctionOnSet(F, S) \in Int
  BY SumType
<1>4. ASSUME NEW U \in SUBSET T, \A x \in U : U \ {x} \in Q
      PROVE  U \in Q
  <2>1. CASE U = {}
    BY <1>3, <2>1, SumEmpty
  <2>2. CASE U # {}
    <3>1. PICK y \in U : TRUE
      BY <2>2
    <3>2. SumFunctionOnSet(F, U) = F[y] + SumFunctionOnSet(F, U \ {y})
      <4>1. \A x \in U : F[x] \in Int
        OBVIOUS
      <4>2. IsFiniteSet(U)
        BY <1>1
      <4> QED
        BY <3>1, <4>1, <4>2, SumWithout
    <3>3. SumFunctionOnSet(F, S \cup U) = F[y] + SumFunctionOnSet(F, S \cup (U \ {y}))
      <4>1. (S \cup U) \ {y} = S \cup (U \ {y}) /\ y \in S \cup U
        BY <3>1
      <4>2. \A x \in S \cup U : F[x] \in Int
        OBVIOUS
      <4>3. SumFunctionOnSet(F, S \cup U) = F[y] + SumFunctionOnSet(F, (S \cup U) \ {y})
        BY <1>1, <4>1, <4>2, SumWithout
      <4> QED
        BY <4>1, <4>3
    <3>4. SumFunctionOnSet(F, S \cup (U \ {y}))
            = SumFunctionOnSet(F, S) + SumFunctionOnSet(F, U \ {y})
      BY <1>4
    <3>5. U \ {y} \in SUBSET T /\ F[y] \in Int
      OBVIOUS
    <3> QED
      BY <1>2, <1>3, <3>2, <3>3, <3>4, <3>5
  <2> QED
    BY <2>1, <2>2
<1> HIDE DEF Q
<1>5. Q = SUBSET T
  <2>1. Q \in SUBSET (SUBSET T)
    BY DEF Q
  <2> QED
    BY <1>4, <2>1, SubsetInduction
<1> QED
  BY <1>5 DEF Q

\* The summands may be renamed.
LEMMA SumRenamed ==
    ASSUME NEW F, NEW S, IsFiniteSet(S), NEW h,
           \A x, y \in S : h[x] = h[y] => x = y,
           \A x \in S : F[h[x]] \in Int
    PROVE  SumFunctionOnSet(F, {h[x] : x \in S}) = SumFunctionOnSet([x \in S |-> F[h[x]]], S)
<1> DEFINE G == [x \in S |-> F[h[x]]]
           img(T) == {h[x] : x \in T}
           Q == {T \in SUBSET S : /\ IsFiniteSet(img(T))
                                  /\ SumFunctionOnSet(F, img(T)) = SumFunctionOnSet(G, T)}
<1>1. \A T \in SUBSET S : IsFiniteSet(T)
  BY FS_Subset
<1>2. \A x \in S : G[x] = F[h[x]] /\ G[x] \in Int
  OBVIOUS
<1> HIDE DEF G
<1>3. ASSUME NEW T \in SUBSET S, \A x \in T : T \ {x} \in Q
      PROVE  T \in Q
  <2>1. CASE T = {}
    <3>1. img(T) = {}
      BY <2>1
    <3> QED
      BY <2>1, <3>1, SumEmpty, FS_EmptySet
  <2>2. CASE T # {}
    <3>1. PICK y \in T : TRUE
      BY <2>2
    <3>2. img(T) = img(T \ {y}) \cup {h[y]} /\ h[y] \notin img(T \ {y})
      BY <3>1
    <3>3. IsFiniteSet(img(T \ {y})) /\ SumFunctionOnSet(F, img(T \ {y})) = SumFunctionOnSet(G, T \ {y})
      BY <1>3
    <3>4. SumFunctionOnSet(G, T) = G[y] + SumFunctionOnSet(G, T \ {y})
      BY <1>1, <1>2, SumWithout
    <3>5. \A z \in img(T \ {y}) \cup {h[y]} : F[z] \in Int
      OBVIOUS
    <3> HIDE DEF img
    <3>6. SumFunctionOnSet(F, img(T \ {y}) \cup {h[y]}) = F[h[y]] + SumFunctionOnSet(F, img(T \ {y}))
      BY <3>2, <3>3, <3>5, SumAdded
    <3>7. IsFiniteSet(img(T))
      <4>1. IsFiniteSet(img(T \ {y}) \cup {h[y]})
        BY <3>3, FS_AddElement
      <4> QED
        BY <3>2, <4>1
    <3> QED
      BY <1>2, <3>1, <3>2, <3>3, <3>4, <3>6, <3>7
  <2> QED
    BY <2>1, <2>2
<1> HIDE DEF Q
<1>4. Q = SUBSET S
  <2>1. Q \in SUBSET (SUBSET S)
    BY DEF Q
  <2> QED
    BY <1>1, <1>3, <2>1, SubsetInduction
<1> QED
  BY <1>4 DEF Q, G

-----------------------------------------------------------------------------
(* The choices.                                                            *)

\* The weakest entry exists, and no entry has a smaller score.
LEMMA WeakestIndexProperty ==
    ASSUME NEW s \in Seq(Nat), s # <<>>
    PROVE  /\ WeakestIndex(s) \in DOMAIN s
           /\ \A j \in DOMAIN s : s[WeakestIndex(s)] <= s[j]
<1> DEFINE lowest == {k \in DOMAIN s : \A j \in DOMAIN s : s[k] <= s[j]}
           values == {s[k] : k \in DOMAIN s}
<1>1. values \in SUBSET Nat /\ values # {}
  <2>1. 1 \in DOMAIN s
    OBVIOUS
  <2> QED
    BY <2>1
<1>2. PICK low \in values : \A x \in values : low <= x
  BY <1>1, LeastNatural
<1>3. lowest # {}
  BY <1>2
<1>4. lowest \in SUBSET Nat
  OBVIOUS
<1>5. Min(lowest) \in lowest
  BY <1>3, <1>4, MinExists
<1> QED
  BY <1>5 DEF WeakestIndex

\* No match can score above INT_MAX, so the best one exists.
LEMMA BestScoreProperty ==
    ASSUME NEW t \in Seq(Image), NEW p \in Image
    PROVE  /\ BestScore(t, p) \in Int
           /\ BestScore(t, p) # -1 =>
                 \E k \in DOMAIN t : MatchScore(t[k], p) = BestScore(t, p)
<1> DEFINE S == {-1} \cup {MatchScore(t[k], p) : k \in DOMAIN t}
<1>1. \A k \in DOMAIN t : t[k] \in Image
  OBVIOUS
<1>2. S \in SUBSET Int /\ S # {} /\ INT_MAX \in Int /\ \A x \in S : x <= INT_MAX
  BY <1>1, SigfmAssumption
<1>3. Max(S) \in S
  BY <1>2, MaxExists
<1> QED
  BY <1>2, <1>3 DEF BestScore

\* A successful match names an entry, and that entry has the best score.
LEMMA BestIndexProperty ==
    ASSUME NEW t \in Seq(Image), NEW p \in Image, BestScore(t, p) >= 0
    PROVE  /\ BestIndex(t, p) \in DOMAIN t
           /\ MatchScore(t[BestIndex(t, p)], p) = BestScore(t, p)
<1> DEFINE top == {k \in DOMAIN t : MatchScore(t[k], p) = BestScore(t, p)}
<1>1. BestScore(t, p) # -1
  BY BestScoreProperty
<1>2. top # {} /\ top \in SUBSET Nat
  BY <1>1, BestScoreProperty
<1>3. Min(top) \in top
  BY <1>2, MinExists
<1> QED
  BY <1>1, <1>3 DEF BestIndex

LEMMA FiniteDomain ==
    ASSUME NEW S, NEW t \in Seq(S), NEW I \in SUBSET (DOMAIN t)
    PROVE  IsFiniteSet(I)
<1>1. DOMAIN t = 1 .. Len(t) /\ Len(t) \in Int /\ 1 \in Int
  OBVIOUS
<1>2. IsFiniteSet(DOMAIN t)
  BY <1>1, FS_Interval
<1> QED
  BY <1>2, FS_Subset

\* A sequence with one number replaced.
LEMMA SumWithSlot ==
    ASSUME NEW s \in Seq(Nat), NEW i \in DOMAIN s, NEW n \in Nat
    PROVE  /\ SumFunction(s) \in Nat /\ s[i] <= SumFunction(s)
           /\ SumFunction([s EXCEPT ![i] = n]) = SumFunction(s) - s[i] + n
<1> DEFINE D == DOMAIN s
           r == [s EXCEPT ![i] = n]
<1>1. /\ DOMAIN r = D /\ r[i] = n
      /\ \A j \in D : s[j] \in Nat /\ r[j] \in Nat
      /\ \A j \in D \ {i} : r[j] = s[j]
  OBVIOUS
<1>2. IsFiniteSet(D) /\ IsFiniteSet(D \ {i})
  BY FiniteDomain
<1>3. SumFunction(s) = SumFunctionOnSet(s, D) /\ SumFunction(r) = SumFunctionOnSet(r, D)
  BY <1>1 DEF SumFunction
<1> HIDE DEF D, r
<1>d. i \in D
  BY DEF D
<1>n. \A j \in D : s[j] \in Int /\ r[j] \in Int
  BY <1>1
<1>4. SumFunctionOnSet(s, D) = s[i] + SumFunctionOnSet(s, D \ {i})
  BY <1>2, <1>d, <1>n, SumWithout
<1>5. SumFunctionOnSet(r, D) = r[i] + SumFunctionOnSet(r, D \ {i})
  BY <1>2, <1>d, <1>n, SumWithout
<1>6. SumFunctionOnSet(r, D \ {i}) = SumFunctionOnSet(s, D \ {i})
  BY <1>1, <1>2, <1>n, SumEqual
<1>7. /\ SumFunctionOnSet(s, D) \in Nat /\ s[i] <= SumFunctionOnSet(s, D)
      /\ SumFunctionOnSet(s, D \ {i}) \in Nat /\ s[i] \in Nat
  BY <1>1, <1>2, <1>d, SumNatural
<1> QED
  BY <1>1, <1>3, <1>4, <1>5, <1>6, <1>7 DEF r

\* Averages are naturals.
LEMMA CrossAverageType ==
    ASSUME NEW t \in Seq(Image), Len(t) >= 2, NEW k \in DOMAIN t
    PROVE  /\ SumFunctionOnSet([j \in DOMAIN t |-> Similarity(t[k], t[j])], DOMAIN t \ {k}) \in Nat
           /\ CrossAverage(t, k) \in Nat
<1> DEFINE F == [j \in DOMAIN t |-> Similarity(t[k], t[j])]
<1>1. \A j \in DOMAIN t : t[j] \in Image
  OBVIOUS
<1>2. \A j \in DOMAIN t \ {k} : F[j] \in Nat
  BY <1>1, SigfmAssumption DEF Similarity
<1>3. IsFiniteSet(DOMAIN t \ {k})
  BY FiniteDomain
<1> HIDE DEF F
<1>4. SumFunctionOnSet(F, DOMAIN t \ {k}) \in Nat
  BY <1>2, <1>3, SumNatural
<1>5. \A a \in Nat : a \div (Len(t) - 1) \in Nat
  <2>1. Len(t) - 1 \in Nat /\ Len(t) - 1 > 0
    OBVIOUS
  <2> QED
    BY <2>1
<1> QED
  BY <1>4, <1>5 DEF F, CrossAverage

\* A best-connected entry exists, and the anchor is one.
LEMMA AnchorIndexProperty ==
    ASSUME NEW t \in Seq(Image), Len(t) >= 2
    PROVE  /\ AnchorIndex(t) \in DOMAIN t
           /\ \A j \in DOMAIN t : CrossAverage(t, j) <= CrossAverage(t, AnchorIndex(t))
<1> DEFINE A == [k \in DOMAIN t |-> CrossAverage(t, k)]
           S == {A[k] : k \in DOMAIN t}
           top == {k \in DOMAIN t : \A j \in DOMAIN t : CrossAverage(t, j) <= CrossAverage(t, k)}
<1>1. \A k \in DOMAIN t : A[k] \in Nat
  BY CrossAverageType
<1>2. IsFiniteSet(DOMAIN t)
  BY FiniteDomain
<1> HIDE DEF A
<1>3. /\ SumFunctionOnSet(A, DOMAIN t) \in Nat
      /\ \A k \in DOMAIN t : A[k] <= SumFunctionOnSet(A, DOMAIN t)
  BY <1>1, <1>2, SumNatural
<1>4. S \in SUBSET Int /\ S # {}
  <2>1. 1 \in DOMAIN t
    OBVIOUS
  <2> QED
    BY <1>1, <2>1
<1>5. Max(S) \in S /\ \A x \in S : x <= Max(S)
  <2> DEFINE b == SumFunctionOnSet(A, DOMAIN t)
  <2>1. b \in Int /\ \A x \in S : x <= b
    BY <1>3
  <2> HIDE DEF b, S
  <2> QED
    BY <1>4, <2>1, MaxExists
<1>6. top # {}
  <2>1. PICK k \in DOMAIN t : Max(S) = A[k]
    BY <1>5
  <2>2. \A j \in DOMAIN t : A[j] <= A[k]
    BY <1>5, <2>1
  <2> QED
    BY <2>2 DEF A
<1>7. top \in SUBSET Nat
  OBVIOUS
<1> HIDE DEF top
<1>8. Min(top) \in top
  BY <1>6, <1>7, MinExists
<1>9. AnchorIndex(t) = Min(top)
  BY DEF AnchorIndex, top
<1> QED
  BY <1>8, <1>9 DEF top

\* Study v2 finds an entry to replace, and it is not the anchor.
LEMMA TargetIndexProperty ==
    ASSUME NEW t \in Seq(Image), Len(t) >= 2, NEW hits, \A k \in DOMAIN t : hits[k] \in Nat
    PROVE  TargetIndex(t, hits) \in DOMAIN t \ {AnchorIndex(t)}
<1> DEFINE others == DOMAIN t \ {AnchorIndex(t)}
           rare   == {k \in others : \A j \in others : hits[k] <= hits[j]}
           worst  == {k \in rare : \A j \in rare : CrossAverage(t, k) <= CrossAverage(t, j)}
<1>1. others # {}
  <2>1. 1 \in DOMAIN t /\ 2 \in DOMAIN t
    OBVIOUS
  <2> QED
    BY <2>1
<1>2. rare # {}
  <2> DEFINE S == {hits[k] : k \in others}
  <2>1. S \in SUBSET Nat /\ S # {}
    BY <1>1
  <2>2. PICK n \in S : \A m \in S : n <= m
    BY <2>1, LeastNatural
  <2> QED
    BY <2>2
<1> HIDE DEF rare
<1>3. rare \in SUBSET others
  BY DEF rare
<1>4. worst # {}
  <2> DEFINE S == {CrossAverage(t, k) : k \in rare}
  <2>1. S \in SUBSET Nat /\ S # {}
    BY <1>2, <1>3, CrossAverageType
  <2>2. PICK n \in S : \A m \in S : n <= m
    BY <2>1, LeastNatural
  <2> QED
    BY <2>2
<1>5. worst \in SUBSET Nat /\ worst \in SUBSET others
  BY <1>3
<1> HIDE DEF worst
<1>6. Min(worst) \in worst
  BY <1>4, <1>5, MinExists
<1> QED
  BY <1>5, <1>6 DEF TargetIndex, worst, rare

\* The pair that pruning looks at is a pair of different entries.
LEMMA MostSimilarPairProperty ==
    ASSUME NEW t \in Seq(Image), Len(t) >= 2
    PROVE  /\ MostSimilarPair(t) \in (DOMAIN t) \X (DOMAIN t)
           /\ MostSimilarPair(t)[1] # MostSimilarPair(t)[2]
<1> DEFINE P     == Pairs(Len(t))
           S     == {-1} \cup {PairScore(t, p) : p \in P}
           best  == Max(S)
           top   == {p \in P : PairScore(t, p) = best}
           first == Min({p[1] : p \in top})
           second == Min({p[2] : p \in {q \in top : q[1] = first}})
<1>1. CASE best = -1
  BY <1>1 DEF MostSimilarPair
<1>2. CASE best # -1
  <2>1. \A p \in P : p[1] \in DOMAIN t /\ p[2] \in DOMAIN t
    BY DEF Pairs
  <2>2. \A p \in P : PairScore(t, p) \in Int /\ PairScore(t, p) <= INT_MAX
    <3>1. \A p \in P : t[p[1]] \in Image /\ t[p[2]] \in Image
      BY <2>1
    <3> HIDE DEF P
    <3> QED
      BY <3>1, SigfmAssumption DEF PairScore
  <2>3. S \in SUBSET Int /\ S # {} /\ INT_MAX \in Int /\ \A x \in S : x <= INT_MAX
    BY <2>2, SigfmAssumption
  <2>4. best \in S
    BY <2>3, MaxExists
  <2>5. top # {}
    BY <2>4, <1>2
  <2> HIDE DEF P, S, best, top
  <2>6. \A p \in top : p[1] \in DOMAIN t /\ p[2] \in DOMAIN t
    BY <2>1 DEF top
  <2>7. first \in {p[1] : p \in top}
    <3>1. {p[1] : p \in top} \in SUBSET Nat /\ {p[1] : p \in top} # {}
      BY <2>5, <2>6
    <3> QED
      BY <3>1, MinExists
  <2>8. second \in {p[2] : p \in {q \in top : q[1] = first}}
    <3> HIDE DEF first
    <3> DEFINE R == {p[2] : p \in {q \in top : q[1] = first}}
    <3>1. R \in SUBSET Nat
      BY <2>6
    <3>2. R # {}
      BY <2>7
    <3> HIDE DEF R
    <3>3. Min(R) \in R
      BY <3>1, <3>2, MinExists
    <3> QED
      BY <3>3 DEF R
  <2>9. first \in DOMAIN t /\ second \in DOMAIN t /\ first # second
    <3> HIDE DEF first, second
    <3>1. \A p \in top : p[1] # p[2]
      BY DEF top, P, Pairs
    <3> QED
      BY <2>6, <2>7, <2>8, <3>1
  <2> QED
    <3> HIDE DEF first, second
    <3>1. MostSimilarPair(t) = <<first, second>>
      BY <1>2 DEF MostSimilarPair, P, S, best, top, first, second
    <3> QED
      BY <3>1, <2>9
<1> QED
  BY <1>1, <1>2

\* Pruning picks an entry of the template, and another has as many keypoints.
LEMMA RedundantIndexProperty ==
    ASSUME NEW t \in Seq(Image), Len(t) >= 2
    PROVE  /\ RedundantIndex(t) \in DOMAIN t
           /\ \E j \in DOMAIN t \ {RedundantIndex(t)} :
                 Keypoints(t[j]) >= Keypoints(t[RedundantIndex(t)])
<1> DEFINE pair == MostSimilarPair(t)
<1>1. pair[1] \in DOMAIN t /\ pair[2] \in DOMAIN t /\ pair[1] # pair[2]
  BY MostSimilarPairProperty
<1>2. t[pair[1]] \in Image /\ t[pair[2]] \in Image
  BY <1>1
<1>3. Keypoints(t[pair[1]]) \in Nat /\ Keypoints(t[pair[2]]) \in Nat
  BY <1>2, SigfmAssumption
<1> HIDE DEF pair
<1> QED
  BY <1>1, <1>3 DEF RedundantIndex, pair
=============================================================================
