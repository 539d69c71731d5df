----------------------------- MODULE SumProofs ------------------------------
(***************************************************************************)
(* What SumOver computes: nothing for the empty set, and for any other set *)
(* one element's value plus the sum of the rest, whichever element that is.*)
(*                                                                         *)
(* SumOver is a fold: a function on the subsets of S, defined by taking an *)
(* element that CHOOSE picks.  That this function exists, and that the     *)
(* choice does not matter, is proved by induction on the size of the set.  *)
(* The induction is stated with sets of numbers (SetInduction), and rests  *)
(* on the order of the naturals being well founded.                        *)
(***************************************************************************)
EXTENDS Sums, FiniteSetTheorems, WellFoundedInduction, TLAPS

(* A set of naturals that is not empty has a least element. *)
LEMMA LeastNat ==
  ASSUME NEW S \in SUBSET Nat, S # {}
  PROVE  \E x \in S : \A y \in S : x <= y
<1> DEFINE R == OpToRel(<, Nat)
<1>1. IsWellFoundedOn(R, Nat)
  BY NatLessThanWellFounded
<1>2. R = {p \in Nat \X Nat : p[1] < p[2]}
  BY DEF OpToRel
<1> HIDE DEF R
<1>3. PICK x \in S : \A y \in S : <<y, x>> \notin R
  BY <1>1, WFMin
<1>4. \A y \in S : ~(y < x)
  BY <1>2, <1>3
<1>5. \A y \in S : y \in Nat /\ x \in Nat
  OBVIOUS
<1>6. \A y \in S : x <= y
  BY <1>4, <1>5
<1> QED
  BY <1>6

(* A set that holds zero and the successor of each of its elements holds   *)
(* every natural number.                                                   *)
LEMMA SetInduction ==
  ASSUME NEW N \in SUBSET Nat, 0 \in N, \A n \in N : n + 1 \in N
  PROVE  N = Nat
<1> SUFFICES ASSUME Nat \ N # {} PROVE FALSE
  OBVIOUS
<1>1. PICK x \in Nat \ N : \A y \in Nat \ N : x <= y
  BY LeastNat
<1>2. x # 0 /\ x - 1 \in Nat /\ x - 1 \in N
  BY <1>1
<1> QED
  BY <1>2

(* The size of a finite set without one of its elements *)
LEMMA OneLess ==
  ASSUME NEW S, IsFiniteSet(S), NEW x \in S
  PROVE  /\ IsFiniteSet(S \ {x})
         /\ Cardinality(S) \in Nat /\ Cardinality(S \ {x}) \in Nat
         /\ Cardinality(S) = Cardinality(S \ {x}) + 1
BY FS_RemoveElement, FS_CardinalityType

-----------------------------------------------------------------------------
Chosen(s) == CHOOSE x \in s : TRUE

(* h is the table of the fold over the subsets of size at most n *)
UpTo(D, n) == {s \in SUBSET D : Cardinality(s) <= n}
SumTable(h, f, K) ==
  h = [s \in K |-> IF s = {} THEN 0 ELSE f[Chosen(s)] + h[s \ {Chosen(s)}]]

LEMMA ChosenIn == ASSUME NEW s, s # {} PROVE Chosen(s) \in s
BY DEF Chosen

LEMMA TableExists ==
  ASSUME NEW f, NEW D, IsFiniteSet(D)
  PROVE  \E h : SumTable(h, f, SUBSET D)
<1> DEFINE N == {n \in Nat : \E h : SumTable(h, f, UpTo(D, n))}
<1>1. \A s \in SUBSET D : IsFiniteSet(s) /\ Cardinality(s) \in Nat
  BY FS_Subset, FS_CardinalityType
<1>2. 0 \in N
  <2>1. \A s \in UpTo(D, 0) : s = {}
    BY <1>1, FS_EmptySet DEF UpTo
  <2>2. SumTable([s \in UpTo(D, 0) |-> 0], f, UpTo(D, 0))
    BY <2>1 DEF SumTable
  <2> QED
    BY <2>2
<1>3. ASSUME NEW n \in N PROVE n + 1 \in N
  <2>1. PICK h : SumTable(h, f, UpTo(D, n))
    OBVIOUS
  <2> DEFINE K == UpTo(D, n)
             L == UpTo(D, n + 1)
             g == [s \in L |-> IF s = {} THEN 0 ELSE f[Chosen(s)] + h[s \ {Chosen(s)}]]
  <2>2. \A s \in L : s # {} => s \ {Chosen(s)} \in K
    <3> SUFFICES ASSUME NEW s \in L, s # {} PROVE s \ {Chosen(s)} \in K
      OBVIOUS
    <3>1. IsFiniteSet(s) /\ Chosen(s) \in s /\ s \in SUBSET D /\ Cardinality(s) <= n + 1
      BY <1>1, ChosenIn DEF UpTo
    <3>2. Cardinality(s) = Cardinality(s \ {Chosen(s)}) + 1 /\ Cardinality(s \ {Chosen(s)}) \in Nat
      BY <3>1, OneLess
    <3> QED
      BY <3>1, <3>2 DEF UpTo
  <2>3. K \subseteq L
    BY <1>1 DEF UpTo
  <2>4. \A s \in K : g[s] = h[s]
    BY <2>1, <2>3 DEF SumTable
  <2>5. SumTable(g, f, L)
    BY <2>2, <2>3, <2>4 DEF SumTable
  <2> QED
    BY <2>5
<1> HIDE DEF N
<1>4. N \in SUBSET Nat
  BY DEF N
<1>5. N = Nat
  BY <1>2, <1>3, <1>4, SetInduction
<1>6. Cardinality(D) \in N
  BY <1>1, <1>5
<1>7. UpTo(D, Cardinality(D)) = SUBSET D
  BY FS_Subset DEF UpTo
<1> QED
  BY <1>6, <1>7 DEF N

LEMMA SumIs == \A f, S : SumOver(f, S) = (CHOOSE h : SumTable(h, f, SUBSET S))[S]
BY DEF SumOver, MapThenSumSet, MapThenFoldSet, SumTable, Chosen

(* The table SumOver reads has the value of the sum at every subset. *)
LEMMA SumTableOf ==
  ASSUME NEW f, NEW D, IsFiniteSet(D), NEW h, SumTable(h, f, SUBSET D)
  PROVE  \A s \in SUBSET D : h[s] = SumOver(f, s)
<1>1. ASSUME NEW g, NEW T \in SUBSET D, SumTable(g, f, SUBSET T)
      PROVE  g[T] = h[T]
  <2> DEFINE N == {n \in Nat : \A s \in SUBSET T : Cardinality(s) = n => g[s] = h[s]}
  <2>1. \A s \in SUBSET T : IsFiniteSet(s) /\ Cardinality(s) \in Nat
    BY FS_Subset, FS_CardinalityType
  <2>2. 0 \in N
    <3>1. \A s \in SUBSET T : Cardinality(s) = 0 => s = {}
      BY <2>1, FS_EmptySet
    <3>2. g[{}] = 0 /\ h[{}] = 0
      BY <1>1 DEF SumTable
    <3> QED
      BY <3>1, <3>2
  <2>3. ASSUME NEW n \in N PROVE n + 1 \in N
    <3> SUFFICES ASSUME NEW s \in SUBSET T, Cardinality(s) = n + 1 PROVE g[s] = h[s]
      OBVIOUS
    <3>1. s # {}
      BY FS_EmptySet
    <3>2. Chosen(s) \in s
      BY <3>1, ChosenIn
    <3>3. Cardinality(s \ {Chosen(s)}) = n
      BY <2>1, <3>2, OneLess
    <3>4. g[s \ {Chosen(s)}] = h[s \ {Chosen(s)}]
      BY <3>3
    <3>5. g[s] = f[Chosen(s)] + g[s \ {Chosen(s)}]
      BY <1>1, <3>1 DEF SumTable
    <3>6. h[s] = f[Chosen(s)] + h[s \ {Chosen(s)}]
      BY <3>1 DEF SumTable
    <3> QED
      BY <3>4, <3>5, <3>6
  <2> HIDE DEF N
  <2>4. N \in SUBSET Nat
    BY DEF N
  <2>5. N = Nat
    BY <2>2, <2>3, <2>4, SetInduction
  <2>6. Cardinality(T) \in N
    BY <2>1, <2>5
  <2> QED
    BY <2>6 DEF N
<1> SUFFICES ASSUME NEW T \in SUBSET D PROVE h[T] = SumOver(f, T)
  OBVIOUS
<1>2. \E g : SumTable(g, f, SUBSET T)
  BY TableExists, FS_Subset
<1>3. SumTable(CHOOSE g : SumTable(g, f, SUBSET T), f, SUBSET T)
  BY <1>2
<1> QED
  BY <1>1, <1>3, SumIs

(* The defining equations of the sum *)
LEMMA SumEmpty == \A f : SumOver(f, {}) = 0
<1> SUFFICES ASSUME NEW f PROVE SumOver(f, {}) = 0
  OBVIOUS
<1>1. PICK h : SumTable(h, f, SUBSET {})
  BY TableExists, FS_EmptySet
<1>2. h[{}] = 0
  BY <1>1 DEF SumTable
<1>3. \A s \in SUBSET {} : h[s] = SumOver(f, s)
  BY <1>1, SumTableOf, FS_EmptySet, Zenon
<1>4. {} \in SUBSET {}
  OBVIOUS
<1> QED
  BY <1>2, <1>3, <1>4, Zenon

LEMMA SumStep ==
  ASSUME NEW f, NEW S, IsFiniteSet(S), S # {}
  PROVE  SumOver(f, S) = f[Chosen(S)] + SumOver(f, S \ {Chosen(S)})
<1>1. PICK h : SumTable(h, f, SUBSET S)
  BY TableExists
<1>2. h[S] = f[Chosen(S)] + h[S \ {Chosen(S)}]
  BY <1>1 DEF SumTable
<1>3. \A s \in SUBSET S : h[s] = SumOver(f, s)
  BY <1>1, SumTableOf
<1>4. S \in SUBSET S /\ S \ {Chosen(S)} \in SUBSET S
  OBVIOUS
<1> QED
  BY <1>2, <1>3, <1>4

(* A sum of integers is an integer, a sum of naturals a natural number. *)
LEMMA SumInt ==
  ASSUME NEW f, NEW S, IsFiniteSet(S), \A x \in S : f[x] \in Int
  PROVE  SumOver(f, S) \in Int
<1> DEFINE N == {n \in Nat : \A s \in SUBSET S : Cardinality(s) = n => SumOver(f, s) \in Int}
<1>1. \A s \in SUBSET S : IsFiniteSet(s) /\ Cardinality(s) \in Nat
  BY FS_Subset, FS_CardinalityType
<1>2. 0 \in N
  BY <1>1, FS_EmptySet, SumEmpty
<1>3. ASSUME NEW n \in N PROVE n + 1 \in N
  <2> SUFFICES ASSUME NEW s \in SUBSET S, Cardinality(s) = n + 1 PROVE SumOver(f, s) \in Int
    OBVIOUS
  <2>1. s # {}
    BY FS_EmptySet
  <2>2. Chosen(s) \in s
    BY <2>1, ChosenIn
  <2>3. Cardinality(s \ {Chosen(s)}) = n
    BY <1>1, <2>2, OneLess
  <2>4. SumOver(f, s \ {Chosen(s)}) \in Int
    BY <2>3
  <2>5. SumOver(f, s) = f[Chosen(s)] + SumOver(f, s \ {Chosen(s)})
    BY <1>1, <2>1, SumStep
  <2> QED
    BY <2>2, <2>4, <2>5
<1> HIDE DEF N
<1>4. N \in SUBSET Nat
  BY DEF N
<1>5. N = Nat
  BY <1>2, <1>3, <1>4, SetInduction
<1>6. Cardinality(S) \in N
  BY <1>1, <1>5
<1> QED
  BY <1>6 DEF N

(* The choice does not matter: any element may be taken first. *)
LEMMA SumTake ==
  ASSUME NEW f, NEW S, IsFiniteSet(S), \A x \in S : f[x] \in Int, NEW a \in S
  PROVE  SumOver(f, S) = f[a] + SumOver(f, S \ {a})
<1> DEFINE N == {n \in Nat : \A s \in SUBSET S : Cardinality(s) = n =>
                               \A x \in s : SumOver(f, s) = f[x] + SumOver(f, s \ {x})}
<1>1. \A s \in SUBSET S : IsFiniteSet(s) /\ Cardinality(s) \in Nat
  BY FS_Subset, FS_CardinalityType
<1>2. 0 \in N
  BY <1>1, FS_EmptySet
<1>3. ASSUME NEW n \in N PROVE n + 1 \in N
  <2> SUFFICES ASSUME NEW s \in SUBSET S, Cardinality(s) = n + 1, NEW x \in s
               PROVE  SumOver(f, s) = f[x] + SumOver(f, s \ {x})
    OBVIOUS
  <2> DEFINE y == Chosen(s)
  <2>1. y \in s /\ SumOver(f, s) = f[y] + SumOver(f, s \ {y})
    BY <1>1, ChosenIn, SumStep
  <2> HIDE DEF y
  <2>2. CASE x = y
    BY <2>1, <2>2
  <2>3. CASE x # y
    <3> DEFINE r == (s \ {y}) \ {x}
    <3>1. r = (s \ {x}) \ {y} /\ r \in SUBSET S
      OBVIOUS
    <3>2. Cardinality(s \ {y}) = n /\ Cardinality(s \ {x}) = n
      BY <1>1, <2>1, OneLess
    <3>3. SumOver(f, s \ {y}) = f[x] + SumOver(f, r)
      BY <2>3, <3>2
    <3>4. SumOver(f, s \ {x}) = f[y] + SumOver(f, (s \ {x}) \ {y})
      BY <2>1, <2>3, <3>2
    <3> HIDE DEF r
    <3>5. SumOver(f, r) \in Int /\ f[x] \in Int /\ f[y] \in Int
      <4>1. IsFiniteSet(r) /\ \A z \in r : f[z] \in Int
        BY <1>1, <3>1
      <4>2. SumOver(f, r) \in Int
        BY <4>1, SumInt
      <4> QED
        BY <2>1, <4>2
    <3> QED
      BY <2>1, <3>1, <3>3, <3>4, <3>5
  <2> QED
    BY <2>2, <2>3
<1> HIDE DEF N
<1>4. N \in SUBSET Nat
  BY DEF N
<1>5. N = Nat
  BY <1>2, <1>3, <1>4, SetInduction
<1>6. Cardinality(S) \in N
  BY <1>1, <1>5
<1> QED
  BY <1>6 DEF N

-----------------------------------------------------------------------------
(* A family of subsets of a finite set that holds the empty one, and with  *)
(* each subset those with one element more, holds the set.                 *)
LEMMA SubsetInduction ==
  ASSUME NEW S, IsFiniteSet(S), NEW Q \in SUBSET (SUBSET S), {} \in Q,
         \A s \in Q : \A x \in S \ s : s \cup {x} \in Q
  PROVE  S \in Q
<1> DEFINE N == {n \in Nat : \A s \in SUBSET S : Cardinality(s) = n => s \in Q}
<1>1. \A s \in SUBSET S : IsFiniteSet(s) /\ Cardinality(s) \in Nat
  BY FS_Subset, FS_CardinalityType
<1>2. 0 \in N
  BY <1>1, FS_EmptySet
<1>3. ASSUME NEW n \in N PROVE n + 1 \in N
  <2> SUFFICES ASSUME NEW s \in SUBSET S, Cardinality(s) = n + 1 PROVE s \in Q
    OBVIOUS
  <2>1. s # {}
    BY FS_EmptySet
  <2>2. PICK x \in s : TRUE
    BY <2>1
  <2>3. Cardinality(s \ {x}) = n
    BY <1>1, OneLess
  <2>4. s \ {x} \in Q
    BY <2>3
  <2>5. s = (s \ {x}) \cup {x} /\ x \in S \ (s \ {x})
    OBVIOUS
  <2> QED
    BY <2>4, <2>5
<1> HIDE DEF N
<1>4. N \in SUBSET Nat
  BY DEF N
<1>5. N = Nat
  BY <1>2, <1>3, <1>4, SetInduction
<1>6. Cardinality(S) \in N
  BY <1>1, <1>5
<1> QED
  BY <1>6 DEF N

(* One more element adds its value. *)
LEMMA SumAdd ==
  ASSUME NEW f, NEW S, IsFiniteSet(S), \A x \in S : f[x] \in Int,
         NEW a, a \notin S, f[a] \in Int
  PROVE  /\ SumOver(f, S \cup {a}) = f[a] + SumOver(f, S)
         /\ SumOver(f, S) \in Int
<1> DEFINE T == S \cup {a}
<1>1. IsFiniteSet(T) /\ a \in T /\ T \ {a} = S /\ \A x \in T : f[x] \in Int
  BY FS_AddElement
<1> HIDE DEF T
<1>2. SumOver(f, T) = f[a] + SumOver(f, T \ {a})
  BY <1>1, SumTake
<1> QED
  BY <1>1, <1>2, SumInt DEF T

(* Sums are compared and added value by value. *)
LEMMA SumPlus ==
  ASSUME NEW f, NEW g, NEW h, NEW S, IsFiniteSet(S),
         \A x \in S : f[x] \in Int /\ g[x] \in Int /\ h[x] = f[x] + g[x]
  PROVE  SumOver(h, S) = SumOver(f, S) + SumOver(g, S)
<1> DEFINE Q == {s \in SUBSET S : SumOver(h, s) = SumOver(f, s) + SumOver(g, s)}
<1>1. {} \in Q
  BY SumEmpty
<1>2. ASSUME NEW s \in Q, NEW x \in S \ s PROVE s \cup {x} \in Q
  <2>1. IsFiniteSet(s) /\ s \in SUBSET S
    BY FS_Subset
  <2>2. /\ \A y \in s : f[y] \in Int /\ g[y] \in Int /\ h[y] \in Int
        /\ f[x] \in Int /\ g[x] \in Int /\ h[x] \in Int
    BY <2>1
  <2>3. SumOver(f, s \cup {x}) = f[x] + SumOver(f, s) /\ SumOver(f, s) \in Int
    BY <2>1, <2>2, SumAdd
  <2>4. SumOver(g, s \cup {x}) = g[x] + SumOver(g, s) /\ SumOver(g, s) \in Int
    BY <2>1, <2>2, SumAdd
  <2>5. SumOver(h, s \cup {x}) = h[x] + SumOver(h, s)
    BY <2>1, <2>2, SumAdd
  <2>6. SumOver(h, s \cup {x}) = SumOver(f, s \cup {x}) + SumOver(g, s \cup {x})
    BY <2>2, <2>3, <2>4, <2>5
  <2> QED
    BY <2>1, <2>6
<1> HIDE DEF Q
<1>3. Q \in SUBSET (SUBSET S)
  BY DEF Q
<1>4. S \in Q
  BY <1>1, <1>2, <1>3, SubsetInduction
<1> QED
  BY <1>4 DEF Q

LEMMA SumLess ==
  ASSUME NEW f, NEW g, NEW S, IsFiniteSet(S),
         \A x \in S : f[x] \in Int /\ g[x] \in Int /\ f[x] <= g[x]
  PROVE  SumOver(f, S) <= SumOver(g, S)
<1> DEFINE Q == {s \in SUBSET S : SumOver(f, s) <= SumOver(g, s)}
<1>1. {} \in Q
  BY SumEmpty
<1>2. ASSUME NEW s \in Q, NEW x \in S \ s PROVE s \cup {x} \in Q
  <2>1. IsFiniteSet(s) /\ s \in SUBSET S
    BY FS_Subset
  <2>2. /\ \A y \in s : f[y] \in Int /\ g[y] \in Int
        /\ f[x] \in Int /\ g[x] \in Int /\ f[x] <= g[x]
    BY <2>1
  <2>3. SumOver(f, s \cup {x}) = f[x] + SumOver(f, s) /\ SumOver(f, s) \in Int
    BY <2>1, <2>2, SumAdd
  <2>4. SumOver(g, s \cup {x}) = g[x] + SumOver(g, s) /\ SumOver(g, s) \in Int
    BY <2>1, <2>2, SumAdd
  <2>5. SumOver(f, s \cup {x}) <= SumOver(g, s \cup {x})
    BY <2>2, <2>3, <2>4
  <2> QED
    BY <2>1, <2>5
<1> HIDE DEF Q
<1>3. Q \in SUBSET (SUBSET S)
  BY DEF Q
<1>4. S \in Q
  BY <1>1, <1>2, <1>3, SubsetInduction
<1> QED
  BY <1>4 DEF Q

LEMMA SumSame ==
  ASSUME NEW f, NEW g, NEW S, IsFiniteSet(S), \A x \in S : f[x] \in Int /\ f[x] = g[x]
  PROVE  SumOver(f, S) = SumOver(g, S)
<1>1. SumOver(f, S) <= SumOver(g, S) /\ SumOver(g, S) <= SumOver(f, S)
  BY SumLess
<1>2. SumOver(f, S) \in Int /\ SumOver(g, S) \in Int
  BY SumInt
<1> QED
  BY <1>1, <1>2

(* A sum of zeros is zero, and a sum of naturals a natural number. *)
LEMMA SumZero ==
  ASSUME NEW f, NEW S, IsFiniteSet(S), \A x \in S : f[x] = 0
  PROVE  SumOver(f, S) = 0
<1> DEFINE Q == {s \in SUBSET S : SumOver(f, s) = 0}
<1>1. {} \in Q
  BY SumEmpty
<1>2. ASSUME NEW s \in Q, NEW x \in S \ s PROVE s \cup {x} \in Q
  <2>1. s \in SUBSET S /\ SumOver(f, s) = 0
    OBVIOUS
  <2>2. IsFiniteSet(s) /\ \A y \in s \cup {x} : f[y] \in Int
    BY <2>1, FS_Subset
  <2>3. SumOver(f, s \cup {x}) = f[x] + SumOver(f, s)
    BY <2>2, SumAdd
  <2> QED
    BY <2>1, <2>3
<1> HIDE DEF Q
<1>3. Q \in SUBSET (SUBSET S)
  BY DEF Q
<1>4. S \in Q
  BY <1>1, <1>2, <1>3, SubsetInduction
<1> QED
  BY <1>4 DEF Q

LEMMA SumNat ==
  ASSUME NEW f, NEW S, IsFiniteSet(S), \A x \in S : f[x] \in Nat
  PROVE  SumOver(f, S) \in Nat
<1> DEFINE z == [x \in S |-> 0]
<1>1. SumOver(z, S) = 0
  BY SumZero
<1>2. SumOver(z, S) <= SumOver(f, S)
  BY SumLess
<1>3. SumOver(f, S) \in Int
  BY SumInt
<1> QED
  BY <1>1, <1>2, <1>3

(* A sum is the sum over a part and the sum over the rest. *)
LEMMA SumSplit ==
  ASSUME NEW f, NEW S, IsFiniteSet(S), \A x \in S : f[x] \in Int, NEW A \in SUBSET S
  PROVE  SumOver(f, S) = SumOver(f, A) + SumOver(f, S \ A)
<1> DEFINE Q == {s \in SUBSET A : SumOver(f, S) = SumOver(f, s) + SumOver(f, S \ s)}
<1>1. {} \in Q
  <2>1. S \ {} = S
    OBVIOUS
  <2> QED
    BY <2>1, SumEmpty, SumInt
<1>2. ASSUME NEW s \in Q, NEW x \in A \ s PROVE s \cup {x} \in Q
  <2>1. s \in SUBSET A /\ SumOver(f, S) = SumOver(f, s) + SumOver(f, S \ s)
    OBVIOUS
  <2>2. IsFiniteSet(s) /\ IsFiniteSet(S \ s) /\ f[x] \in Int /\ \A y \in s : f[y] \in Int
    BY <2>1, FS_Subset
  <2>3. SumOver(f, s \cup {x}) = f[x] + SumOver(f, s) /\ SumOver(f, s) \in Int
    BY <2>2, SumAdd
  <2>4. x \in S \ s /\ (S \ s) \ {x} = S \ (s \cup {x}) /\ \A y \in S \ s : f[y] \in Int
    OBVIOUS
  <2>5. SumOver(f, S \ s) = f[x] + SumOver(f, S \ (s \cup {x}))
    BY <2>2, <2>4, SumTake
  <2>6. SumOver(f, S \ (s \cup {x})) \in Int
    BY <2>2, <2>4, SumInt, FS_Subset
  <2>7. SumOver(f, S) = SumOver(f, s \cup {x}) + SumOver(f, S \ (s \cup {x}))
    BY <2>1, <2>2, <2>3, <2>5, <2>6
  <2> QED
    BY <2>1, <2>7
<1> HIDE DEF Q
<1>3. Q \in SUBSET (SUBSET A)
  BY DEF Q
<1>4. A \in Q
  BY <1>1, <1>2, <1>3, FS_Subset, SubsetInduction
<1> QED
  BY <1>4 DEF Q

(* A change of one value changes the sum by as much. *)
LEMMA SumChange ==
  ASSUME NEW f, NEW g, NEW S, IsFiniteSet(S), NEW a \in S,
         \A x \in S : f[x] \in Int /\ g[x] \in Int /\ (x # a => f[x] = g[x])
  PROVE  /\ SumOver(f, S) \in Int
         /\ SumOver(g, S) = SumOver(f, S) + (g[a] - f[a])
<1>1. SumOver(f, S) = f[a] + SumOver(f, S \ {a}) /\ SumOver(g, S) = g[a] + SumOver(g, S \ {a})
  BY SumTake
<1>2. SumOver(f, S \ {a}) = SumOver(g, S \ {a})
  BY SumSame, FS_Subset
<1>3. SumOver(f, S \ {a}) \in Int /\ SumOver(f, S) \in Int
  BY SumInt, FS_Subset
<1> QED
  BY <1>1, <1>2, <1>3
-----------------------------------------------------------------------------
(* What Only returns: h is the table of its recursion up to n *)
Taken(r, x, S) == IF x \in S THEN Append(r, x) ELSE r
OnlyTable(h, s, S, n) ==
  h = [m \in 0 .. n |-> IF m = 0 THEN <<>> ELSE Taken(h[m - 1], s[m], S)]

LEMMA OnlyTableExists ==
  ASSUME NEW s, NEW S, NEW n \in Nat
  PROVE  \E h : OnlyTable(h, s, S, n)
<1> DEFINE N == {k \in Nat : \E h : OnlyTable(h, s, S, k)}
<1>1. 0 \in N
  <2>1. OnlyTable([m \in 0 .. 0 |-> <<>>], s, S, 0)
    BY DEF OnlyTable
  <2> QED
    BY <2>1
<1>2. ASSUME NEW k \in N PROVE k + 1 \in N
  <2>1. PICK h : OnlyTable(h, s, S, k)
    OBVIOUS
  <2> DEFINE g == [m \in 0 .. k + 1 |-> IF m = 0 THEN <<>> ELSE Taken(h[m - 1], s[m], S)]
  <2>2. \A m \in 0 .. k : g[m] = h[m]
    BY <2>1 DEF OnlyTable
  <2>3. \A m \in 0 .. k + 1 : m # 0 => m - 1 \in 0 .. k
    OBVIOUS
  <2>4. OnlyTable(g, s, S, k + 1)
    BY <2>2, <2>3 DEF OnlyTable
  <2> QED
    BY <2>4
<1> HIDE DEF N
<1>3. N \in SUBSET Nat
  BY DEF N
<1>4. N = Nat
  BY <1>1, <1>2, <1>3, SetInduction
<1> QED
  BY <1>4 DEF N

LEMMA OnlyIs == \A s, S : Only(s, S) = (CHOOSE h : OnlyTable(h, s, S, Len(s)))[Len(s)]
BY DEF Only, OnlyTable, Taken

LEMMA OnlyIn ==
  ASSUME NEW s, Len(s) \in Nat, NEW S
  PROVE  Only(s, S) \in Seq(S)
<1>1. PICK h : OnlyTable(h, s, S, Len(s)) /\ Only(s, S) = h[Len(s)]
  BY OnlyTableExists, OnlyIs
<1> DEFINE N == {m \in Nat : m <= Len(s) => h[m] \in Seq(S)}
<1>2. 0 \in N
  BY <1>1 DEF OnlyTable
<1>3. ASSUME NEW m \in N PROVE m + 1 \in N
  <2> SUFFICES ASSUME m + 1 <= Len(s) PROVE h[m + 1] \in Seq(S)
    OBVIOUS
  <2>1. h[m] \in Seq(S) /\ m + 1 \in 0 .. Len(s) /\ m + 1 # 0 /\ (m + 1) - 1 = m
    OBVIOUS
  <2>2. h[m + 1] = Taken(h[m], s[m + 1], S)
    BY <1>1, <2>1 DEF OnlyTable
  <2> QED
    BY <2>1, <2>2 DEF Taken
<1> HIDE DEF N
<1>4. N \in SUBSET Nat
  BY DEF N
<1>5. N = Nat
  BY <1>2, <1>3, <1>4, SetInduction
<1> QED
  BY <1>1, <1>5 DEF N

LEMMA OnlyOf ==
  ASSUME NEW s, Len(s) \in Nat, NEW S, NEW x
  PROVE  (\E i \in DOMAIN Only(s, S) : Only(s, S)[i] = x) <=> (x \in S /\ \E i \in 1 .. Len(s) : s[i] = x)
<1>1. PICK h : OnlyTable(h, s, S, Len(s)) /\ Only(s, S) = h[Len(s)]
  BY OnlyTableExists, OnlyIs
<1> DEFINE Has(q) == \E i \in DOMAIN q : q[i] = x
           Due(m) == x \in S /\ \E i \in 1 .. m : s[i] = x
           N == {m \in Nat : m <= Len(s) => h[m] \in Seq(S) /\ (Has(h[m]) <=> Due(m))}
<1>2. 0 \in N
  <2>1. h[0] = <<>>
    BY <1>1 DEF OnlyTable
  <2>2. <<>> \in Seq(S) /\ ~Has(<<>>) /\ ~Due(0)
    OBVIOUS
  <2>3. h[0] \in Seq(S) /\ (Has(h[0]) <=> Due(0))
    BY <2>1, <2>2, Zenon
  <2> HIDE DEF Has, Due
  <2> QED
    BY <2>3
<1>3. ASSUME NEW m \in N PROVE m + 1 \in N
  <2> SUFFICES ASSUME m + 1 <= Len(s)
               PROVE  h[m + 1] \in Seq(S) /\ (Has(h[m + 1]) <=> Due(m + 1))
    OBVIOUS
  <2>1. /\ h[m] \in Seq(S) /\ (Has(h[m]) <=> Due(m))
        /\ m + 1 \in 0 .. Len(s) /\ m + 1 # 0 /\ (m + 1) - 1 = m
    OBVIOUS
  <2>2. h[m + 1] = Taken(h[m], s[m + 1], S)
    BY <1>1, <2>1 DEF OnlyTable
  <2>3. Due(m + 1) <=> Due(m) \/ (x \in S /\ s[m + 1] = x)
    <3>1. \A i \in 1 .. (m + 1) : i \in 1 .. m \/ i = m + 1
      OBVIOUS
    <3>2. m + 1 \in 1 .. (m + 1) /\ \A i \in 1 .. m : i \in 1 .. (m + 1)
      OBVIOUS
    <3> QED
      BY <3>1, <3>2, Zenon
  <2> HIDE DEF Due
  <2>4. CASE s[m + 1] \in S
    <3> DEFINE q == h[m]
               y == s[m + 1]
               r == Append(q, y)
    <3>1. h[m + 1] = r
      BY <2>2, <2>4 DEF Taken
    <3>2. /\ r \in Seq(S) /\ DOMAIN r = 1 .. (Len(q) + 1) /\ r[Len(q) + 1] = y
          /\ DOMAIN q = 1 .. Len(q) /\ Len(q) \in Nat /\ \A i \in 1 .. Len(q) : r[i] = q[i]
      BY <2>1, <2>4
    <3> HIDE DEF r, y, q
    <3>3. Has(r) <=> Has(q) \/ y = x
      BY <3>2
    <3> QED
      BY <2>1, <2>3, <2>4, <3>1, <3>2, <3>3 DEF q, y
  <2>5. CASE s[m + 1] \notin S
    BY <2>1, <2>2, <2>3, <2>5 DEF Taken
  <2> QED
    BY <2>4, <2>5
<1> HIDE DEF N
<1>4. N \in SUBSET Nat
  BY DEF N
<1>5. N = Nat
  BY <1>2, <1>3, <1>4, SetInduction
<1> QED
  BY <1>1, <1>5 DEF N

=============================================================================
