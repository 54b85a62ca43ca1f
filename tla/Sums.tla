-------------------------------- MODULE Sums --------------------------------
(***************************************************************************)
(* What the fold SumFunctionOnSet computes over a finite set: the laws of    *)
(* addition that the proofs about the stock and about the daily reports      *)
(* need.  The library's induction theorems take an operator as a parameter,  *)
(* which no prover here can instantiate; the two below take a set.           *)
(***************************************************************************)
EXTENDS FiniteSetTheorems, TLAPS

(* Induction. *)

\* A set of numbers that has 0 and the successor of each of its members has every number.
LEMMA NatSetInduction ==
  ASSUME NEW G, 0 \in G, \A n \in Nat : n \in G => n + 1 \in G
  PROVE  Nat \subseteq G
<1> DEFINE R == {p \in Nat \X Nat : p[1] < p[2]}
           T == Nat \ G
<1>1. IsWellFoundedOn(R, Nat) BY NatLessThanWellFounded DEF OpToRel
<1>2. SUFFICES ASSUME T # {} PROVE FALSE OBVIOUS
<1>3. PICK n \in T : \A m \in T : ~(<<m, n>> \in R) BY <1>1, <1>2, WFMin
<1>4. n \in Nat /\ n # 0 BY <1>3
<1>5. n - 1 \in Nat /\ (n - 1) + 1 = n BY <1>4
<1>6. n - 1 \notin G BY <1>3, <1>5
<1>7. <<n - 1, n>> \in R BY <1>4, <1>5
<1> QED BY <1>3, <1>5, <1>6, <1>7

\* A set that has the empty set, and with a part of S what one more element makes of it, has S.
LEMMA SetInduction ==
  ASSUME NEW S, IsFiniteSet(S), NEW G, {} \in G,
         \A s \in SUBSET S : \A x \in S \ s : s \in G => s \cup {x} \in G
  PROVE  S \in G
<1> DEFINE T == (SUBSET S) \ G
           R == StrictSubsetOrdering(S)
<1>1. IsWellFoundedOn(R, SUBSET S)
  BY FS_StrictSubsetOrderingWellFounded, FS_FiniteSubsetsOfFinite
<1>2. SUFFICES ASSUME S \notin G PROVE FALSE OBVIOUS
<1>3. T # {} /\ T \subseteq SUBSET S BY <1>2
<1>4. PICK t \in T : \A u \in T : ~(<<u, t>> \in R) BY <1>1, <1>3, WFMin
<1>5. PICK x : x \in t BY <1>4
<1>6. t \ {x} \in SUBSET S /\ x \in S \ (t \ {x}) /\ (t \ {x}) \cup {x} = t BY <1>4, <1>5
<1>7. t \ {x} \notin G BY <1>4, <1>6
<1>8. <<t \ {x}, t>> \in R BY <1>4, <1>5, <1>6 DEF StrictSubsetOrdering
<1> QED BY <1>4, <1>6, <1>7, <1>8

----------------------------------------------------------------------------
(* The fold. *)

\* An element of a set that is not empty: the one the fold takes first.
First(s) == CHOOSE x \in s : TRUE

LEMMA FirstIn == \A s : s # {} => First(s) \in s
BY DEF First

\* g is the fold's function over the parts of S.
IsSum(g, f, S) ==
    g = [s \in SUBSET S |-> IF s = {} THEN 0 ELSE f[First(s)] + g[s \ {First(s)}]]

LEMMA SumIsFold == \A f, S : SumFunctionOnSet(f, S) = (CHOOSE g : IsSum(g, f, S))[S]
BY DEF SumFunctionOnSet, FoldFunctionOnSet, MapThenFoldSet, IsSum, First

\* The parts of S with at most n elements.
Small(S, n) == {s \in SUBSET S : Cardinality(s) <= n}

IsSmallSum(g, f, S, n) ==
    g = [s \in Small(S, n) |-> IF s = {} THEN 0 ELSE f[First(s)] + g[s \ {First(s)}]]

\* There is such a function: it is built one cardinality after the other.
LEMMA SumExists ==
  ASSUME NEW S, IsFiniteSet(S), NEW f
  PROVE  \E g : IsSum(g, f, S)
<1> DEFINE G == {n \in Nat : \E g : IsSmallSum(g, f, S, n)}
<1>1. \A s \in SUBSET S : IsFiniteSet(s) /\ Cardinality(s) \in Nat /\ (Cardinality(s) = 0 <=> s = {})
  BY FS_Subset, FS_CardinalityType, FS_EmptySet
<1>2. \A s \in SUBSET S : s # {} => /\ First(s) \in s /\ s \ {First(s)} \in SUBSET S
                                   /\ Cardinality(s \ {First(s)}) = Cardinality(s) - 1
  BY <1>1, FirstIn, FS_RemoveElement
<1>3. 0 \in G
  <2> DEFINE g == [s \in Small(S, 0) |-> 0]
  <2>1. \A s \in Small(S, 0) : s = {} BY <1>1 DEF Small
  <2>2. IsSmallSum(g, f, S, 0) BY <2>1 DEF IsSmallSum
  <2> QED BY <2>2
<1>4. \A n \in Nat : n \in G => n + 1 \in G
  <2> SUFFICES ASSUME NEW n \in Nat, n \in G PROVE n + 1 \in G OBVIOUS
  <2>1. PICK h : IsSmallSum(h, f, S, n) OBVIOUS
  <2> DEFINE g == [s \in Small(S, n + 1) |-> IF s = {} THEN 0 ELSE f[First(s)] + h[s \ {First(s)}]]
  <2>2. \A s \in Small(S, n) : h[s] = IF s = {} THEN 0 ELSE f[First(s)] + h[s \ {First(s)}]
    BY <2>1 DEF IsSmallSum
  <2>3. Small(S, n) \subseteq Small(S, n + 1) BY <1>1 DEF Small
  <2>4. \A s \in Small(S, n) : g[s] = h[s] BY <2>2, <2>3
  <2>5. \A s \in Small(S, n + 1) : s # {} => s \ {First(s)} \in Small(S, n) BY <1>1, <1>2 DEF Small
  <2>6. \A s \in Small(S, n + 1) : s # {} => g[s \ {First(s)}] = h[s \ {First(s)}] BY <2>4, <2>5
  <2>7. g = [s \in Small(S, n + 1) |-> IF s = {} THEN 0 ELSE f[First(s)] + g[s \ {First(s)}]]
    BY <2>6
  <2>8. IsSmallSum(g, f, S, n + 1) BY <2>7 DEF IsSmallSum
  <2> QED BY <2>8
<1>5. Cardinality(S) \in Nat BY FS_CardinalityType
<1>6. Cardinality(S) \in G BY <1>3, <1>4, <1>5, NatSetInduction
<1>7. Small(S, Cardinality(S)) = SUBSET S BY FS_Subset DEF Small
<1> QED BY <1>6, <1>7 DEF IsSmallSum, IsSum

\* The fold's function over the parts of S, and what it does with one part.
Fold(f, S) == CHOOSE g : IsSum(g, f, S)

LEMMA FoldOfPart ==
  ASSUME NEW S, IsFiniteSet(S), NEW f, NEW s \in SUBSET S
  PROVE  Fold(f, S)[s] = IF s = {} THEN 0 ELSE f[First(s)] + Fold(f, S)[s \ {First(s)}]
<1>1. IsSum(Fold(f, S), f, S) BY SumExists DEF Fold
<1>2. PICK g : g = Fold(f, S) OBVIOUS
<1> QED BY <1>1, <1>2 DEF IsSum

\* Which set the fold started from makes no difference to a part of it.
LEMMA FoldsAgree ==
  ASSUME NEW S, IsFiniteSet(S), NEW f, NEW T \in SUBSET S
  PROVE  \A s \in SUBSET T : Fold(f, T)[s] = Fold(f, S)[s]
<1> DEFINE G == {n \in Nat : \A s \in SUBSET T : Cardinality(s) = n => Fold(f, T)[s] = Fold(f, S)[s]}
<1>1. IsFiniteSet(T) BY FS_Subset
<1>2. \A s \in SUBSET T : IsFiniteSet(s) /\ Cardinality(s) \in Nat /\ (Cardinality(s) = 0 <=> s = {})
  BY <1>1, FS_Subset, FS_CardinalityType, FS_EmptySet
<1>3. \A s \in SUBSET T :
        /\ Fold(f, T)[s] = IF s = {} THEN 0 ELSE f[First(s)] + Fold(f, T)[s \ {First(s)}]
        /\ Fold(f, S)[s] = IF s = {} THEN 0 ELSE f[First(s)] + Fold(f, S)[s \ {First(s)}]
  BY <1>1, FoldOfPart
<1>4. 0 \in G BY <1>2, <1>3
<1>5. \A n \in Nat : n \in G => n + 1 \in G
  <2> SUFFICES ASSUME NEW n \in Nat, n \in G,
                      NEW s \in SUBSET T, Cardinality(s) = n + 1
               PROVE  Fold(f, T)[s] = Fold(f, S)[s]
    OBVIOUS
  <2>1. s # {} BY <1>2
  <2>2. First(s) \in s BY <2>1, FirstIn
  <2>3. s \ {First(s)} \in SUBSET T /\ Cardinality(s \ {First(s)}) = n
    BY <1>2, <2>2, FS_RemoveElement
  <2> QED BY <1>3, <2>1, <2>3
<1>6. Nat \subseteq G BY <1>4, <1>5, NatSetInduction
<1> QED BY <1>2, <1>6

----------------------------------------------------------------------------
(* Sums. *)

LEMMA SumEmpty == \A f : SumFunctionOnSet(f, {}) = 0
<1>1. IsFiniteSet({}) BY FS_EmptySet
<1> QED BY <1>1, SumIsFold, FoldOfPart DEF Fold

LEMMA SumFirst ==
  ASSUME NEW S, IsFiniteSet(S), S # {}, NEW f
  PROVE  SumFunctionOnSet(f, S) = f[First(S)] + SumFunctionOnSet(f, S \ {First(S)})
<1>1. Fold(f, S)[S] = f[First(S)] + Fold(f, S)[S \ {First(S)}] BY FoldOfPart
<1>2. Fold(f, S \ {First(S)})[S \ {First(S)}] = Fold(f, S)[S \ {First(S)}] BY FoldsAgree
<1> QED BY <1>1, <1>2, SumIsFold DEF Fold

\* A sum of integers is an integer.
LEMMA SumIsInt ==
  ASSUME NEW S, IsFiniteSet(S), NEW f, \A x \in S : f[x] \in Int
  PROVE  SumFunctionOnSet(f, S) \in Int
<1> DEFINE G == {n \in Nat : \A s \in SUBSET S : Cardinality(s) = n => SumFunctionOnSet(f, s) \in Int}
<1>1. \A s \in SUBSET S : IsFiniteSet(s) /\ Cardinality(s) \in Nat /\ (Cardinality(s) = 0 <=> s = {})
  BY FS_Subset, FS_CardinalityType, FS_EmptySet
<1>2. 0 \in G BY <1>1, SumEmpty
<1>3. \A n \in Nat : n \in G => n + 1 \in G
  <2> SUFFICES ASSUME NEW n \in Nat, n \in G, NEW s \in SUBSET S, Cardinality(s) = n + 1
               PROVE  SumFunctionOnSet(f, s) \in Int
    OBVIOUS
  <2>1. s # {} /\ IsFiniteSet(s) BY <1>1
  <2>2. First(s) \in s BY <2>1, FirstIn
  <2>3. s \ {First(s)} \in SUBSET S /\ Cardinality(s \ {First(s)}) = n
    BY <1>1, <2>2, FS_RemoveElement
  <2>4. SumFunctionOnSet(f, s \ {First(s)}) \in Int BY <2>3
  <2>5. f[First(s)] \in Int BY <2>2
  <2>6. SumFunctionOnSet(f, s) = f[First(s)] + SumFunctionOnSet(f, s \ {First(s)}) BY <2>1, SumFirst
  <2> QED BY <2>4, <2>5, <2>6
<1>4. Nat \subseteq G BY <1>2, <1>3, NatSetInduction
<1> QED BY <1>1, <1>4

\* Any element of s can be split off.
Splits(f, s) == \A x \in s : SumFunctionOnSet(f, s) = f[x] + SumFunctionOnSet(f, s \ {x})

\* Which element the fold takes first makes no difference.
LEMMA SumSplit ==
  ASSUME NEW S, IsFiniteSet(S), NEW f, \A x \in S : f[x] \in Int
  PROVE  Splits(f, S)
<1> DEFINE G == {n \in Nat : \A s \in SUBSET S : Cardinality(s) = n => Splits(f, s)}
<1>1. \A s \in SUBSET S : /\ IsFiniteSet(s) /\ Cardinality(s) \in Nat /\ (Cardinality(s) = 0 <=> s = {})
                          /\ SumFunctionOnSet(f, s) \in Int
  BY FS_Subset, FS_CardinalityType, FS_EmptySet, SumIsInt
<1>2. 0 \in G BY <1>1 DEF Splits
<1>3. \A n \in Nat : n \in G => n + 1 \in G
  <2> SUFFICES ASSUME NEW n \in Nat, n \in G, NEW s \in SUBSET S, Cardinality(s) = n + 1 PROVE Splits(f, s)
    OBVIOUS
  <2> SUFFICES ASSUME NEW x \in s
               PROVE  SumFunctionOnSet(f, s) = f[x] + SumFunctionOnSet(f, s \ {x})
    BY DEF Splits
  <2>1. PICK y : y = First(s) OBVIOUS
  <2>2. y \in s BY <2>1, FirstIn
  <2>3. SumFunctionOnSet(f, s) = f[y] + SumFunctionOnSet(f, s \ {y}) BY <1>1, <2>1, SumFirst
  <2>4. CASE x = y BY <2>3, <2>4
  <2>5. CASE x # y
    <3>1. \A z \in s : s \ {z} \in SUBSET S /\ Cardinality(s \ {z}) = n
      <4> SUFFICES ASSUME NEW z \in s PROVE Cardinality(s \ {z}) = n OBVIOUS
      <4>1. IsFiniteSet(s) /\ Cardinality(s) = n + 1 BY <1>1
      <4>2. Cardinality(s \ {z}) = Cardinality(s) - 1 BY <4>1, FS_RemoveElement
      <4> QED BY <4>1, <4>2
    <3>2. SumFunctionOnSet(f, s \ {y}) = f[x] + SumFunctionOnSet(f, (s \ {y}) \ {x})
      BY <2>2, <2>5, <3>1 DEF Splits
    <3>3. SumFunctionOnSet(f, s \ {x}) = f[y] + SumFunctionOnSet(f, (s \ {x}) \ {y})
      BY <2>2, <2>5, <3>1 DEF Splits
    <3>4. (s \ {x}) \ {y} = (s \ {y}) \ {x} /\ (s \ {y}) \ {x} \in SUBSET S OBVIOUS
    <3>5. SumFunctionOnSet(f, (s \ {y}) \ {x}) \in Int /\ f[x] \in Int /\ f[y] \in Int BY <1>1, <2>2, <3>4
    <3>6. PICK r : r = SumFunctionOnSet(f, (s \ {y}) \ {x}) OBVIOUS
    <3>7. SumFunctionOnSet(f, s) = f[y] + (f[x] + r) BY <2>3, <3>2, <3>6
    <3>8. SumFunctionOnSet(f, s \ {x}) = f[y] + r BY <3>3, <3>4, <3>6
    <3> QED BY ONLY <3>5, <3>6, <3>7, <3>8
  <2> QED BY <2>4, <2>5
<1>4. Nat \subseteq G BY <1>2, <1>3, NatSetInduction
<1> QED BY <1>1, <1>4

\* One more element.
LEMMA SumAdd ==
  ASSUME NEW S, IsFiniteSet(S), NEW x, x \notin S, NEW f, \A y \in S \cup {x} : f[y] \in Int
  PROVE  SumFunctionOnSet(f, S \cup {x}) = f[x] + SumFunctionOnSet(f, S)
<1>1. IsFiniteSet(S \cup {x}) /\ (S \cup {x}) \ {x} = S BY FS_AddElement
<1> QED BY <1>1, SumSplit DEF Splits

\* Functions that agree on a set have the same sum over it.
LEMMA SumAgree ==
  ASSUME NEW S, IsFiniteSet(S), NEW f, NEW g, \A x \in S : f[x] \in Int /\ g[x] = f[x]
  PROVE  SumFunctionOnSet(g, S) = SumFunctionOnSet(f, S)
<1> DEFINE G == {s \in SUBSET S : SumFunctionOnSet(g, s) = SumFunctionOnSet(f, s)}
<1>1. {} \in G BY SumEmpty
<1>2. \A s \in SUBSET S : \A x \in S \ s : s \in G => s \cup {x} \in G
  <2> SUFFICES ASSUME NEW s \in SUBSET S, NEW x \in S \ s, s \in G PROVE s \cup {x} \in G OBVIOUS
  <2>1. IsFiniteSet(s) BY FS_Subset
  <2>2. SumFunctionOnSet(f, s \cup {x}) = f[x] + SumFunctionOnSet(f, s) BY <2>1, SumAdd
  <2>3. SumFunctionOnSet(g, s \cup {x}) = g[x] + SumFunctionOnSet(g, s) BY <2>1, SumAdd
  <2> QED BY <2>2, <2>3
<1>3. S \in G BY <1>1, <1>2, SetInduction
<1> QED BY <1>3

\* The sum over two sets with nothing in common.
LEMMA SumUnion ==
  ASSUME NEW S, IsFiniteSet(S), NEW T, IsFiniteSet(T), S \cap T = {},
         NEW f, \A x \in S \cup T : f[x] \in Int
  PROVE  SumFunctionOnSet(f, S \cup T) = SumFunctionOnSet(f, S) + SumFunctionOnSet(f, T)
<1> DEFINE G == {t \in SUBSET T :
                   SumFunctionOnSet(f, S \cup t) = SumFunctionOnSet(f, S) + SumFunctionOnSet(f, t)}
<1>1. SumFunctionOnSet(f, S) \in Int BY SumIsInt
<1>2. {} \in G
  <2>1. S \cup {} = S OBVIOUS
  <2> QED BY <1>1, <2>1, SumEmpty
<1>3. \A t \in SUBSET T : \A x \in T \ t : t \in G => t \cup {x} \in G
  <2> SUFFICES ASSUME NEW t \in SUBSET T, NEW x \in T \ t, t \in G PROVE t \cup {x} \in G OBVIOUS
  <2>1. IsFiniteSet(t) /\ IsFiniteSet(S \cup t) BY FS_Subset, FS_Union
  <2>2. SumFunctionOnSet(f, t \cup {x}) = f[x] + SumFunctionOnSet(f, t) BY <2>1, SumAdd
  <2>3. SumFunctionOnSet(f, (S \cup t) \cup {x}) = f[x] + SumFunctionOnSet(f, S \cup t)
    <3>1. x \notin S \cup t /\ \A y \in (S \cup t) \cup {x} : f[y] \in Int OBVIOUS
    <3> QED BY ONLY <2>1, <3>1, SumAdd
  <2>4. (S \cup t) \cup {x} = S \cup (t \cup {x}) OBVIOUS
  <2>5. SumFunctionOnSet(f, t) \in Int /\ f[x] \in Int BY <2>1, SumIsInt
  <2>7. SumFunctionOnSet(f, S \cup t) = SumFunctionOnSet(f, S) + SumFunctionOnSet(f, t) OBVIOUS
  <2>6. PICK a, b, c : a = SumFunctionOnSet(f, S) /\ b = SumFunctionOnSet(f, t) /\ c = f[x] OBVIOUS
  <2>8. SumFunctionOnSet(f, S \cup (t \cup {x})) = c + (a + b) BY ONLY <2>3, <2>4, <2>6, <2>7
  <2>9. SumFunctionOnSet(f, S) + SumFunctionOnSet(f, t \cup {x}) = a + (c + b) BY ONLY <2>2, <2>6
  <2>10. c + (a + b) = a + (c + b) BY ONLY <1>1, <2>5, <2>6
  <2> QED BY <2>8, <2>9, <2>10
<1>4. T \in G BY <1>2, <1>3, SetInduction
<1> QED BY <1>4

\* The sum of the sums of two functions.
LEMMA SumPlus ==
  ASSUME NEW S, IsFiniteSet(S), NEW f, NEW g, NEW h,
         \A x \in S : f[x] \in Int /\ g[x] \in Int /\ h[x] = f[x] + g[x]
  PROVE  SumFunctionOnSet(h, S) = SumFunctionOnSet(f, S) + SumFunctionOnSet(g, S)
<1> DEFINE G == {s \in SUBSET S :
                   SumFunctionOnSet(h, s) = SumFunctionOnSet(f, s) + SumFunctionOnSet(g, s)}
<1>1. {} \in G BY SumEmpty
<1>2. \A s \in SUBSET S : \A x \in S \ s : s \in G => s \cup {x} \in G
  <2> SUFFICES ASSUME NEW s \in SUBSET S, NEW x \in S \ s, s \in G PROVE s \cup {x} \in G OBVIOUS
  <2>1. IsFiniteSet(s) BY FS_Subset
  <2>2. SumFunctionOnSet(f, s \cup {x}) = f[x] + SumFunctionOnSet(f, s) BY <2>1, SumAdd
  <2>3. SumFunctionOnSet(g, s \cup {x}) = g[x] + SumFunctionOnSet(g, s) BY <2>1, SumAdd
  <2>4. SumFunctionOnSet(h, s \cup {x}) = h[x] + SumFunctionOnSet(h, s)
    <3>1. x \notin s /\ \A y \in s \cup {x} : h[y] \in Int OBVIOUS
    <3> QED BY ONLY <2>1, <3>1, SumAdd
  <2>5. SumFunctionOnSet(f, s) \in Int /\ SumFunctionOnSet(g, s) \in Int BY <2>1, SumIsInt
  <2> QED BY <2>2, <2>3, <2>4, <2>5
<1>3. S \in G BY <1>1, <1>2, SetInduction
<1> QED BY <1>3

\* A sum of natural numbers is one.
LEMMA SumIsNat ==
  ASSUME NEW S, IsFiniteSet(S), NEW f, \A x \in S : f[x] \in Nat
  PROVE  SumFunctionOnSet(f, S) \in Nat
<1> DEFINE G == {s \in SUBSET S : SumFunctionOnSet(f, s) \in Nat}
<1>1. {} \in G BY SumEmpty
<1>2. \A s \in SUBSET S : \A x \in S \ s : s \in G => s \cup {x} \in G
  <2> SUFFICES ASSUME NEW s \in SUBSET S, NEW x \in S \ s, s \in G PROVE s \cup {x} \in G OBVIOUS
  <2>1. IsFiniteSet(s) /\ \A y \in s \cup {x} : f[y] \in Int BY FS_Subset
  <2>2. SumFunctionOnSet(f, s \cup {x}) = f[x] + SumFunctionOnSet(f, s) BY <2>1, SumAdd
  <2>3. f[x] \in Nat OBVIOUS
  <2> QED BY <2>2, <2>3
<1>3. S \in G BY <1>1, <1>2, SetInduction
<1> QED BY <1>3

\* A function that is zero everywhere, or everywhere but at one element.
LEMMA SumOfZeros ==
  ASSUME NEW S, IsFiniteSet(S), NEW f, \A x \in S : f[x] = 0
  PROVE  SumFunctionOnSet(f, S) = 0
<1> DEFINE G == {s \in SUBSET S : SumFunctionOnSet(f, s) = 0}
<1>1. {} \in G BY SumEmpty
<1>2. \A s \in SUBSET S : \A x \in S \ s : s \in G => s \cup {x} \in G
  <2> SUFFICES ASSUME NEW s \in SUBSET S, NEW x \in S \ s, s \in G PROVE s \cup {x} \in G OBVIOUS
  <2>1. IsFiniteSet(s) /\ \A y \in s \cup {x} : f[y] \in Int BY FS_Subset
  <2>2. SumFunctionOnSet(f, s \cup {x}) = f[x] + SumFunctionOnSet(f, s) BY <2>1, SumAdd
  <2> QED BY <2>2
<1>3. S \in G BY <1>1, <1>2, SetInduction
<1> QED BY <1>3

LEMMA SumOfOne ==
  ASSUME NEW S, IsFiniteSet(S), NEW a \in S, NEW f, f[a] \in Int, \A x \in S \ {a} : f[x] = 0
  PROVE  SumFunctionOnSet(f, S) = f[a]
<1>1. IsFiniteSet(S \ {a}) BY FS_RemoveElement
<1>2. SumFunctionOnSet(f, S \ {a}) = 0 BY <1>1, SumOfZeros
<1>3. \A x \in S : f[x] \in Int OBVIOUS
<1>4. SumFunctionOnSet(f, S) = f[a] + SumFunctionOnSet(f, S \ {a}) BY <1>3, SumSplit DEF Splits
<1> QED BY <1>2, <1>4
=============================================================================
