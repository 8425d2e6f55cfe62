----------------------------- MODULE SumTheorems -----------------------------
(***************************************************************************)
(* Sums of integers over finite sets, as SumFunction and SumFunctionOnSet  *)
(* of the community modules fold them. The induction over the subsets of a *)
(* set is by the least element of a well-founded order, for the family of  *)
(* the subsets that satisfy the claim: a set, not an operator.             *)
(***************************************************************************)
EXTENDS Functions, FiniteSetTheorems, WellFoundedInduction, TLAPS

(***************************************************************************)
(* A family of the subsets of a finite set that holds each of them when it *)
(* holds what is left by removing any element holds the set: the least     *)
(* subset it lacks would be one it must hold.                              *)
(***************************************************************************)
LEMMA RemovalInduction ==
  ASSUME NEW S, IsFiniteSet(S), NEW F,
         \A T \in SUBSET S : (\A x \in T : T \ {x} \in F) => T \in F
  PROVE  S \in F
<1> SUFFICES ASSUME S \notin F
             PROVE  FALSE
  OBVIOUS
<1> DEFINE Bad == (SUBSET S) \ F
<1>1. IsWellFoundedOn(StrictSubsetOrdering(S), FiniteSubsetsOf(S))
  BY FS_StrictSubsetOrderingWellFounded
<1>2. Bad \subseteq FiniteSubsetsOf(S) /\ Bad # {}
  BY FS_FiniteSubsetsOfFinite
<1>3. PICK T \in Bad : \A U \in Bad : ~(<<U, T>> \in StrictSubsetOrdering(S))
  <2> HIDE DEF Bad
  <2> QED
    BY <1>1, <1>2, WFMin
<1>4. ASSUME NEW x \in T PROVE T \ {x} \in F
  <2>1. T \ {x} \subseteq T /\ T \ {x} # T /\ T \in SUBSET S /\ T \ {x} \in SUBSET S
    BY <1>4
  <2>2. <<T \ {x}, T>> \in StrictSubsetOrdering(S)
    BY <2>1 DEF StrictSubsetOrdering
  <2> QED
    BY <1>3, <2>1, <2>2
<1> QED
  BY <1>3, <1>4

(* The same with elements added one by one to the empty set. *)
LEMMA SetInduction ==
  ASSUME NEW S, IsFiniteSet(S), NEW F, {} \in F,
         \A T \in SUBSET S, x \in S : x \notin T /\ T \in F => T \cup {x} \in F
  PROVE  S \in F
<1>1. ASSUME NEW T \in SUBSET S, \A x \in T : T \ {x} \in F PROVE T \in F
  <2>1. CASE T = {}
    BY <2>1
  <2>2. CASE T # {}
    <3>1. PICK x \in T : TRUE
      BY <2>2
    <3>2. T = (T \ {x}) \cup {x} /\ x \in S /\ x \notin T \ {x} /\ T \ {x} \in SUBSET S
      BY <3>1
    <3> QED
      BY <1>1, <3>1, <3>2
  <2> QED
    BY <2>1, <2>2
<1> QED
  BY <1>1, RemovalInduction

(* Induction over the numbers, for a set of them. *)
LEMMA NatSetInduction ==
  ASSUME NEW G \in SUBSET Nat, 0 \in G, \A n \in G : n + 1 \in G
  PROVE  G = Nat
<1> SUFFICES ASSUME Nat \ G # {} PROVE FALSE
  OBVIOUS
<1> DEFINE R == OpToRel(<, Nat)
<1> DEFINE Bad == Nat \ G
<1>1. IsWellFoundedOn(R, Nat)
  BY NatLessThanWellFounded
<1>3. PICK n \in Bad : \A m \in Bad : ~(<<m, n>> \in R)
  <2>1. Bad \subseteq Nat /\ Bad # {} 
     OBVIOUS
  <2> HIDE DEF Bad, R
  <2> QED BY <1>1, <2>1, WFMin
<1>2. n \in Nat /\ n \notin G /\ \A m \in Nat \ G : ~(<<m, n>> \in R)
  BY <1>3
<1> HIDE DEF R, Bad
<1>4. n - 1 \in Nat /\ n - 1 < n
  BY <1>2
<1>5. <<n - 1, n>> \in R
  BY <1>2, <1>4 DEF OpToRel, R
<1>6. n - 1 \in G
  BY <1>2, <1>4, <1>5
<1>7. (n - 1) + 1 \in G
  BY <1>6
<1> QED
  BY <1>2, <1>4, <1>7

(* The element at which a fold takes a set apart, and what it does there. *)
First(s) == CHOOSE x \in s : TRUE
Step(F, base, s, g) == IF s = {} THEN base ELSE F[<<First(s), g[s \ {First(s)}]>>]

LEMMA FirstIn == ASSUME NEW s, s # {} PROVE First(s) \in s
BY DEF First

(* The fold of the operation F over the subsets of S, with values in D. *)
Foldable(F, base, S, D) == IsFiniteSet(S) /\ base \in D /\ F \in [S \X D -> D]
IsFold(g, F, base, S, D) ==
  /\ g \in [SUBSET S -> D]
  /\ \A s \in SUBSET S : g[s] = Step(F, base, s, g)

(***************************************************************************)
(* There is such a function: the folds over at most n elements extend to   *)
(* those over n + 1.                                                       *)
(***************************************************************************)
LEMMA FoldExists ==
  ASSUME NEW F, NEW base, NEW S, NEW D, Foldable(F, base, S, D)
  PROVE  \E g : IsFold(g, F, base, S, D)
<1> USE DEF Foldable, IsFold
<1> DEFINE Upto(g, n) == \A s \in SUBSET S : Cardinality(s) <= n => g[s] = Step(F, base, s, g)
           G == {n \in Nat : \E g \in [SUBSET S -> D] : Upto(g, n)}
<1>0. \A s \in SUBSET S : /\ IsFiniteSet(s) /\ Cardinality(s) \in Nat
                          /\ Cardinality(s) <= Cardinality(S)
                          /\ Cardinality(s) = 0 <=> s = {}
  BY FS_Subset, FS_EmptySet, FS_CardinalityType
<1>1. 0 \in G
  <2>1. Upto([s \in SUBSET S |-> base], 0)
    BY <1>0 DEF Step
  <2> QED
    BY <2>1
<1>2. ASSUME NEW n \in G PROVE n + 1 \in G
  <2>1. PICK g \in [SUBSET S -> D] : Upto(g, n)
    BY <1>2
  <2> DEFINE h == [s \in SUBSET S |->
                    IF Cardinality(s) <= n THEN g[s] ELSE Step(F, base, s, g)]
  <2>2. \A s \in SUBSET S : s # {} =>
          /\ First(s) \in S /\ s \ {First(s)} \in SUBSET S
          /\ Cardinality(s \ {First(s)}) = Cardinality(s) - 1
    BY <1>0, FirstIn, FS_RemoveElement
  <2>3. h \in [SUBSET S -> D]
    <3>1. ASSUME NEW s \in SUBSET S PROVE Step(F, base, s, g) \in D
      BY <2>2 DEF Step
    <3> QED
      BY <3>1
  <2>4. ASSUME NEW s \in SUBSET S, Cardinality(s) <= n + 1
        PROVE  h[s] = Step(F, base, s, h)
    <3>1. h[s] = Step(F, base, s, g)
      BY <2>1
    <3>2. s # {} => h[s \ {First(s)}] = g[s \ {First(s)}]
      BY <1>0, <2>2, <2>4
    <3> QED
      BY <3>1, <3>2 DEF Step
  <2>5. n + 1 \in Nat /\ Upto(h, n + 1)
    <3>1. n + 1 \in Nat
      BY <1>2
    <3> HIDE DEF G
    <3> QED
      BY <2>4, <3>1
  <2> HIDE DEF h
  <2> QED
    BY <2>3, <2>5
<1>3. Cardinality(S) \in G
  <2> HIDE DEF G
  <2>1. G \in SUBSET Nat
    BY DEF G
  <2> QED
    BY <1>0, <1>1, <1>2, <2>1, NatSetInduction
<1> QED
  BY <1>0, <1>3

(***************************************************************************)
(* The sum as the community modules define it: the function that the fold  *)
(* chooses, and the equation it is chosen by.                              *)
(***************************************************************************)
Rec(f, s, g) == IF s = {} THEN 0 ELSE f[First(s)] + g[s \ {First(s)}]
Iter(f, S) == CHOOSE g : g = [s \in SUBSET S |-> Rec(f, s, g)]

(* What SumFunctionOnSet chooses is that function. *)
LEMMA SumIsIter ==
  ASSUME NEW f, NEW S
  PROVE  SumFunctionOnSet(f, S) = Iter(f, S)[S]
BY Zenon DEF SumFunctionOnSet, FoldFunctionOnSet, MapThenFoldSet, Iter, Rec, First

Sums(f, S, g) == \A s \in SUBSET S : g[s] = Rec(f, s, g)

(* The chosen function satisfies its equation. *)
LEMMA IterSums ==
  ASSUME NEW S, IsFiniteSet(S), NEW f, \A x \in S : f[x] \in Int
  PROVE  Sums(f, S, Iter(f, S))
<1> DEFINE F == [p \in S \X Int |-> f[p[1]] + p[2]]
<1>1. PICK g : IsFold(g, F, 0, S, Int)
  <2>1. F \in [S \X Int -> Int]
    OBVIOUS
  <2>2. Foldable(F, 0, S, Int)
    BY <2>1 DEF Foldable
  <2> QED
    BY <2>2, FoldExists
<1>2. ASSUME NEW s \in SUBSET S PROVE g[s] = Rec(f, s, g)
  <2>1. s # {} => First(s) \in S /\ g[s \ {First(s)}] \in Int
    BY <1>1, FirstIn DEF IsFold
  <2> QED
    BY <1>1, <2>1 DEF IsFold, Step, Rec
<1>3. g = [s \in SUBSET S |-> Rec(f, s, g)]
  BY <1>1, <1>2 DEF IsFold
<1>4. Iter(f, S) = [s \in SUBSET S |-> Rec(f, s, Iter(f, S))]
  BY <1>3, Zenon DEF Iter
<1> QED
  BY <1>4 DEF Sums

(* The equation determines the sum. *)
LEMMA FoldsAgree ==
  ASSUME NEW S, IsFiniteSet(S), NEW f, NEW g, NEW h, Sums(f, S, g), Sums(f, S, h)
  PROVE  g[S] = h[S]
<1> DEFINE F == {s \in SUBSET S : g[s] = h[s]}
<1>1. ASSUME NEW T \in SUBSET S, \A x \in T : T \ {x} \in F PROVE T \in F
  BY <1>1, FirstIn DEF Rec, Sums
<1>2. S \in F
  <2> HIDE DEF F
  <2> QED
    BY <1>1, RemovalInduction
<1> QED
  BY <1>2

(* The empty sum. *)
LEMMA SumEmpty ==
  ASSUME NEW f
  PROVE  SumFunctionOnSet(f, {}) = 0
<1>1. Iter(f, {})[{}] = Rec(f, {}, Iter(f, {}))
  BY IterSums, FS_EmptySet DEF Sums
<1> QED
  BY <1>1, SumIsIter DEF Rec

(* The sum taken apart as the fold does. *)
LEMMA SumFirst ==
  ASSUME NEW S, IsFiniteSet(S), NEW f, \A x \in S : f[x] \in Int, S # {}
  PROVE  SumFunctionOnSet(f, S) = f[First(S)] + SumFunctionOnSet(f, S \ {First(S)})
<1> DEFINE T == S \ {First(S)}
<1>1. IsFiniteSet(T) /\ T \in SUBSET S
  BY FS_RemoveElement
<1>2. Sums(f, S, Iter(f, S)) /\ Sums(f, T, Iter(f, T)) /\ Sums(f, T, Iter(f, S))
  <2>1. Sums(f, S, Iter(f, S))
    BY IterSums
  <2>2. \A x \in T : f[x] \in Int
    OBVIOUS
  <2> HIDE DEF T
  <2> QED
    BY <1>1, <2>1, <2>2, IterSums DEF Sums
<1>3. Iter(f, S)[T] = Iter(f, T)[T]
  <2> HIDE DEF T
  <2> QED
    BY <1>1, <1>2, FoldsAgree
<1>4. Iter(f, S)[S] = f[First(S)] + Iter(f, S)[T]
  BY <1>2 DEF Rec, Sums
<1> QED
  BY <1>3, <1>4, SumIsIter

(* A sum of integers is one. *)
LEMMA SumType ==
  ASSUME NEW S, IsFiniteSet(S), NEW f, \A x \in S : f[x] \in Int
  PROVE  SumFunctionOnSet(f, S) \in Int
<1> DEFINE F == {T \in SUBSET S : SumFunctionOnSet(f, T) \in Int}
<1>1. ASSUME NEW T \in SUBSET S, \A x \in T : T \ {x} \in F PROVE T \in F
  <2>1. CASE T = {}
    BY <2>1, SumEmpty
  <2>2. CASE T # {}
    <3>1. First(T) \in T /\ IsFiniteSet(T)
      BY <2>2, FirstIn, FS_Subset
    <3>2. f[First(T)] \in Int /\ SumFunctionOnSet(f, T \ {First(T)}) \in Int
      BY <1>1, <3>1
    <3>3. SumFunctionOnSet(f, T) = f[First(T)] + SumFunctionOnSet(f, T \ {First(T)})
      BY <2>2, <3>1, SumFirst
    <3> QED
      BY <3>2, <3>3
  <2> QED
    BY <2>1, <2>2
<1>2. S \in F
  <2> HIDE DEF F
  <2> QED
    BY <1>1, RemovalInduction
<1> QED
  BY <1>2

(***************************************************************************)
(* A sum may be taken apart at any element: the order of the fold does not *)
(* matter.                                                                 *)
(***************************************************************************)
LEMMA SumRemove ==
  ASSUME NEW S, IsFiniteSet(S), NEW f, \A x \in S : f[x] \in Int
  PROVE  \A x \in S : SumFunctionOnSet(f, S) = f[x] + SumFunctionOnSet(f, S \ {x})
<1> DEFINE F == {T \in SUBSET S : \A x \in T :
                   SumFunctionOnSet(f, T) = f[x] + SumFunctionOnSet(f, T \ {x})}
<1>0. \A T \in SUBSET S : IsFiniteSet(T) /\ SumFunctionOnSet(f, T) \in Int
  BY FS_Subset, SumType
<1>1. ASSUME NEW T \in SUBSET S, \A x \in T : T \ {x} \in F PROVE T \in F
  <2>1. ASSUME NEW x \in T
        PROVE  SumFunctionOnSet(f, T) = f[x] + SumFunctionOnSet(f, T \ {x})
    <3> DEFINE y == First(T)
    <3>1. y \in T /\ SumFunctionOnSet(f, T) = f[y] + SumFunctionOnSet(f, T \ {y})
      BY <1>0, FirstIn, SumFirst
    <3>2. CASE x = y
      BY <3>1, <3>2
    <3>3. CASE x # y
      <4> HIDE DEF y
      <4>1. SumFunctionOnSet(f, T \ {y}) = f[x] + SumFunctionOnSet(f, (T \ {y}) \ {x})
        BY <1>1, <3>1, <3>3
      <4>2. SumFunctionOnSet(f, T \ {x}) = f[y] + SumFunctionOnSet(f, (T \ {x}) \ {y})
        BY <1>1, <3>1, <3>3
      <4>3. (T \ {y}) \ {x} = (T \ {x}) \ {y} /\ (T \ {x}) \ {y} \in SUBSET S
        OBVIOUS
      <4> HIDE DEF F
      <4>4. f[x] \in Int /\ f[y] \in Int /\ SumFunctionOnSet(f, (T \ {x}) \ {y}) \in Int
        BY <1>0, <3>1, <4>3
      <4>5. SumFunctionOnSet(f, (T \ {y}) \ {x}) = SumFunctionOnSet(f, (T \ {x}) \ {y})
        BY <4>3
      <4> QED
        BY <3>1, <4>1, <4>2, <4>4, <4>5
    <3> QED
      BY <3>2, <3>3
  <2> QED
    BY <2>1
<1>2. S \in F
  <2> HIDE DEF F
  <2> QED
    BY <1>1, RemovalInduction
<1> QED
  BY <1>2

(* An element more. *)
LEMMA SumAdd ==
  ASSUME NEW S, IsFiniteSet(S), NEW y, y \notin S, NEW f, \A x \in S \cup {y} : f[x] \in Int
  PROVE  SumFunctionOnSet(f, S \cup {y}) = f[y] + SumFunctionOnSet(f, S)
<1>1. IsFiniteSet(S \cup {y}) /\ (S \cup {y}) \ {y} = S /\ y \in S \cup {y}
  BY FS_AddElement
<1>2. \A x \in S \cup {y} : SumFunctionOnSet(f, S \cup {y})
                            = f[x] + SumFunctionOnSet(f, (S \cup {y}) \ {x})
  BY <1>1, SumRemove
<1> QED
  BY <1>1, <1>2

(* Sums are linear. *)
Combines(h, a, f, b, g, S) ==
  \A x \in S : f[x] \in Int /\ g[x] \in Int /\ h[x] = a * f[x] + b * g[x]

LEMMA SumLinear ==
  ASSUME NEW S, IsFiniteSet(S), NEW a \in Int, NEW b \in Int, NEW f, NEW g, NEW h,
         Combines(h, a, f, b, g, S)
  PROVE  SumFunctionOnSet(h, S) = a * SumFunctionOnSet(f, S) + b * SumFunctionOnSet(g, S)
<1> DEFINE Same(T) ==
      SumFunctionOnSet(h, T) = a * SumFunctionOnSet(f, T) + b * SumFunctionOnSet(g, T)
           F == {T \in SUBSET S : Same(T)}
<1>0. \A x \in S : h[x] \in Int /\ f[x] \in Int /\ g[x] \in Int /\ h[x] = a * f[x] + b * g[x]
  BY DEF Combines
<1>1. {} \in F
  BY SumEmpty
<1>2. ASSUME NEW T \in SUBSET S, NEW x \in S, x \notin T, T \in F PROVE T \cup {x} \in F
  <2>1. IsFiniteSet(T) /\ T \cup {x} \in SUBSET S
    BY FS_Subset
  <2>2. /\ \A y \in T \cup {x} : f[y] \in Int /\ g[y] \in Int /\ h[y] \in Int
        /\ \A y \in T : f[y] \in Int /\ g[y] \in Int
    BY <1>0
  <2>3. SumFunctionOnSet(f, T) \in Int /\ SumFunctionOnSet(g, T) \in Int
    BY <2>1, <2>2, SumType
  <2>4. /\ SumFunctionOnSet(f, T \cup {x}) = f[x] + SumFunctionOnSet(f, T)
        /\ SumFunctionOnSet(g, T \cup {x}) = g[x] + SumFunctionOnSet(g, T)
        /\ SumFunctionOnSet(h, T \cup {x}) = h[x] + SumFunctionOnSet(h, T)
    BY <1>2, <2>1, <2>2, SumAdd
  <2>5. ASSUME NEW p \in Int, NEW q \in Int, NEW u \in Int, NEW v \in Int
        PROVE  (a * p + b * q) + (a * u + b * v) = a * (p + u) + b * (q + v)
    OBVIOUS
  <2>6. SumFunctionOnSet(h, T) = a * SumFunctionOnSet(f, T) + b * SumFunctionOnSet(g, T)
    BY <1>2
  <2>7. Same(T \cup {x})
    BY <1>0, <2>3, <2>4, <2>5, <2>6
  <2> QED
    BY <2>1, <2>7
<1>3. S \in F
  <2> HIDE DEF F
  <2> QED
    BY <1>1, <1>2, SetInduction
<1> QED
  BY <1>3

(* The sum of a constant. *)
LEMMA SumConstant ==
  ASSUME NEW S, IsFiniteSet(S), NEW c \in Int, NEW f, \A x \in S : f[x] = c
  PROVE  SumFunctionOnSet(f, S) = c * Cardinality(S)
<1> DEFINE F == {T \in SUBSET S : SumFunctionOnSet(f, T) = c * Cardinality(T)}
<1>1. {} \in F
  BY SumEmpty, FS_EmptySet
<1>2. ASSUME NEW T \in SUBSET S, NEW x \in S, x \notin T, T \in F PROVE T \cup {x} \in F
  <2>1. IsFiniteSet(T) /\ T \cup {x} \in SUBSET S
    BY FS_Subset
  <2>2. \A y \in T \cup {x} : f[y] \in Int
    OBVIOUS
  <2>3. SumFunctionOnSet(f, T \cup {x}) = f[x] + SumFunctionOnSet(f, T)
    BY <1>2, <2>1, <2>2, SumAdd
  <2>4. Cardinality(T \cup {x}) = Cardinality(T) + 1 /\ Cardinality(T) \in Nat
    BY <1>2, <2>1, FS_AddElement, FS_CardinalityType
  <2>5. ASSUME NEW n \in Nat PROVE c + c * n = c * (n + 1)
    OBVIOUS
  <2>6. SumFunctionOnSet(f, T) = c * Cardinality(T)
    BY <1>2
  <2>7. SumFunctionOnSet(f, T \cup {x}) = c * Cardinality(T \cup {x})
    BY <2>3, <2>4, <2>5, <2>6
  <2> QED
    BY <2>1, <2>7
<1>3. S \in F
  <2> HIDE DEF F
  <2> QED
    BY <1>1, <1>2, SetInduction
<1> QED
  BY <1>3

(* A sum of natural numbers is one. *)
LEMMA SumNonnegative ==
  ASSUME NEW S, IsFiniteSet(S), NEW f, \A x \in S : f[x] \in Nat
  PROVE  SumFunctionOnSet(f, S) \in Nat
<1> DEFINE F == {T \in SUBSET S : SumFunctionOnSet(f, T) \in Nat}
<1>1. {} \in F
  BY SumEmpty
<1>2. ASSUME NEW T \in SUBSET S, NEW x \in S, x \notin T, T \in F PROVE T \cup {x} \in F
  <2>1. IsFiniteSet(T) /\ T \cup {x} \in SUBSET S /\ \A y \in T \cup {x} : f[y] \in Int
    BY FS_Subset
  <2>2. SumFunctionOnSet(f, T \cup {x}) = f[x] + SumFunctionOnSet(f, T)
    BY <1>2, <2>1, SumAdd
  <2> QED
    BY <1>2, <2>1, <2>2
<1>3. S \in F
  <2> HIDE DEF F
  <2> QED
    BY <1>1, <1>2, SetInduction
<1> QED
  BY <1>3

(* A sum over the image of a set under a one-to-one map. *)
LEMMA SumImage ==
  ASSUME NEW S, IsFiniteSet(S), NEW f, NEW g, NEW h, \A x \in S : f[x] \in Int,
         \A x \in S : g[h[x]] = f[x],
         \A x, y \in S : h[x] = h[y] => x = y
  PROVE  SumFunctionOnSet(g, {h[x] : x \in S}) = SumFunctionOnSet(f, S)
<1> DEFINE Image(T) == {h[x] : x \in T}
           F == {T \in SUBSET S :
                   /\ IsFiniteSet(Image(T))
                   /\ SumFunctionOnSet(g, Image(T)) = SumFunctionOnSet(f, T)}
<1>1. {} \in F
  <2>1. Image({}) = {}
    OBVIOUS
  <2> QED
    BY <2>1, SumEmpty, FS_EmptySet
<1>2. ASSUME NEW T \in SUBSET S, NEW x \in S, x \notin T, T \in F PROVE T \cup {x} \in F
  <2>1. IsFiniteSet(T) /\ T \cup {x} \in SUBSET S /\ \A y \in T \cup {x} : f[y] \in Int
    BY FS_Subset
  <2>2. Image(T \cup {x}) = Image(T) \cup {h[x]} /\ h[x] \notin Image(T)
    BY <1>2
  <2>3. \A p \in Image(T) \cup {h[x]} : g[p] \in Int
    OBVIOUS
  <2>4. IsFiniteSet(Image(T)) /\ SumFunctionOnSet(g, Image(T)) = SumFunctionOnSet(f, T)
    BY <1>2
  <2> HIDE DEF Image
  <2>5. SumFunctionOnSet(f, T \cup {x}) = f[x] + SumFunctionOnSet(f, T)
    BY <1>2, <2>1, SumAdd
  <2>6. /\ SumFunctionOnSet(g, Image(T) \cup {h[x]}) = g[h[x]] + SumFunctionOnSet(g, Image(T))
        /\ IsFiniteSet(Image(T) \cup {h[x]})
    BY <2>2, <2>3, <2>4, SumAdd, FS_AddElement
  <2> QED
    BY <2>1, <2>2, <2>4, <2>5, <2>6
<1>3. S \in F
  <2> HIDE DEF F
  <2> QED
    BY <1>1, <1>2, SetInduction
<1> QED
  BY <1>3
=============================================================================
