----------------------------- MODULE SumProofs -----------------------------
(* What the folds of the community modules compute: SumFunctionOnSet over a *)
(* set, FoldLeft over a sequence.  They are recursive functions that take   *)
(* the elements of a set in the order of CHOOSE, or the positions of a      *)
(* sequence from the last one down.  The lemmas say that the order of a sum *)
(* does not matter, and that a fold over a sequence goes step by step.      *)
(*                                                                          *)
(* The library's induction theorems have operators as parameters, which the *)
(* provers cannot instantiate.  The induction here is on a set instead: if  *)
(* some subset of a finite set is an exception, there is a smallest one.    *)
EXTENDS Integers, FiniteSets, Functions, FiniteSetTheorems, WellFoundedInduction, TLAPS

LEMMA SmallestException ==
  ASSUME NEW S, IsFiniteSet(S), NEW Bad, Bad \subseteq SUBSET S, Bad # {}
  PROVE  \E T \in Bad : \A U \in Bad : U \subseteq T => U = T
<1>1. IsWellFoundedOn(StrictSubsetOrdering(S), SUBSET S)
  BY FS_StrictSubsetOrderingWellFounded, FS_FiniteSubsetsOfFinite
<1>2. \E T \in Bad : \A U \in Bad : ~ (<<U, T>> \in StrictSubsetOrdering(S))
  BY <1>1, WFMin
<1>3. \A T, U \in SUBSET S :
        <<U, T>> \in StrictSubsetOrdering(S) <=> U \subseteq T /\ U # T
  BY DEF StrictSubsetOrdering
<1> QED
  BY <1>2, <1>3

\* A set of natural numbers has a least element.
LEMMA SmallestElement ==
  ASSUME NEW S, S \subseteq Nat, S # {}
  PROVE  \E x \in S : \A y \in S : x <= y
<1>1. PICK x \in S : \A y \in S : ~ (<<y, x>> \in OpToRel(<, Nat))
  BY NatLessThanWellFounded, WFMin
<1>2. ASSUME NEW y \in S, y < x PROVE <<y, x>> \in {ss \in Nat \X Nat : ss[1] < ss[2]}
  BY <1>2
<1>3. \A y \in S : ~ (y < x)
  BY <1>1, <1>2 DEF OpToRel
<1> QED
  BY <1>3

-----------------------------------------------------------------------------
(* The recursion.                                                          *)

AnyOf(s) == CHOOSE x \in s : TRUE

FoldStep(f, g, s) == IF s = {} THEN 0 ELSE f[AnyOf(s)] + g[s \ {AnyOf(s)}]

Sums(f, g, S) == g = [s \in SUBSET S |-> FoldStep(f, g, s)]

LEMMA AnyIn == ASSUME NEW s, s # {} PROVE AnyOf(s) \in s
BY DEF AnyOf

LEMMA SumIsFold ==
  ASSUME NEW f, NEW S
  PROVE  SumFunctionOnSet(f, S) = (CHOOSE g : Sums(f, g, S))[S]
BY DEF SumFunctionOnSet, FoldFunctionOnSet, MapThenFoldSet, Sums, FoldStep, AnyOf

LEMMA SumsAt ==
  ASSUME NEW f, NEW g, NEW S, Sums(f, g, S), NEW s \in SUBSET S
  PROVE  g[s] = FoldStep(f, g, s)
BY DEF Sums

\* Functions that agree on S have the same sums, and these are unique.
LEMMA SumsUnique ==
  ASSUME NEW S, IsFiniteSet(S), NEW f, NEW h, \A x \in S : f[x] = h[x],
         NEW A, NEW B, NEW T, NEW U, S \subseteq T, S \subseteq U, Sums(f, A, T), Sums(h, B, U)
  PROVE  \A s \in SUBSET S : A[s] = B[s]
<1> DEFINE Bad == {s \in SUBSET S : A[s] # B[s]}
<1> SUFFICES ASSUME Bad # {} PROVE FALSE
  OBVIOUS
<1>1. PICK s \in Bad : \A u \in Bad : u \subseteq s => u = s
  <2> HIDE DEF Bad
  <2>1. Bad \subseteq SUBSET S
    BY DEF Bad
  <2> QED BY <2>1, SmallestException
<1>2. A[s] = FoldStep(f, A, s) /\ B[s] = FoldStep(h, B, s)
  BY <1>1, SumsAt
<1>3. s # {}
  BY <1>1, <1>2 DEF FoldStep
<1>4. AnyOf(s) \in s
  BY <1>3, AnyIn
<1>5. A[s \ {AnyOf(s)}] = B[s \ {AnyOf(s)}]
  BY <1>1, <1>4
<1> QED
  BY <1>1, <1>2, <1>3, <1>4, <1>5 DEF FoldStep

LEMMA SumsExist ==
  ASSUME NEW S, IsFiniteSet(S), NEW f
  PROVE  \E g : Sums(f, g, S)
<1> DEFINE Bad == {s \in SUBSET S : ~ \E g : Sums(f, g, s)}
<1>0. SUFFICES ASSUME Bad # {} PROVE FALSE
  BY DEF Bad
<1>1. PICK s \in Bad : \A u \in Bad : u \subseteq s => u = s
  <2> HIDE DEF Bad
  <2>1. Bad \subseteq SUBSET S
    BY DEF Bad
  <2> QED BY <1>0, <2>1, SmallestException
<1> DEFINE G(u) == CHOOSE g : Sums(f, g, u)
           V(u) == G(u)[u]
           H == [u \in SUBSET s |-> V(u)]
           g == [u \in SUBSET s |-> IF u = s THEN FoldStep(f, H, s) ELSE V(u)]
<1>2. ASSUME NEW u \in SUBSET s, u # s PROVE Sums(f, G(u), u)
  BY <1>1, <1>2
<1>3. ASSUME NEW u \in SUBSET s, u # s PROVE V(u) = FoldStep(f, H, u)
  <2>1. V(u) = FoldStep(f, G(u), u)
    BY <1>2, <1>3, SumsAt
  <2>2. ASSUME u # {} PROVE G(u)[u \ {AnyOf(u)}] = V(u \ {AnyOf(u)})
    <3>1. AnyOf(u) \in u
      BY <2>2, AnyIn
    <3> DEFINE v == u \ {AnyOf(u)}
    <3>2. v \in SUBSET s /\ v # s /\ v \subseteq u /\ IsFiniteSet(v)
      <4>1. IsFiniteSet(s)
        BY <1>1, FS_Subset
      <4> QED BY <1>3, <3>1, <4>1, FS_Subset
    <3>3. Sums(f, G(v), v) /\ Sums(f, G(u), u)
      BY <1>2, <1>3, <3>2
    <3> HIDE DEF v, G
    <3>4. \A w \in SUBSET v : G(u)[w] = G(v)[w]
      BY <3>2, <3>3, SumsUnique
    <3> QED BY <3>4 DEF v
  <2>3. CASE u = {}
    BY <2>1, <2>3 DEF FoldStep
  <2>4. CASE u # {}
    <3>1. AnyOf(u) \in u
      BY <2>4, AnyIn
    <3> HIDE DEF V, G
    <3> QED BY <1>3, <2>1, <2>2, <2>4, <3>1 DEF FoldStep
  <2> QED BY <2>3, <2>4
<1>4. ASSUME NEW u \in SUBSET s PROVE FoldStep(f, g, u) = FoldStep(f, H, u)
  <2>1. ASSUME u # {} PROVE g[u \ {AnyOf(u)}] = H[u \ {AnyOf(u)}]
    <3>1. AnyOf(u) \in u
      BY <2>1, AnyIn
    <3> QED BY <3>1
  <2> HIDE DEF g, H
  <2> QED BY <2>1 DEF FoldStep
<1>5. Sums(f, g, s)
  <2> HIDE DEF V, G
  <2> QED BY <1>3, <1>4 DEF Sums
<1> QED BY <1>1, <1>5

-----------------------------------------------------------------------------
(* The sum of f over S.                                                    *)

LEMMA SumStep ==
  ASSUME NEW S, IsFiniteSet(S), NEW f
  PROVE  SumFunctionOnSet(f, S) =
           IF S = {} THEN 0 ELSE f[AnyOf(S)] + SumFunctionOnSet(f, S \ {AnyOf(S)})
<1> DEFINE G(s) == CHOOSE g : Sums(f, g, s)
<1>1. SumFunctionOnSet(f, S) = FoldStep(f, G(S), S)
  <2>1. Sums(f, G(S), S)
    BY SumsExist
  <2>2. G(S)[S] = FoldStep(f, G(S), S)
    <3> HIDE DEF G
    <3> QED BY <2>1, SumsAt
  <2> QED BY <2>2, SumIsFold
<1>2. ASSUME S # {} PROVE G(S)[S \ {AnyOf(S)}] = SumFunctionOnSet(f, S \ {AnyOf(S)})
  <2> DEFINE s == S \ {AnyOf(S)}
  <2>1. IsFiniteSet(s) /\ s \subseteq S
    BY FS_Subset
  <2>2. Sums(f, G(s), s) /\ Sums(f, G(S), S)
    <3> HIDE DEF s
    <3> QED BY <2>1, SumsExist
  <2>3. G(S)[s] = G(s)[s]
    <3> HIDE DEF s, G
    <3> QED BY <2>1, <2>2, SumsUnique
  <2>4. SumFunctionOnSet(f, s) = G(s)[s]
    <3> HIDE DEF s
    <3> QED BY SumIsFold
  <2> QED BY <2>3, <2>4
<1> HIDE DEF G
<1> QED
  BY <1>1, <1>2 DEF FoldStep

LEMMA SumEmpty == ASSUME NEW f PROVE SumFunctionOnSet(f, {}) = 0
BY SumStep, FS_EmptySet

LEMMA SumType ==
  ASSUME NEW S, IsFiniteSet(S), NEW f, \A x \in S : f[x] \in Nat
  PROVE  SumFunctionOnSet(f, S) \in Nat
<1> DEFINE Bad == {s \in SUBSET S : SumFunctionOnSet(f, s) \notin Nat}
<1>0. SUFFICES ASSUME Bad # {} PROVE FALSE
  OBVIOUS
<1>1. PICK s \in Bad : \A u \in Bad : u \subseteq s => u = s
  <2> HIDE DEF Bad
  <2>1. Bad \subseteq SUBSET S
    BY DEF Bad
  <2> QED BY <1>0, <2>1, SmallestException
<1>2. IsFiniteSet(s) /\ s # {} /\ AnyOf(s) \in s
  <2>1. s # {}
    <3>1. SumFunctionOnSet(f, {}) \in Nat
      BY SumEmpty
    <3> QED BY <1>1, <3>1
  <2> QED BY <1>1, <2>1, FS_Subset, AnyIn
<1>3. SumFunctionOnSet(f, s \ {AnyOf(s)}) \in Nat
  BY <1>1, <1>2
<1>4. SumFunctionOnSet(f, s) = f[AnyOf(s)] + SumFunctionOnSet(f, s \ {AnyOf(s)})
  BY <1>2, SumStep
<1> QED
  BY <1>1, <1>2, <1>3, <1>4

\* Any element may be taken first.
LEMMA SumRemove ==
  ASSUME NEW S, IsFiniteSet(S), NEW f, \A y \in S : f[y] \in Nat, NEW x \in S
  PROVE  SumFunctionOnSet(f, S) = f[x] + SumFunctionOnSet(f, S \ {x})
<1> DEFINE Sum(s) == SumFunctionOnSet(f, s)
           Bad == {s \in SUBSET S : \E y \in s : Sum(s) # f[y] + Sum(s \ {y})}
<1>0. SUFFICES ASSUME Bad # {} PROVE FALSE
  OBVIOUS
<1>1. PICK s \in Bad : \A u \in Bad : u \subseteq s => u = s
  <2> HIDE DEF Bad
  <2>1. Bad \subseteq SUBSET S
    BY DEF Bad
  <2> QED BY <1>0, <2>1, SmallestException
<1>2. PICK y \in s : Sum(s) # f[y] + Sum(s \ {y})
  BY <1>1
<1> DEFINE p == AnyOf(s)
<1>3. IsFiniteSet(s) /\ p \in s
  BY <1>1, <1>2, FS_Subset, AnyIn
<1>4. Sum(s) = f[p] + Sum(s \ {p})
  BY <1>2, <1>3, SumStep
<1>5. p # y
  BY <1>2, <1>4
<1> HIDE DEF p
<1>6. ASSUME NEW z \in s PROVE \A v \in s \ {z} : Sum(s \ {z}) = f[v] + Sum((s \ {z}) \ {v})
  <2>1. s \ {z} \in SUBSET S /\ s \ {z} \notin Bad
    BY <1>1, <1>6
  <2> QED BY <2>1
<1>7. Sum(s \ {p}) = f[y] + Sum((s \ {p}) \ {y})
  BY <1>2, <1>3, <1>5, <1>6
<1>8. Sum(s \ {y}) = f[p] + Sum((s \ {p}) \ {y})
  <2>1. (s \ {p}) \ {y} = (s \ {y}) \ {p}
    OBVIOUS
  <2>2. Sum(s \ {y}) = f[p] + Sum((s \ {y}) \ {p})
    BY <1>2, <1>3, <1>5, <1>6
  <2> HIDE DEF Sum
  <2> QED BY <2>1, <2>2
<1>9. Sum((s \ {p}) \ {y}) \in Nat /\ f[y] \in Nat /\ f[p] \in Nat
  <2>1. IsFiniteSet((s \ {p}) \ {y})
    BY <1>3, FS_Subset
  <2> QED BY <1>1, <1>2, <1>3, <2>1, SumType
<1> HIDE DEF Sum
<1> QED
  BY <1>2, <1>4, <1>7, <1>8, <1>9

LEMMA SumAdd ==
  ASSUME NEW S, IsFiniteSet(S), NEW x, x \notin S, NEW f, \A y \in S \cup {x} : f[y] \in Nat
  PROVE  SumFunctionOnSet(f, S \cup {x}) = SumFunctionOnSet(f, S) + f[x]
<1>1. IsFiniteSet(S \cup {x}) /\ (S \cup {x}) \ {x} = S
  BY FS_AddElement
<1>2. SumFunctionOnSet(f, S \cup {x}) = f[x] + SumFunctionOnSet(f, S)
  BY <1>1, SumRemove
<1>3. SumFunctionOnSet(f, S) \in Nat
  BY SumType
<1> QED
  BY <1>2, <1>3

\* Functions that agree on S have the same sum.
LEMMA SumSame ==
  ASSUME NEW S, IsFiniteSet(S), NEW f, NEW h, \A x \in S : f[x] = h[x]
  PROVE  SumFunctionOnSet(f, S) = SumFunctionOnSet(h, S)
<1>1. PICK A : A = (CHOOSE g : Sums(f, g, S))
  OBVIOUS
<1>2. PICK B : B = (CHOOSE g : Sums(h, g, S))
  OBVIOUS
<1>3. Sums(f, A, S) /\ Sums(h, B, S)
  BY <1>1, <1>2, SumsExist
<1>4. A[S] = B[S]
  BY <1>3, SumsUnique
<1> QED
  BY <1>1, <1>2, <1>4, SumIsFold

\* A function that is mapped into another one, one to one, has no larger sum.
LEMMA SumInjection ==
  ASSUME NEW S, IsFiniteSet(S), NEW T, IsFiniteSet(T), NEW f, NEW h, NEW m,
         \A x \in S : m[x] \in T /\ f[x] \in Nat /\ f[x] <= h[m[x]],
         \A x, y \in S : m[x] = m[y] => x = y,
         \A t \in T : h[t] \in Nat
  PROVE  SumFunctionOnSet(f, S) <= SumFunctionOnSet(h, T)
<1> DEFINE Bad == {s \in SUBSET S : \E t \in SUBSET T :
                     /\ \A x \in s : m[x] \in t
                     /\ ~ (SumFunctionOnSet(f, s) <= SumFunctionOnSet(h, t))}
<1>0. SUFFICES ASSUME Bad # {} PROVE FALSE
  OBVIOUS
<1>1. PICK s \in Bad : \A u \in Bad : u \subseteq s => u = s
  <2> HIDE DEF Bad
  <2>1. Bad \subseteq SUBSET S
    BY DEF Bad
  <2> QED BY <1>0, <2>1, SmallestException
<1>2. PICK t \in SUBSET T : /\ \A x \in s : m[x] \in t
                            /\ ~ (SumFunctionOnSet(f, s) <= SumFunctionOnSet(h, t))
  BY <1>1
<1>3. IsFiniteSet(s) /\ IsFiniteSet(t)
  BY <1>1, <1>2, FS_Subset
<1>4. s # {}
  BY <1>2, <1>3, SumEmpty, SumType
<1>5. PICK x : x \in s
  BY <1>4
<1>6. SumFunctionOnSet(f, s \ {x}) <= SumFunctionOnSet(h, t \ {m[x]})
  <2>1. \A y \in s \ {x} : m[y] \in t \ {m[x]}
    BY <1>1, <1>2, <1>5
  <2>2. s \ {x} \notin Bad
    BY <1>1, <1>5
  <2> QED BY <1>1, <1>2, <2>1, <2>2
<1>7. SumFunctionOnSet(f, s) = f[x] + SumFunctionOnSet(f, s \ {x})
  BY <1>1, <1>3, <1>5, SumRemove
<1>8. SumFunctionOnSet(h, t) = h[m[x]] + SumFunctionOnSet(h, t \ {m[x]})
  BY <1>2, <1>3, <1>5, SumRemove
<1>9. SumFunctionOnSet(f, s \ {x}) \in Nat /\ SumFunctionOnSet(h, t \ {m[x]}) \in Nat
  <2>1. IsFiniteSet(s \ {x}) /\ IsFiniteSet(t \ {m[x]})
    BY <1>3, FS_Subset
  <2> QED BY <1>1, <1>2, <2>1, SumType
<1>10. f[x] \in Nat /\ h[m[x]] \in Nat /\ f[x] <= h[m[x]]
  BY <1>1, <1>5
<1> QED
  BY <1>2, <1>6, <1>7, <1>8, <1>9, <1>10

\* Two sets without a common element.
LEMMA SumUnion ==
  ASSUME NEW S, IsFiniteSet(S), NEW T, IsFiniteSet(T), S \cap T = {},
         NEW f, \A x \in S \cup T : f[x] \in Nat
  PROVE  SumFunctionOnSet(f, S \cup T) = SumFunctionOnSet(f, S) + SumFunctionOnSet(f, T)
<1> DEFINE Bad == {t \in SUBSET T :
                     SumFunctionOnSet(f, S \cup t) # SumFunctionOnSet(f, S) + SumFunctionOnSet(f, t)}
<1>0. SUFFICES ASSUME Bad # {} PROVE FALSE
  OBVIOUS
<1>1. PICK t \in Bad : \A u \in Bad : u \subseteq t => u = t
  <2> HIDE DEF Bad
  <2>1. Bad \subseteq SUBSET T
    BY DEF Bad
  <2> QED BY <1>0, <2>1, SmallestException
<1>2. SumFunctionOnSet(f, S) \in Nat
  BY SumType
<1>3. t # {}
  <2> SUFFICES ASSUME t = {} PROVE FALSE
    OBVIOUS
  <2>1. S \cup t = S /\ SumFunctionOnSet(f, t) = 0
    BY SumEmpty
  <2>2. SumFunctionOnSet(f, S \cup t) = SumFunctionOnSet(f, S)
    BY <2>1
  <2> QED BY <1>1, <1>2, <2>1, <2>2
<1>4. PICK x : x \in t
  BY <1>3
<1> DEFINE u == t \ {x}
<1>5. IsFiniteSet(t) /\ IsFiniteSet(u) /\ IsFiniteSet(S \cup u)
  <2>1. IsFiniteSet(t) /\ IsFiniteSet(u)
    BY <1>1, FS_Subset
  <2> QED BY <2>1, FS_Union
<1>6. SumFunctionOnSet(f, S \cup u) = SumFunctionOnSet(f, S) + SumFunctionOnSet(f, u)
  BY <1>1, <1>4
<1>7. SumFunctionOnSet(f, (S \cup u) \cup {x}) = SumFunctionOnSet(f, S \cup u) + f[x]
  BY <1>1, <1>4, <1>5, SumAdd
<1>8. SumFunctionOnSet(f, u \cup {x}) = SumFunctionOnSet(f, u) + f[x]
  BY <1>1, <1>4, <1>5, SumAdd
<1>9. /\ SumFunctionOnSet(f, (S \cup u) \cup {x}) = SumFunctionOnSet(f, S \cup t)
      /\ SumFunctionOnSet(f, u \cup {x}) = SumFunctionOnSet(f, t)
  <2>1. (S \cup u) \cup {x} = S \cup t /\ u \cup {x} = t
    BY <1>4
  <2> HIDE DEF u
  <2> QED BY <2>1
<1>10. SumFunctionOnSet(f, u) \in Nat /\ f[x] \in Nat
  BY <1>1, <1>4, <1>5, SumType
<1> HIDE DEF u
<1> QED
  BY <1>1, <1>2, <1>6, <1>7, <1>8, <1>9, <1>10

-----------------------------------------------------------------------------
(* A fold of the community modules that takes the elements in an order of   *)
(* its own: c says which element of a set is the next one, and the step h   *)
(* is a function of what is accumulated and of that element.                *)

NextStep(b, h, c, g, s) == IF s = {} THEN b ELSE h[<<g[s \ {c[s]}], c[s]>>]

Folds(b, h, c, g, S) == g = [s \in SUBSET S |-> NextStep(b, h, c, g, s)]

Chooses(c, S) == \A s \in SUBSET S : s # {} => c[s] \in s

LEMMA FoldsAt ==
  ASSUME NEW b, NEW h, NEW c, NEW g, NEW S, Folds(b, h, c, g, S), NEW s \in SUBSET S
  PROVE  g[s] = NextStep(b, h, c, g, s)
BY DEF Folds

\* What has been folded of the subsets of S does not depend on the rest.
LEMMA FoldsUnique ==
  ASSUME NEW S, IsFiniteSet(S), NEW b, NEW h, NEW c, Chooses(c, S),
         NEW A, NEW B, NEW T, NEW U, S \subseteq T, S \subseteq U,
         Folds(b, h, c, A, T), Folds(b, h, c, B, U)
  PROVE  \A s \in SUBSET S : A[s] = B[s]
<1> DEFINE Bad == {s \in SUBSET S : A[s] # B[s]}
<1> SUFFICES ASSUME Bad # {} PROVE FALSE
  OBVIOUS
<1>1. PICK s \in Bad : \A u \in Bad : u \subseteq s => u = s
  <2> HIDE DEF Bad
  <2>1. Bad \subseteq SUBSET S
    BY DEF Bad
  <2> QED BY <2>1, SmallestException
<1>2. A[s] = NextStep(b, h, c, A, s) /\ B[s] = NextStep(b, h, c, B, s)
  BY <1>1, FoldsAt
<1>3. s # {}
  BY <1>1, <1>2 DEF NextStep
<1>4. c[s] \in s
  BY <1>1, <1>3 DEF Chooses
<1>5. A[s \ {c[s]}] = B[s \ {c[s]}]
  BY <1>1, <1>4
<1> QED
  BY <1>1, <1>2, <1>3, <1>4, <1>5 DEF NextStep

LEMMA FoldsExist ==
  ASSUME NEW S, IsFiniteSet(S), NEW b, NEW h, NEW c, Chooses(c, S)
  PROVE  \E g : Folds(b, h, c, g, S)
<1> DEFINE Bad == {s \in SUBSET S : ~ \E g : Folds(b, h, c, g, s)}
<1>0. SUFFICES ASSUME Bad # {} PROVE FALSE
  BY DEF Bad
<1>1. PICK s \in Bad : \A u \in Bad : u \subseteq s => u = s
  <2> HIDE DEF Bad
  <2>1. Bad \subseteq SUBSET S
    BY DEF Bad
  <2> QED BY <1>0, <2>1, SmallestException
<1> DEFINE G(u) == CHOOSE g : Folds(b, h, c, g, u)
           V(u) == G(u)[u]
           H == [u \in SUBSET s |-> V(u)]
           g == [u \in SUBSET s |-> IF u = s THEN NextStep(b, h, c, H, s) ELSE V(u)]
<1>2. ASSUME NEW u \in SUBSET s, u # s PROVE Folds(b, h, c, G(u), u)
  BY <1>1, <1>2
<1>3. ASSUME NEW u \in SUBSET s, u # s PROVE V(u) = NextStep(b, h, c, H, u)
  <2>1. V(u) = NextStep(b, h, c, G(u), u)
    BY <1>2, <1>3, FoldsAt
  <2>2. ASSUME u # {} PROVE G(u)[u \ {c[u]}] = V(u \ {c[u]})
    <3>1. c[u] \in u
      BY <1>1, <1>3, <2>2 DEF Chooses
    <3> DEFINE v == u \ {c[u]}
    <3>2. v \in SUBSET s /\ v # s /\ v \subseteq u /\ IsFiniteSet(v)
      <4>1. IsFiniteSet(s)
        BY <1>1, FS_Subset
      <4> QED BY <1>3, <3>1, <4>1, FS_Subset
    <3>3. Folds(b, h, c, G(v), v) /\ Folds(b, h, c, G(u), u)
      BY <1>2, <1>3, <3>2
    <3>5. Chooses(c, v)
      BY <1>1, <3>2 DEF Chooses
    <3> HIDE DEF v, G
    <3>4. \A w \in SUBSET v : G(u)[w] = G(v)[w]
      BY <3>2, <3>3, <3>5, FoldsUnique
    <3> QED BY <3>4 DEF v
  <2>3. CASE u = {}
    BY <2>1, <2>3 DEF NextStep
  <2>4. CASE u # {}
    <3>1. c[u] \in u
      BY <1>1, <1>3, <2>4 DEF Chooses
    <3> HIDE DEF V, G
    <3> QED BY <1>3, <2>1, <2>2, <2>4, <3>1 DEF NextStep
  <2> QED BY <2>3, <2>4
<1>4. ASSUME NEW u \in SUBSET s PROVE NextStep(b, h, c, g, u) = NextStep(b, h, c, H, u)
  <2>1. ASSUME u # {} PROVE g[u \ {c[u]}] = H[u \ {c[u]}]
    <3>1. c[u] \in u
      BY <1>1, <1>4, <2>1 DEF Chooses
    <3> QED BY <3>1
  <2> HIDE DEF g, H
  <2> QED BY <2>1 DEF NextStep
<1>5. Folds(b, h, c, g, s)
  <2> HIDE DEF V, G
  <2> QED BY <1>3, <1>4 DEF Folds
<1> QED BY <1>1, <1>5

\* What is accumulated stays in a set the step does not leave.
LEMMA FoldsStayIn ==
  ASSUME NEW S, IsFiniteSet(S), NEW b, NEW h, NEW c, Chooses(c, S), NEW g, Folds(b, h, c, g, S),
         NEW V, b \in V, \A v \in V, x \in S : h[<<v, x>>] \in V
  PROVE  \A s \in SUBSET S : g[s] \in V
<1> DEFINE Bad == {s \in SUBSET S : g[s] \notin V}
<1> SUFFICES ASSUME Bad # {} PROVE FALSE
  OBVIOUS
<1>1. PICK s \in Bad : \A u \in Bad : u \subseteq s => u = s
  <2> HIDE DEF Bad
  <2>1. Bad \subseteq SUBSET S
    BY DEF Bad
  <2> QED BY <2>1, SmallestException
<1>2. g[s] = NextStep(b, h, c, g, s)
  BY <1>1, FoldsAt
<1>3. s # {}
  BY <1>1, <1>2 DEF NextStep
<1>4. c[s] \in s /\ c[s] \in S
  BY <1>1, <1>3 DEF Chooses
<1>5. g[s \ {c[s]}] \in V
  BY <1>1, <1>4
<1> QED
  BY <1>1, <1>2, <1>3, <1>4, <1>5 DEF NextStep

-----------------------------------------------------------------------------
(* A fold over the positions of a sequence, from the first to the last.     *)

Highest(n) == [s \in SUBSET (1..n) |-> CHOOSE x \in s : \A y \in s : x >= y]

LEMMA HighestIs ==
  ASSUME NEW n \in Nat, NEW i \in 1..n
  PROVE  Highest(n)[1..i] = i /\ (1..i) \ {i} = 1..(i - 1)
<1>1. 1..i \in SUBSET (1..n) /\ i \in 1..i
  OBVIOUS
<1>2. (CHOOSE x \in 1..i : \A y \in 1..i : x >= y) = i
  <2>1. \A x \in 1..i : (\A y \in 1..i : x >= y) => x = i
    BY <1>1
  <2>2. \A y \in 1..i : i >= y
    OBVIOUS
  <2> QED BY <1>1, <2>1, <2>2
<1>3. (1..i) \ {i} = 1..(i - 1)
  OBVIOUS
<1> QED
  BY <1>1, <1>2, <1>3 DEF Highest

\* The set of positions up to which something holds is all of them, if it holds of none and
\* of one more whenever it holds so far.
LEMMA AllPositions ==
  ASSUME NEW n \in Nat, NEW P, 0 \in P, \A i \in 1..n : i - 1 \in P => i \in P
  PROVE  \A i \in 0..n : i \in P
<1> DEFINE Bad == {s \in SUBSET (1..n) : \E i \in 0..n : i \notin P /\ s = 1..i}
<1> SUFFICES ASSUME NEW k \in 0..n, k \notin P PROVE FALSE
  OBVIOUS
<1>1. 1..k \in Bad
  OBVIOUS
<1>2. PICK s \in Bad : \A u \in Bad : u \subseteq s => u = s
  <2> DEFINE S == 1..n
  <2>1. IsFiniteSet(S)
    BY FS_Interval
  <2>2. Bad \subseteq SUBSET S /\ Bad # {}
    BY <1>1
  <2> HIDE DEF Bad, S
  <2> QED BY <2>1, <2>2, SmallestException
<1>3. PICK i \in 0..n : i \notin P /\ s = 1..i
  BY <1>2
<1>4. i \in 1..n /\ i - 1 \in 0..n /\ i - 1 \notin P
  BY <1>3
<1>5. 1..(i - 1) \in Bad
  BY <1>4
<1>6. 1..(i - 1) = 1..i
  <2>1. 1..(i - 1) \subseteq s
    BY <1>3, <1>4
  <2> HIDE DEF Bad
  <2> QED BY <1>2, <1>3, <1>5, <2>1
<1>7. i \in 1..i /\ i \notin 1..(i - 1)
  BY <1>4
<1> QED BY <1>6, <1>7

LEMMA HighestChooses == ASSUME NEW n \in Nat PROVE Chooses(Highest(n), 1..n)
<1> SUFFICES ASSUME NEW s \in SUBSET (1..n), s # {}
             PROVE  \E x \in s : \A y \in s : x >= y
  BY DEF Chooses, Highest
<1> DEFINE P == {i \in 0..n : \A t \in SUBSET (1..i) : t # {} => \E x \in t : \A y \in t : x >= y}
<1>1. 0 \in P
  <2>1. \A x : x \notin 1..0
    OBVIOUS
  <2>2. \A t \in SUBSET (1..0) : t = {}
    BY <2>1
  <2>3. 0 \in 0..n
    OBVIOUS
  <2> QED BY <2>2, <2>3
<1>2. ASSUME NEW i \in 1..n, i - 1 \in P PROVE i \in P
  <2> SUFFICES ASSUME NEW t \in SUBSET (1..i), t # {}
               PROVE  \E x \in t : \A y \in t : x >= y
    OBVIOUS
  <2>1. CASE i \in t
    <3>1. \A y \in t : i >= y
      OBVIOUS
    <3> QED BY <2>1, <3>1
  <2>2. CASE i \notin t
    <3>1. t \in SUBSET (1..(i - 1))
      BY <2>2
    <3> QED BY <1>2, <3>1
  <2> QED BY <2>1, <2>2
<1>3. n \in P
  <2> HIDE DEF P
  <2> QED BY <1>1, <1>2, AllPositions
<1> QED BY <1>3

\* The fold exists, and what it has accumulated stays in V.
LEMMA SequenceFold ==
  ASSUME NEW n \in Nat, NEW V, NEW b \in V, NEW h, \A v \in V, i \in 1..n : h[<<v, i>>] \in V
  PROVE  \E g : /\ \A s \in SUBSET (1..n) : g[s] \in V
                /\ g = [s \in SUBSET (1..n) |->
                          NextStep(b, h, Highest(n), g, s)]
                /\ \A s \in SUBSET (1..n) : s # {} => Highest(n)[s] \in s
<1>1. IsFiniteSet(1..n) /\ Chooses(Highest(n), 1..n)
  BY FS_Interval, HighestChooses
<1>2. PICK g : Folds(b, h, Highest(n), g, 1..n)
  BY <1>1, FoldsExist
<1>3. \A s \in SUBSET (1..n) : g[s] \in V
  BY <1>1, <1>2, FoldsStayIn
<1> QED BY <1>1, <1>2, <1>3 DEF Folds, Chooses

\* What is folded up to each position is in V.
LEMMA FoldTrail ==
  ASSUME NEW n \in Nat, NEW V, NEW G, G[{}] \in V,
         \A i \in 1..n : G[1..(i - 1)] \in V => G[1..i] \in V
  PROVE  \A i \in 0..n : G[1..i] \in V
<1>1. 1..0 = {}
  OBVIOUS
<1> DEFINE P == {j \in 0..n : G[1..j] \in V}
<1>2. 0 \in P
  BY <1>1
<1>3. \A i \in 1..n : i - 1 \in P => i \in P
  OBVIOUS
<1>4. \A i \in 0..n : i \in P
  <2> HIDE DEF P
  <2> QED BY <1>2, <1>3, AllPositions
<1> QED BY <1>4
=============================================================================
