------------------------------- MODULE SumProofs -------------------------------
(***************************************************************************)
(* Lemmas about sums over finite sets.  A sum is a fold, defined by        *)
(* recursion over the subsets of its index set; what it computes is found  *)
(* by induction over finite sets, which FiniteInduction states without an  *)
(* operator parameter: the sets a property holds of are themselves a set.  *)
(***************************************************************************)
EXTENDS Functions, FiniteSets, FiniteSetTheorems, WellFoundedInduction, TLAPS

\* A family of subsets of a finite set has a minimal member.
LEMMA MinimalSubset ==
    ASSUME NEW S, IsFiniteSet(S), NEW Bad \in SUBSET SUBSET S, Bad # {}
    PROVE  \E b \in Bad : \A c \in Bad : c \subseteq b => c = b
<1>1. FiniteSubsetsOf(S) = SUBSET S
    BY FS_FiniteSubsetsOfFinite
<1>2. IsWellFoundedOn(StrictSubsetOrdering(S), SUBSET S)
    BY <1>1, FS_StrictSubsetOrderingWellFounded
<1>3. PICK b \in Bad : \A c \in Bad : <<c, b>> \notin StrictSubsetOrdering(S)
    BY <1>2, WFMin, Zenon
<1>4. \A c \in Bad : c \subseteq b => c = b
    BY <1>3 DEF StrictSubsetOrdering
<1> QED
    BY <1>4

\* Induction over the subsets of a finite set: a family of sets that has the
\* empty set, and with a set that set and one more element, has the whole set.
LEMMA FiniteInduction ==
    ASSUME NEW S, IsFiniteSet(S), NEW T, {} \in T,
           \A s \in SUBSET S, x \in S : s \in T /\ x \notin s => s \cup {x} \in T
    PROVE  S \in T
<1> SUFFICES ASSUME S \notin T
             PROVE  FALSE
    OBVIOUS
<1> DEFINE Bad == {s \in SUBSET S : s \notin T}
<1>1. PICK b \in Bad : \A c \in Bad : c \subseteq b => c = b
    <2>1. Bad # {} /\ Bad \in SUBSET SUBSET S
        OBVIOUS
    <2> HIDE DEF Bad
    <2> QED
        BY <2>1, MinimalSubset
<1>2. PICK x \in b : TRUE
    OBVIOUS
<1>3. b \ {x} \in T
    BY <1>1
<1>4. (b \ {x}) \cup {x} = b
    OBVIOUS
<1> QED
    BY <1>3, <1>4

\* The same for a property that goes from the proper subsets of a set to the set.
LEMMA SubsetInduction ==
    ASSUME NEW S, IsFiniteSet(S), NEW T,
           \A s \in SUBSET S : (\A r \in SUBSET s : r # s => r \in T) => s \in T
    PROVE  S \in T
<1> SUFFICES ASSUME S \notin T
             PROVE  FALSE
    OBVIOUS
<1> DEFINE Bad == {s \in SUBSET S : s \notin T}
<1>1. PICK b \in Bad : \A c \in Bad : c \subseteq b => c = b
    <2>1. Bad # {} /\ Bad \in SUBSET SUBSET S
        OBVIOUS
    <2> HIDE DEF Bad
    <2> QED
        BY <2>1, MinimalSubset
<1>2. \A r \in SUBSET b : r # b => r \in T
    BY <1>1
<1> QED
    BY <1>1, <1>2

\* Induction over the natural numbers, for a set of them.
LEMMA NumberInduction ==
    ASSUME NEW T, 0 \in T, \A n \in Nat : n \in T => n + 1 \in T
    PROVE  Nat \subseteq T
<1> SUFFICES ASSUME ~(Nat \subseteq T)
             PROVE  FALSE
    OBVIOUS
<1> DEFINE R == OpToRel(<, Nat)
           Bad == {n \in Nat : n \notin T}
<1>1. IsWellFoundedOn(R, Nat)
    BY NatLessThanWellFounded
<1>2. \A m, n \in Nat : m < n => <<m, n>> \in R
    BY DEF OpToRel
<1> HIDE DEF R
<1>3. Bad \subseteq Nat /\ Bad # {}
    OBVIOUS
<1> HIDE DEF Bad
<1>4. PICK n \in Bad : \A m \in Bad : <<m, n>> \notin R
    BY <1>1, <1>3, WFMin, Zenon
<1>5. n \in Nat /\ n \notin T /\ n # 0
    BY DEF Bad
<1>6. n - 1 \in Nat /\ n - 1 < n /\ (n - 1) + 1 = n
    BY <1>5
<1>7. n - 1 \in T
    BY <1>2, <1>4, <1>5, <1>6 DEF Bad
<1> QED
    BY <1>5, <1>6, <1>7
-----------------------------------------------------------------------------
(***************************************************************************)
(* The recursion behind SumFunctionOnSet.                                  *)
(***************************************************************************)
Chosen(s) == CHOOSE x \in s : TRUE

\* g is the sum of f over each subset of S.
IsSumOn(g, f, S) ==
    g = [s \in SUBSET S |->
            IF s = {} THEN 0 ELSE f[Chosen(s)] + g[s \ {Chosen(s)}]]

\* The fold is the recursive function, if there is one.
LEMMA SumIter ==
    ASSUME NEW f, NEW S
    PROVE  SumFunctionOnSet(f, S) = (CHOOSE g : IsSumOn(g, f, S))[S]
BY Zenon
DEF SumFunctionOnSet, FoldFunctionOnSet, MapThenFoldSet, IsSumOn, Chosen

\* Two such functions agree where both are defined.
LEMMA SumUnique ==
    ASSUME NEW f, NEW S, NEW R, NEW g, NEW h, IsSumOn(g, f, S), IsSumOn(h, f, R),
           NEW U \in SUBSET (S \cap R), IsFiniteSet(U)
    PROVE  g[U] = h[U]
<1> DEFINE T == {s \in SUBSET U : g[s] = h[s]}
<1>1. ASSUME NEW s \in SUBSET U, \A r \in SUBSET s : r # s => r \in T
      PROVE  s \in T
    <2>1. CASE s = {}
        BY <2>1 DEF IsSumOn
    <2>2. CASE s # {}
        <3>1. Chosen(s) \in s
            BY <2>2 DEF Chosen
        <3>2. g[s \ {Chosen(s)}] = h[s \ {Chosen(s)}]
            BY <1>1, <3>1
        <3>3. /\ g[s] = f[Chosen(s)] + g[s \ {Chosen(s)}]
              /\ h[s] = f[Chosen(s)] + h[s \ {Chosen(s)}]
            BY <2>2 DEF IsSumOn
        <3> QED
            BY <3>2, <3>3
    <2> QED
        BY <2>1, <2>2
<1> HIDE DEF T
<1>2. U \in T
    BY <1>1, SubsetInduction
<1> QED
    BY <1>2 DEF T

\* The recursion defines a function on a finite set.
LEMMA SumExists ==
    ASSUME NEW f, NEW S, IsFiniteSet(S)
    PROVE  \E g : IsSumOn(g, f, S)
<1> DEFINE T == {s \in SUBSET S : \E g : IsSumOn(g, f, s)}
           G(s) == CHOOSE g : IsSumOn(g, f, s)
<1>1. ASSUME NEW s \in SUBSET S, \A r \in SUBSET s : r # s => r \in T
      PROVE  s \in T
    <2> DEFINE h == [r \in SUBSET s |->
                        IF r = {} THEN 0
                        ELSE f[Chosen(r)] + G(r \ {Chosen(r)})[r \ {Chosen(r)}]]
    <2>1. ASSUME NEW r \in SUBSET s, r # s
          PROVE  IsSumOn(G(r), f, r)
        BY <1>1, <2>1
    <2>2. ASSUME NEW r \in SUBSET s, r # {}
          PROVE  G(r \ {Chosen(r)})[r \ {Chosen(r)}] = h[r \ {Chosen(r)}]
        <3> DEFINE u == r \ {Chosen(r)}
                   v == u \ {Chosen(u)}
        <3>1. Chosen(r) \in r
            BY <2>2 DEF Chosen
        <3>2. u \in SUBSET s /\ u # s
            BY <3>1
        <3>3. IsSumOn(G(u), f, u)
            BY <2>1, <3>2
        <3> HIDE DEF G, u
        <3>4. CASE u = {}
            <4>1. G(u)[u] = 0
                BY <3>3, <3>4 DEF IsSumOn
            <4> QED
                BY <3>2, <3>4, <4>1 DEF u
        <3>5. CASE u # {}
            <4>1. Chosen(u) \in u
                BY <3>5 DEF Chosen
            <4>2. v \in SUBSET s /\ v # s /\ v \in SUBSET u
                BY <3>2, <4>1
            <4>3. IsSumOn(G(v), f, v)
                BY <2>1, <4>2 DEF G
            <4> HIDE DEF v
            <4>4. IsFiniteSet(v)
                BY <4>2, FS_Subset
            <4>5. G(u)[v] = G(v)[v]
                BY <3>3, <4>2, <4>3, <4>4, SumUnique
            <4>6. G(u)[u] = f[Chosen(u)] + G(u)[v]
                BY <3>3, <3>5 DEF IsSumOn, v
            <4>7. h[u] = f[Chosen(u)] + G(v)[v]
                BY <3>2, <3>5 DEF v
            <4> QED
                BY <4>5, <4>6, <4>7 DEF u
        <3> QED
            BY <3>4, <3>5
    <2> HIDE DEF G
    <2>3. IsSumOn(h, f, s)
        BY <2>2 DEF IsSumOn
    <2> QED
        BY <2>3
<1> HIDE DEF T
<1>2. S \in T
    BY <1>1, SubsetInduction
<1> QED
    BY <1>2 DEF T
-----------------------------------------------------------------------------
(***************************************************************************)
(* What sums do.                                                           *)
(***************************************************************************)

\* f has integers on S, which has finitely many elements.
Summable(f, S) == IsFiniteSet(S) /\ \A x \in S : f[x] \in Int

\* One turn of the recursion
LEMMA SumUnfold ==
    ASSUME NEW f, NEW S, IsFiniteSet(S)
    PROVE  /\ S = {} => SumFunctionOnSet(f, S) = 0
           /\ S # {} => SumFunctionOnSet(f, S)
                            = f[Chosen(S)] + SumFunctionOnSet(f, S \ {Chosen(S)})
<1> DEFINE R == S \ {Chosen(S)}
           g == CHOOSE g : IsSumOn(g, f, S)
           h == CHOOSE h : IsSumOn(h, f, R)
<1>1. IsFiniteSet(R)
    BY FS_Subset
<1>2. IsSumOn(g, f, S)
    BY SumExists
<1>3. IsSumOn(h, f, R)
    BY <1>1, SumExists
<1>4. SumFunctionOnSet(f, S) = g[S]
    BY SumIter
<1>5. SumFunctionOnSet(f, R) = h[R]
    BY SumIter
<1> HIDE DEF g, h
<1>6. g[R] = h[R]
    BY <1>1, <1>2, <1>3, SumUnique
<1>7. /\ S = {} => g[S] = 0
      /\ S # {} => g[S] = f[Chosen(S)] + g[R]
    BY <1>2 DEF IsSumOn
<1> QED
    BY <1>4, <1>5, <1>6, <1>7

LEMMA SumEmpty ==
    ASSUME NEW f
    PROVE  SumFunctionOnSet(f, {}) = 0
BY SumUnfold, FS_EmptySet

\* A sum of integers is one.
LEMMA SumType ==
    ASSUME NEW f, NEW S, Summable(f, S)
    PROVE  SumFunctionOnSet(f, S) \in Int
<1> DEFINE T == {s \in SUBSET S : SumFunctionOnSet(f, s) \in Int}
<1>1. ASSUME NEW s \in SUBSET S, \A r \in SUBSET s : r # s => r \in T
      PROVE  s \in T
    <2>1. IsFiniteSet(s)
        BY FS_Subset DEF Summable
    <2>2. CASE s = {}
        BY <2>2, SumEmpty
    <2>3. CASE s # {}
        <3>1. Chosen(s) \in s
            BY <2>3 DEF Chosen
        <3>2. s \ {Chosen(s)} \in T
            BY <1>1, <3>1
        <3> QED
            BY <2>1, <2>3, <3>1, <3>2, SumUnfold DEF Summable
    <2> QED
        BY <2>2, <2>3
<1> HIDE DEF T
<1>2. S \in T
    BY <1>1, SubsetInduction DEF Summable
<1> QED
    BY <1>2 DEF T

\* The order of the elements does not matter: any of them can be taken first.
LEMMA SumRemove ==
    ASSUME NEW f, NEW S, Summable(f, S), NEW x \in S
    PROVE  SumFunctionOnSet(f, S) = f[x] + SumFunctionOnSet(f, S \ {x})
<1> DEFINE Sum(s) == SumFunctionOnSet(f, s)
           T == {s \in SUBSET S : \A y \in s : Sum(s) = f[y] + Sum(s \ {y})}
<1>1. ASSUME NEW s \in SUBSET S, \A r \in SUBSET s : r # s => r \in T
      PROVE  s \in T
    <2> SUFFICES ASSUME NEW y \in s
                 PROVE  Sum(s) = f[y] + Sum(s \ {y})
        OBVIOUS
    <2> DEFINE c == Chosen(s)
               q == s \ {c, y}
    <2>1. IsFiniteSet(s)
        BY FS_Subset DEF Summable
    <2>2. c \in s
        BY DEF Chosen
    <2>3. Sum(s) = f[c] + Sum(s \ {c})
        BY <2>1, SumUnfold
    <2> HIDE DEF c
    <2>4. CASE y = c
        BY <2>3, <2>4
    <2>5. CASE y # c
        <3>1. s \ {c} \in T /\ s \ {y} \in T
            BY <1>1, <2>2
        <3>2. Sum(s \ {c}) = f[y] + Sum((s \ {c}) \ {y})
            BY <2>5, <3>1
        <3>3. Sum(s \ {y}) = f[c] + Sum((s \ {y}) \ {c})
            BY <2>2, <2>5, <3>1
        <3>4. /\ Sum((s \ {c}) \ {y}) = Sum(q)
              /\ Sum((s \ {y}) \ {c}) = Sum(q)
            <4>1. (s \ {c}) \ {y} = q /\ (s \ {y}) \ {c} = q
                OBVIOUS
            <4> QED
                BY <4>1
        <3>5. Summable(f, q)
            BY FS_Subset DEF Summable
        <3>6. Sum(q) \in Int
            BY <3>5, SumType
        <3>7. f[y] \in Int /\ f[c] \in Int
            BY <2>2 DEF Summable
        <3> HIDE DEF Sum, q
        <3> QED
            BY <2>3, <3>2, <3>3, <3>4, <3>6, <3>7
    <2> QED
        BY <2>4, <2>5
<1> HIDE DEF T
<1>2. S \in T
    BY <1>1, SubsetInduction DEF Summable
<1> QED
    BY <1>2 DEF T

LEMMA SumAdd ==
    ASSUME NEW f, NEW S, Summable(f, S), NEW x, x \notin S, f[x] \in Int
    PROVE  SumFunctionOnSet(f, S \cup {x}) = f[x] + SumFunctionOnSet(f, S)
<1>1. Summable(f, S \cup {x})
    BY FS_AddElement DEF Summable
<1>2. (S \cup {x}) \ {x} = S
    OBVIOUS
<1> QED
    BY <1>1, <1>2, SumRemove

LEMMA SumOne ==
    ASSUME NEW f, NEW x, f[x] \in Int
    PROVE  SumFunctionOnSet(f, {x}) = f[x]
<1>1. Summable(f, {x})
    BY FS_Singleton DEF Summable
<1>2. SumFunctionOnSet(f, {x}) = f[x] + SumFunctionOnSet(f, {x} \ {x})
    BY <1>1, SumRemove
<1>3. {x} \ {x} = {}
    OBVIOUS
<1> QED
    BY <1>2, <1>3, SumEmpty

\* Only the values on the set matter.
LEMMA SumSame ==
    ASSUME NEW f, NEW g, NEW S, IsFiniteSet(S), \A x \in S : f[x] = g[x]
    PROVE  SumFunctionOnSet(f, S) = SumFunctionOnSet(g, S)
<1> DEFINE T == {s \in SUBSET S : SumFunctionOnSet(f, s) = SumFunctionOnSet(g, s)}
<1>1. ASSUME NEW s \in SUBSET S, \A r \in SUBSET s : r # s => r \in T
      PROVE  s \in T
    <2>1. IsFiniteSet(s)
        BY FS_Subset
    <2>2. CASE s = {}
        BY <2>2, SumEmpty
    <2>3. CASE s # {}
        <3>1. Chosen(s) \in s
            BY <2>3 DEF Chosen
        <3>2. s \ {Chosen(s)} \in T
            BY <1>1, <3>1
        <3>3. f[Chosen(s)] = g[Chosen(s)]
            BY <3>1
        <3> QED
            BY <2>1, <2>3, <3>2, <3>3, SumUnfold
    <2> QED
        BY <2>2, <2>3
<1> HIDE DEF T
<1>2. S \in T
    BY <1>1, SubsetInduction
<1> QED
    BY <1>2 DEF T

\* The sum of the sums of two functions
LEMMA SumPlus ==
    ASSUME NEW f, NEW g, NEW h, NEW S, Summable(f, S), Summable(g, S),
           \A x \in S : h[x] = f[x] + g[x]
    PROVE  SumFunctionOnSet(h, S) = SumFunctionOnSet(f, S) + SumFunctionOnSet(g, S)
<1> DEFINE Sum(k, s) == SumFunctionOnSet(k, s)
           T == {s \in SUBSET S : Sum(h, s) = Sum(f, s) + Sum(g, s)}
<1>1. {} \in T
    BY SumEmpty
<1>2. ASSUME NEW s \in SUBSET S, NEW x \in S, s \in T, x \notin s
      PROVE  s \cup {x} \in T
    <2>1. Summable(f, s) /\ Summable(g, s) /\ Summable(h, s)
        BY FS_Subset DEF Summable
    <2>2. f[x] \in Int /\ g[x] \in Int /\ h[x] = f[x] + g[x]
        BY DEF Summable
    <2>3. /\ Sum(f, s \cup {x}) = f[x] + Sum(f, s)
          /\ Sum(g, s \cup {x}) = g[x] + Sum(g, s)
        BY <1>2, <2>1, <2>2, SumAdd
    <2>4. Sum(h, s \cup {x}) = h[x] + Sum(h, s)
        BY <1>2, <2>1, <2>2, SumAdd
    <2>5. Sum(f, s) \in Int /\ Sum(g, s) \in Int
        BY <2>1, SumType
    <2>6. Sum(h, s) = Sum(f, s) + Sum(g, s)
        BY <1>2
    <2> HIDE DEF Sum
    <2>7. Sum(h, s \cup {x}) = Sum(f, s \cup {x}) + Sum(g, s \cup {x})
        BY <2>2, <2>3, <2>4, <2>5, <2>6
    <2> QED
        BY <2>7
<1> HIDE DEF T
<1>3. S \in T
    BY <1>1, <1>2, FiniteInduction DEF Summable
<1> QED
    BY <1>3 DEF T

\* A sum of nothing but zeroes
LEMMA SumZero ==
    ASSUME NEW f, NEW S, IsFiniteSet(S), \A x \in S : f[x] = 0
    PROVE  SumFunctionOnSet(f, S) = 0
<1>1. Summable(f, S)
    BY DEF Summable
<1>2. SumFunctionOnSet(f, S) = SumFunctionOnSet(f, S) + SumFunctionOnSet(f, S)
    BY <1>1, SumPlus
<1> QED
    BY <1>1, <1>2, SumType

\* A sum with one value that is not zero
LEMMA SumSingle ==
    ASSUME NEW f, NEW S, IsFiniteSet(S), NEW x \in S, f[x] \in Int,
           \A y \in S : y # x => f[y] = 0
    PROVE  SumFunctionOnSet(f, S) = f[x]
<1>1. Summable(f, S)
    BY DEF Summable
<1>2. IsFiniteSet(S \ {x})
    BY FS_Subset
<1>3. SumFunctionOnSet(f, S \ {x}) = 0
    BY <1>2, SumZero
<1> QED
    BY <1>1, <1>3, SumRemove

\* The negated values have the negated sum.
LEMMA SumNegated ==
    ASSUME NEW f, NEW g, NEW S, Summable(f, S), \A x \in S : g[x] = -f[x]
    PROVE  SumFunctionOnSet(g, S) = -SumFunctionOnSet(f, S)
<1> DEFINE z == [x \in S |-> 0]
<1>1. Summable(g, S)
    BY DEF Summable
<1>2. \A x \in S : z[x] = f[x] + g[x]
    BY DEF Summable
<1>3. \A x \in S : z[x] = 0
    OBVIOUS
<1> HIDE DEF z
<1>4. SumFunctionOnSet(z, S) = SumFunctionOnSet(f, S) + SumFunctionOnSet(g, S)
    BY <1>1, <1>2, SumPlus
<1>5. SumFunctionOnSet(z, S) = 0
    BY <1>3, SumZero DEF Summable
<1>6. SumFunctionOnSet(f, S) \in Int /\ SumFunctionOnSet(g, S) \in Int
    BY <1>1, SumType
<1> QED
    BY <1>4, <1>5, <1>6

\* The sums over two sets without a common element
LEMMA SumUnion ==
    ASSUME NEW f, NEW S, NEW R, Summable(f, S), Summable(f, R), S \cap R = {}
    PROVE  SumFunctionOnSet(f, S \cup R)
               = SumFunctionOnSet(f, S) + SumFunctionOnSet(f, R)
<1> DEFINE Sum(s) == SumFunctionOnSet(f, s)
           T == {s \in SUBSET R : Sum(S \cup s) = Sum(S) + Sum(s)}
<1>1. Sum(S) \in Int
    BY SumType
<1>2. {} \in T
    <2>1. S \cup {} = S
        OBVIOUS
    <2> QED
        BY <1>1, <2>1, SumEmpty
<1>3. ASSUME NEW s \in SUBSET R, NEW x \in R, s \in T, x \notin s
      PROVE  s \cup {x} \in T
    <2>1. Summable(f, s) /\ Summable(f, S \cup s)
        BY FS_Subset, FS_Union DEF Summable
    <2>2. f[x] \in Int /\ x \notin S \cup s
        BY <1>3 DEF Summable
    <2>3. Sum(s \cup {x}) = f[x] + Sum(s)
        BY <1>3, <2>1, <2>2, SumAdd
    <2>4. (S \cup s) \cup {x} = S \cup (s \cup {x})
        OBVIOUS
    <2>5. Sum(S \cup (s \cup {x})) = f[x] + Sum(S \cup s)
        BY <2>1, <2>2, <2>4, SumAdd
    <2>6. Sum(s) \in Int
        BY <2>1, SumType
    <2>7. Sum(S \cup s) = Sum(S) + Sum(s)
        BY <1>3
    <2> HIDE DEF Sum
    <2>8. Sum(S \cup (s \cup {x})) = Sum(S) + Sum(s \cup {x})
        BY <1>1, <2>2, <2>3, <2>5, <2>6, <2>7
    <2> QED
        BY <2>8
<1> HIDE DEF T
<1>4. R \in T
    BY <1>2, <1>3, FiniteInduction DEF Summable
<1> QED
    BY <1>4 DEF T

\* Elements without a value to add can be left out.
LEMMA SumExtend ==
    ASSUME NEW f, NEW S, NEW R \in SUBSET S, Summable(f, S),
           \A x \in S \ R : f[x] = 0
    PROVE  SumFunctionOnSet(f, S) = SumFunctionOnSet(f, R)
<1>1. Summable(f, R) /\ Summable(f, S \ R)
    BY FS_Subset DEF Summable
<1>2. R \cup (S \ R) = S /\ R \cap (S \ R) = {}
    OBVIOUS
<1>3. SumFunctionOnSet(f, S)
          = SumFunctionOnSet(f, R) + SumFunctionOnSet(f, S \ R)
    BY <1>1, <1>2, SumUnion
<1>4. SumFunctionOnSet(f, S \ R) = 0
    BY <1>1, SumZero DEF Summable
<1> QED
    BY <1>1, <1>3, <1>4, SumType

\* A part of a sum of naturals is no more than all of it.
LEMMA SumNat ==
    ASSUME NEW f, NEW S, IsFiniteSet(S), \A x \in S : f[x] \in Nat
    PROVE  SumFunctionOnSet(f, S) \in Nat
<1> DEFINE T == {s \in SUBSET S : SumFunctionOnSet(f, s) \in Nat}
<1>1. {} \in T
    BY SumEmpty
<1>2. ASSUME NEW s \in SUBSET S, NEW x \in S, s \in T, x \notin s
      PROVE  s \cup {x} \in T
    <2>1. Summable(f, s) /\ f[x] \in Nat
        BY FS_Subset DEF Summable
    <2> QED
        BY <1>2, <2>1, SumAdd
<1> HIDE DEF T
<1>3. S \in T
    BY <1>1, <1>2, FiniteInduction
<1> QED
    BY <1>3 DEF T

\* The values of a function at the elements of a finite set
LEMMA FiniteImage ==
    ASSUME NEW m, NEW S, IsFiniteSet(S)
    PROVE  IsFiniteSet({m[x] : x \in S})
<1> DEFINE Img(s) == {m[x] : x \in s}
           T == {s \in SUBSET S : IsFiniteSet(Img(s))}
<1>1. {} \in T
    <2>1. Img({}) = {}
        OBVIOUS
    <2> QED
        BY <2>1, FS_EmptySet
<1>2. ASSUME NEW s \in SUBSET S, NEW x \in S, s \in T, x \notin s
      PROVE  s \cup {x} \in T
    <2>1. Img(s \cup {x}) = Img(s) \cup {m[x]}
        OBVIOUS
    <2>2. IsFiniteSet(Img(s))
        BY <1>2
    <2> HIDE DEF Img
    <2>3. IsFiniteSet(Img(s) \cup {m[x]})
        BY <2>2, FS_AddElement
    <2> QED
        BY <2>1, <2>3
<1> HIDE DEF T
<1>3. S \in T
    BY <1>1, <1>2, FiniteInduction
<1> QED
    BY <1>3 DEF T

\* The elements can be renamed one to one.
LEMMA SumRenamed ==
    ASSUME NEW f, NEW g, NEW m, NEW S, Summable(f, S),
           \A x \in S : g[m[x]] = f[x],
           \A x, y \in S : m[x] = m[y] => x = y
    PROVE  SumFunctionOnSet(g, {m[x] : x \in S}) = SumFunctionOnSet(f, S)
<1> DEFINE Sum(k, s) == SumFunctionOnSet(k, s)
           Img(s) == {m[x] : x \in s}
           T == {s \in SUBSET S : Sum(g, Img(s)) = Sum(f, s)}
<1>1. {} \in T
    <2>1. Img({}) = {}
        OBVIOUS
    <2> QED
        BY <2>1, SumEmpty
<1>2. ASSUME NEW s \in SUBSET S, NEW x \in S, s \in T, x \notin s
      PROVE  s \cup {x} \in T
    <2>1. Summable(f, s) /\ f[x] \in Int
        BY FS_Subset DEF Summable
    <2>2. IsFiniteSet(Img(s))
        BY <2>1, FiniteImage DEF Summable
    <2>3. Summable(g, Img(s))
        BY <2>2 DEF Summable
    <2>4. m[x] \notin Img(s) /\ g[m[x]] = f[x]
        BY <1>2
    <2>5. Img(s \cup {x}) = Img(s) \cup {m[x]}
        OBVIOUS
    <2>6. Sum(g, Img(s)) = Sum(f, s)
        BY <1>2
    <2> HIDE DEF Img
    <2>7. Sum(f, s \cup {x}) = f[x] + Sum(f, s)
        BY <1>2, <2>1, SumAdd
    <2>8. Sum(g, Img(s) \cup {m[x]}) = f[x] + Sum(g, Img(s))
        BY <2>1, <2>3, <2>4, SumAdd
    <2> QED
        BY <2>5, <2>6, <2>7, <2>8
<1> HIDE DEF T
<1>3. S \in T
    BY <1>1, <1>2, FiniteInduction DEF Summable
<1> QED
    BY <1>3 DEF T
=============================================================================
