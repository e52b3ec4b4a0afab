---------------------------- MODULE FoldTheorems ----------------------------
(***************************************************************************)
(* Lemmas about the folds of the community modules, which the properties   *)
(* use for sums over finite sets and for loops over lists.  A fold is      *)
(* defined by recursion over subsets; here the function that a fold        *)
(* chooses is shown to exist and to be the only one.                       *)
(***************************************************************************)
EXTENDS Integers, FiniteSetsExt, SequencesExt, FiniteSetTheorems, TLAPS

-----------------------------------------------------------------------------
(* Induction over the subsets of a finite set *)

LEMMA SubsetInduction ==
    ASSUME NEW S, IsFiniteSet(S), NEW Good,
           \A T \in SUBSET S : (\A x \in T : T \ {x} \in Good) => T \in Good
    PROVE  \A T \in SUBSET S : T \in Good
<1> DEFINE Bad == {T \in SUBSET S : T \notin Good}
<1>1. SUFFICES ASSUME Bad # {} PROVE FALSE
  OBVIOUS
<1>2. PICK T \in Bad : \A U \in Bad : <<U, T>> \notin StrictSubsetOrdering(S)
  <2>1. IsWellFoundedOn(StrictSubsetOrdering(S), SUBSET S)
    BY FS_StrictSubsetOrderingWellFounded, FS_FiniteSubsetsOfFinite
  <2>2. Bad \subseteq SUBSET S
    OBVIOUS
  <2> HIDE DEF Bad
  <2> QED BY <1>1, <2>1, <2>2, WFMin
<1>3. ASSUME NEW x \in T PROVE T \ {x} \in Good
  <2> SUFFICES ASSUME T \ {x} \notin Good PROVE FALSE
    OBVIOUS
  <2>1. T \ {x} \in Bad
    OBVIOUS
  <2>2. <<T \ {x}, T>> \in StrictSubsetOrdering(S)
    BY DEF StrictSubsetOrdering
  <2> QED BY <1>2, <2>1, <2>2
<1> QED BY <1>3

-----------------------------------------------------------------------------
(* The function that a fold defines *)

\* g folds the steps of h, of an element and the rest, over the subsets of S.
Folding(g, S, base, pick, h) ==
    g = [s \in SUBSET S |->
            IF s = {} THEN base ELSE h[<<pick[s], g[s \ {pick[s]}]>>]]

Picks(pick, S) == \A s \in SUBSET S : s # {} => pick[s] \in s
StepsIn(h, S, B) == \A x \in S : \A b \in B : h[<<x, b>>] \in B

\* Whatever is folded over two sets is the same on a set within both.
LEMMA FoldingUnique ==
    ASSUME NEW S, IsFiniteSet(S), NEW base, NEW pick, NEW h, Picks(pick, S),
           NEW T \in SUBSET S, NEW U \in SUBSET S, NEW f, NEW g,
           Folding(f, T, base, pick, h), Folding(g, U, base, pick, h)
    PROVE  \A s \in SUBSET S : s \subseteq T \intersect U => f[s] = g[s]
<1> DEFINE Good == {s \in SUBSET S : s \subseteq T \intersect U => f[s] = g[s]}
<1>1. ASSUME NEW s \in SUBSET S, \A x \in s : s \ {x} \in Good PROVE s \in Good
  <2> SUFFICES ASSUME s \subseteq T \intersect U PROVE f[s] = g[s]
    OBVIOUS
  <2>1. CASE s = {}
    BY <2>1 DEF Folding
  <2>2. CASE s # {}
    <3>1. pick[s] \in s
      BY <2>2 DEF Picks
    <3>2. f[s \ {pick[s]}] = g[s \ {pick[s]}]
      BY <1>1, <3>1
    <3> HIDE DEF Good
    <3>3. f[s] = h[<<pick[s], f[s \ {pick[s]}]>>]
      BY <2>2 DEF Folding
    <3>4. g[s] = h[<<pick[s], g[s \ {pick[s]}]>>]
      BY <2>2 DEF Folding
    <3> QED BY <3>2, <3>3, <3>4
  <2> QED BY <2>1, <2>2
<1>2. \A s \in SUBSET S : s \in Good
  <2> HIDE DEF Good
  <2> QED BY <1>1, SubsetInduction, Zenon
<1> QED BY <1>2

\* There is such a function.
LEMMA FoldingExists ==
    ASSUME NEW S, IsFiniteSet(S), NEW base, NEW pick, NEW h, Picks(pick, S)
    PROVE  \E g : Folding(g, S, base, pick, h)
<1> DEFINE Has(T) == \E g : Folding(g, T, base, pick, h)
           Of(T) == CHOOSE g : Folding(g, T, base, pick, h)
           Good == {T \in SUBSET S : Has(T)}
           Value(s) == IF s = {} THEN base
                       ELSE h[<<pick[s], Of(s \ {pick[s]})[s \ {pick[s]}]>>]
<1>1. ASSUME NEW T, Has(T) PROVE Folding(Of(T), T, base, pick, h)
  BY <1>1
<1>2. ASSUME NEW T \in SUBSET S, Has(T), NEW U, U \subseteq T PROVE Has(U)
  <2>1. PICK g : Folding(g, T, base, pick, h)
    BY <1>2
  <2> DEFINE f == [s \in SUBSET U |-> g[s]]
  <2>2. f = [s \in SUBSET U |->
               IF s = {} THEN base ELSE h[<<pick[s], f[s \ {pick[s]}]>>]]
    <3> SUFFICES ASSUME NEW s \in SUBSET U
                 PROVE  g[s] = IF s = {} THEN base ELSE h[<<pick[s], f[s \ {pick[s]}]>>]
      OBVIOUS
    <3>1. g[s] = IF s = {} THEN base ELSE h[<<pick[s], g[s \ {pick[s]}]>>]
      BY <1>2, <2>1 DEF Folding
    <3>2. f[s \ {pick[s]}] = g[s \ {pick[s]}]
      OBVIOUS
    <3> QED BY <3>1, <3>2
  <2>3. Folding(f, U, base, pick, h)
    BY <2>2 DEF Folding
  <2> QED BY <2>3
<1>3. ASSUME NEW T \in SUBSET S, \A x \in T : T \ {x} \in Good PROVE Has(T)
  <2> DEFINE g == [s \in SUBSET T |-> Value(s)]
  <2>1. ASSUME NEW s \in SUBSET T, s # {}
        PROVE  g[s \ {pick[s]}] = Of(s \ {pick[s]})[s \ {pick[s]}]
    <3> DEFINE u == s \ {pick[s]}
               v == u \ {pick[u]}
    <3>1. pick[s] \in s /\ u \in SUBSET S
      BY <2>1 DEF Picks
    <3>2. Has(u)
      <4>1. Has(T \ {pick[s]})
        BY <1>3, <2>1, <3>1
      <4>2. u \subseteq T \ {pick[s]} /\ T \ {pick[s]} \in SUBSET S
        OBVIOUS
      <4> HIDE DEF Has, u
      <4> QED BY <1>2, <4>1, <4>2
    <3>3. Folding(Of(u), u, base, pick, h)
      BY <1>1, <3>2
    <3> SUFFICES Value(u) = Of(u)[u]
      OBVIOUS
    <3>4. CASE u = {}
      BY <3>3, <3>4 DEF Folding
    <3>5. CASE u # {}
      <4>1. pick[u] \in u /\ v \in SUBSET u
        BY <3>1, <3>5 DEF Picks
      <4>2. Has(v)
        BY <1>2, <3>1, <3>2, <4>1
      <4>3. Folding(Of(v), v, base, pick, h)
        BY <1>1, <4>2
      <4>4. Of(u)[u] = h[<<pick[u], Of(u)[v]>>]
        BY <3>3, <3>5 DEF Folding
      <4>5. Value(u) = h[<<pick[u], Of(v)[v]>>]
        BY <3>5
      <4>6. v \in SUBSET S
        BY <3>1, <4>1
      <4> HIDE DEF Of, Value, Has, Good, g, u, v
      <4>7. Of(u)[v] = Of(v)[v]
        BY <3>1, <3>3, <4>1, <4>3, <4>6, FoldingUnique
      <4> QED BY <4>4, <4>5, <4>7
    <3> QED BY <3>4, <3>5
  <2>2. g = [s \in SUBSET T |->
               IF s = {} THEN base ELSE h[<<pick[s], g[s \ {pick[s]}]>>]]
    <3>1. ASSUME NEW s \in SUBSET T
          PROVE  Value(s) = IF s = {} THEN base ELSE h[<<pick[s], g[s \ {pick[s]}]>>]
      <4>1. CASE s = {}
        BY <4>1
      <4>2. CASE s # {}
        <5>1. Value(s) = h[<<pick[s], Of(s \ {pick[s]})[s \ {pick[s]}]>>]
          BY <4>2
        <5> HIDE DEF Of, Value, g
        <5> QED BY <2>1, <4>2, <5>1
      <4> QED BY <4>1, <4>2
    <3>2. g = [s \in SUBSET T |-> Value(s)]
      OBVIOUS
    <3> HIDE DEF g, Value
    <3> QED BY <3>1, <3>2
  <2>3. Folding(g, T, base, pick, h)
    BY <2>2 DEF Folding
  <2> QED BY <2>3
<1>4. \A T \in SUBSET S : T \in Good
  <2>1. ASSUME NEW T \in SUBSET S, \A x \in T : T \ {x} \in Good PROVE T \in Good
    BY <1>3, <2>1
  <2> HIDE DEF Good
  <2> QED BY <2>1, SubsetInduction, Zenon
<1> QED BY <1>4

\* Its values are of one type if its steps are.
LEMMA FoldingType ==
    ASSUME NEW S, IsFiniteSet(S), NEW base, NEW pick, NEW h, Picks(pick, S),
           NEW T \in SUBSET S, NEW g, Folding(g, T, base, pick, h),
           NEW B, base \in B, StepsIn(h, S, B)
    PROVE  \A s \in SUBSET T : g[s] \in B
<1> DEFINE Good == {s \in SUBSET S : s \subseteq T => g[s] \in B}
<1>1. ASSUME NEW s \in SUBSET S, \A x \in s : s \ {x} \in Good PROVE s \in Good
  <2> SUFFICES ASSUME s \subseteq T PROVE g[s] \in B
    OBVIOUS
  <2>1. CASE s = {}
    BY <2>1 DEF Folding
  <2>2. CASE s # {}
    <3>1. pick[s] \in s /\ pick[s] \in S
      BY <2>2 DEF Picks
    <3>2. g[s \ {pick[s]}] \in B
      BY <1>1, <3>1
    <3>3. g[s] = h[<<pick[s], g[s \ {pick[s]}]>>]
      BY <2>2 DEF Folding
    <3> QED BY <3>1, <3>2, <3>3 DEF StepsIn
  <2> QED BY <2>1, <2>2
<1>2. \A s \in SUBSET S : s \in Good
  <2> HIDE DEF Good
  <2> QED BY <1>1, SubsetInduction, Zenon
<1> QED BY <1>2

-----------------------------------------------------------------------------
(* Sums over a finite set *)

Total(F, S) == MapThenSumSet(LAMBDA x : F[x], S)

Summing(f, F, S) ==
    f = [s \in SUBSET S |->
            IF s = {} THEN 0
            ELSE F[CHOOSE x \in s : TRUE] + f[s \ {CHOOSE x \in s : TRUE}]]

IntOn(F, S) == \A x \in S : F[x] \in Int

LEMMA SummingType ==
    ASSUME NEW S, IsFiniteSet(S), NEW F, IntOn(F, S), NEW f, Summing(f, F, S)
    PROVE  f \in [SUBSET S -> Int]
<1> DEFINE Good == {s \in SUBSET S : f[s] \in Int}
<1>1. ASSUME NEW s \in SUBSET S, \A x \in s : s \ {x} \in Good PROVE s \in Good
  <2> DEFINE c == CHOOSE x \in s : TRUE
  <2>1. CASE s = {}
    BY <2>1 DEF Summing
  <2>2. CASE s # {}
    <3>1. c \in s /\ c \in S
      BY <2>2
    <3>2. f[s \ {c}] \in Int /\ F[c] \in Int
      BY <1>1, <3>1 DEF IntOn
    <3>3. f[s] = F[c] + f[s \ {c}]
      BY <2>2 DEF Summing
    <3> HIDE DEF c
    <3> QED BY <3>1, <3>2, <3>3
  <2> QED BY <2>1, <2>2
<1>2. \A s \in SUBSET S : s \in Good
  <2> HIDE DEF Good
  <2> QED BY <1>1, SubsetInduction, Zenon
<1>3. f = [s \in SUBSET S |-> f[s]]
  BY DEF Summing
<1> QED BY <1>2, <1>3

\* A sum is folded by steps that add.
AnyOf(S) == [s \in SUBSET S |-> CHOOSE x \in s : TRUE]
Adding(F, S) == [p \in S \X Int |-> F[p[1]] + p[2]]

LEMMA AddingType ==
    ASSUME NEW S, IsFiniteSet(S), NEW F, IntOn(F, S), NEW T \in SUBSET S, NEW f,
           Folding(f, T, 0, AnyOf(S), Adding(F, S))
    PROVE  f \in [SUBSET T -> Int]
<1> DEFINE h == Adding(F, S)
           pick == AnyOf(S)
           zero == 0
           B == Int
<1>1. StepsIn(h, S, B)
  BY DEF Adding, IntOn, StepsIn
<1>2. Picks(pick, S) /\ zero \in B /\ Folding(f, T, zero, pick, h)
  BY DEF Picks, AnyOf
<1> HIDE DEF h, pick, zero, B
<1>3. \A s \in SUBSET T : f[s] \in B
  BY <1>1, <1>2, FoldingType
<1>4. f = [s \in SUBSET T |-> f[s]]
  BY DEF Folding
<1> QED BY <1>3, <1>4 DEF B

LEMMA SummingFolds ==
    ASSUME NEW S, IsFiniteSet(S), NEW F, IntOn(F, S), NEW T \in SUBSET S, NEW f
    PROVE  /\ Summing(f, F, T) => Folding(f, T, 0, AnyOf(S), Adding(F, S))
           /\ Folding(f, T, 0, AnyOf(S), Adding(F, S)) => Summing(f, F, T)
           /\ Picks(AnyOf(S), S)
<1>1. Picks(AnyOf(S), S)
  BY DEF Picks, AnyOf
<1>2. IsFiniteSet(T) /\ IntOn(F, T)
  BY FS_Subset DEF IntOn
<1>3. ASSUME f \in [SUBSET T -> Int], NEW s \in SUBSET T, s # {}
      PROVE  /\ AnyOf(S)[s] = CHOOSE x \in s : TRUE
             /\ Adding(F, S)[<<AnyOf(S)[s], f[s \ {AnyOf(S)[s]}]>>]
                    = F[CHOOSE x \in s : TRUE] + f[s \ {CHOOSE x \in s : TRUE}]
  <2>1. AnyOf(S)[s] = (CHOOSE x \in s : TRUE) /\ AnyOf(S)[s] \in s
    BY <1>3 DEF AnyOf
  <2> DEFINE c == AnyOf(S)[s]
  <2>2. c \in S /\ f[s \ {c}] \in Int
    BY <1>3, <2>1
  <2> HIDE DEF c
  <2>3. Adding(F, S)[<<c, f[s \ {c}]>>] = F[c] + f[s \ {c}]
    BY <2>2 DEF Adding
  <2> QED BY <2>1, <2>3 DEF c
<1> DEFINE Sum(s) == IF s = {} THEN 0
                     ELSE F[CHOOSE x \in s : TRUE] + f[s \ {CHOOSE x \in s : TRUE}]
           Step(s) == IF s = {} THEN 0
                      ELSE Adding(F, S)[<<AnyOf(S)[s], f[s \ {AnyOf(S)[s]}]>>]
<1>4. ASSUME f \in [SUBSET T -> Int], NEW s \in SUBSET T PROVE Sum(s) = Step(s)
  BY <1>3, <1>4
<1>5. f \in [SUBSET T -> Int] => [s \in SUBSET T |-> Sum(s)] = [s \in SUBSET T |-> Step(s)]
  <2> HIDE DEF Sum, Step
  <2> QED BY <1>4
<1>6. Summing(f, F, T) => f \in [SUBSET T -> Int]
  BY <1>2, SummingType
<1>7. Folding(f, T, 0, AnyOf(S), Adding(F, S)) => f \in [SUBSET T -> Int]
  BY AddingType
<1>8. Summing(f, F, T) <=> f = [s \in SUBSET T |-> Sum(s)]
  BY DEF Summing
<1>9. Folding(f, T, 0, AnyOf(S), Adding(F, S)) <=> f = [s \in SUBSET T |-> Step(s)]
  BY DEF Folding
<1> HIDE DEF Sum, Step
<1> QED BY <1>1, <1>5, <1>6, <1>7, <1>8, <1>9

LEMMA TotalSums ==
    ASSUME NEW S, IsFiniteSet(S), NEW F, IntOn(F, S)
    PROVE  \E f : Summing(f, F, S) /\ \A T \in SUBSET S : Total(F, T) = f[T]
<1>1. ASSUME NEW T \in SUBSET S
      PROVE  \E f : Summing(f, F, T) /\ Total(F, T) = f[T]
  <2>1. \E f : Summing(f, F, T)
    <3>1. PICK f : Folding(f, T, 0, AnyOf(T), Adding(F, T))
      <4>1. IsFiniteSet(T) /\ IntOn(F, T) /\ Picks(AnyOf(T), T)
        BY FS_Subset DEF IntOn, Picks, AnyOf
      <4> QED BY <4>1, FoldingExists
    <3> QED BY <3>1, FS_Subset, SummingFolds DEF IntOn
  <2> DEFINE f == CHOOSE f : Summing(f, F, T)
  <2>2. Summing(f, F, T)
    BY <2>1
  <2>3. Total(F, T) = f[T]
    BY DEF Total, MapThenSumSet, MapThenFoldSet, Summing
  <2> HIDE DEF f
  <2> QED BY <2>2, <2>3
<1>2. PICK f : Summing(f, F, S)
  BY <1>1
<1>3. ASSUME NEW T \in SUBSET S PROVE Total(F, T) = f[T]
  <2>1. PICK g : Summing(g, F, T) /\ Total(F, T) = g[T]
    BY <1>1
  <2>2. /\ Folding(f, S, 0, AnyOf(S), Adding(F, S))
        /\ Folding(g, T, 0, AnyOf(S), Adding(F, S))
        /\ Picks(AnyOf(S), S)
    BY <1>2, <2>1, SummingFolds
  <2>3. S \in SUBSET S /\ T \subseteq S \intersect T
    OBVIOUS
  <2>4. f[T] = g[T]
    BY <2>2, <2>3, FoldingUnique
  <2> QED BY <2>1, <2>4
<1> QED BY <1>2, <1>3

\* The recursion of MapThenSumSet.
LEMMA TotalStep ==
    ASSUME NEW S, IsFiniteSet(S), NEW F, IntOn(F, S)
    PROVE  /\ Total(F, S) \in Int
           /\ S = {} => Total(F, S) = 0
           /\ S # {} => \E c \in S : Total(F, S) = F[c] + Total(F, S \ {c})
<1>1. PICK f : Summing(f, F, S) /\ \A T \in SUBSET S : Total(F, T) = f[T]
  BY TotalSums
<1>2. f \in [SUBSET S -> Int]
  BY <1>1, SummingType
<1>3. Total(F, S) = f[S] /\ f[S] \in Int
  BY <1>1, <1>2
<1>4. S = {} => f[S] = 0
  BY <1>1 DEF Summing
<1>5. ASSUME S # {} PROVE \E c \in S : Total(F, S) = F[c] + Total(F, S \ {c})
  <2> DEFINE c == CHOOSE x \in S : TRUE
  <2>1. c \in S
    BY <1>5
  <2>2. f[S] = F[c] + f[S \ {c}]
    BY <1>1, <1>5 DEF Summing
  <2>3. Total(F, S \ {c}) = f[S \ {c}]
    BY <1>1
  <2> HIDE DEF c
  <2> QED BY <1>3, <2>1, <2>2, <2>3
<1> QED BY <1>3, <1>4, <1>5

\* A sum is the same in whatever order: any element can be taken out.
LEMMA TotalRemove ==
    ASSUME NEW S, IsFiniteSet(S), NEW F, IntOn(F, S), NEW x \in S
    PROVE  Total(F, S) = F[x] + Total(F, S \ {x})
<1> DEFINE Good == {T \in SUBSET S : \A y \in T : Total(F, T) = F[y] + Total(F, T \ {y})}
<1>1. ASSUME NEW T \in SUBSET S, \A y \in T : T \ {y} \in Good PROVE T \in Good
  <2> SUFFICES ASSUME NEW y \in T PROVE Total(F, T) = F[y] + Total(F, T \ {y})
    OBVIOUS
  <2>1. IsFiniteSet(T) /\ IntOn(F, T)
    BY FS_Subset DEF IntOn
  <2>2. PICK c \in T : Total(F, T) = F[c] + Total(F, T \ {c})
    BY <2>1, TotalStep
  <2>3. CASE c = y
    BY <2>2, <2>3
  <2>4. CASE c # y
    <3> DEFINE rest == (T \ {c}) \ {y}
    <3>1. Total(F, T \ {c}) = F[y] + Total(F, rest)
      BY <1>1, <2>4
    <3>2. (T \ {y}) \ {c} = rest
      OBVIOUS
    <3>3. Total(F, T \ {y}) = F[c] + Total(F, rest)
      BY <1>1, <2>4, <3>2
    <3>4. IsFiniteSet(rest) /\ IntOn(F, rest)
      BY <2>1, FS_RemoveElement DEF IntOn
    <3> HIDE DEF rest
    <3>5. Total(F, rest) \in Int /\ F[c] \in Int /\ F[y] \in Int
      BY <2>1, <3>4, TotalStep DEF IntOn
    <3> QED BY <2>2, <3>1, <3>3, <3>5
  <2> QED BY <2>3, <2>4
<1>2. \A T \in SUBSET S : T \in Good
  <2> HIDE DEF Good
  <2> QED BY <1>1, SubsetInduction, Zenon
<1> QED BY <1>2

LEMMA TotalAdd ==
    ASSUME NEW S, IsFiniteSet(S), NEW F, IntOn(F, S), NEW x, x \notin S, F[x] \in Int
    PROVE  Total(F, S \union {x}) = F[x] + Total(F, S)
<1>1. IsFiniteSet(S \union {x}) /\ IntOn(F, S \union {x})
  BY FS_AddElement DEF IntOn
<1>2. (S \union {x}) \ {x} = S
  OBVIOUS
<1> QED BY <1>1, <1>2, TotalRemove

\* Sums of functions that are related on every element are related.
LEMMA TotalCompare ==
    ASSUME NEW S, IsFiniteSet(S), NEW F, IntOn(F, S), NEW G, IntOn(G, S)
    PROVE  /\ (\A x \in S : F[x] <= G[x]) => Total(F, S) <= Total(G, S)
           /\ (\A x \in S : F[x] = G[x]) => Total(F, S) = Total(G, S)
<1> DEFINE Good == {T \in SUBSET S :
                    /\ Total(F, T) \in Int /\ Total(G, T) \in Int
                    /\ (\A x \in T : F[x] <= G[x]) => Total(F, T) <= Total(G, T)}
<1>1. ASSUME NEW T \in SUBSET S, \A y \in T : T \ {y} \in Good PROVE T \in Good
  <2>1. IsFiniteSet(T) /\ IntOn(F, T) /\ IntOn(G, T)
    BY FS_Subset DEF IntOn
  <2>2. Total(F, T) \in Int /\ Total(G, T) \in Int
    BY <2>1, TotalStep
  <2>3. CASE T = {}
    BY <2>1, <2>2, <2>3, TotalStep
  <2>4. CASE T # {}
    <3>1. PICK y \in T : TRUE
      BY <2>4
    <3>2. Total(F, T) = F[y] + Total(F, T \ {y}) /\ Total(G, T) = G[y] + Total(G, T \ {y})
      BY <2>1, TotalRemove
    <3>3. /\ Total(F, T \ {y}) \in Int /\ Total(G, T \ {y}) \in Int
          /\ (\A x \in T : F[x] <= G[x]) => Total(F, T \ {y}) <= Total(G, T \ {y})
      BY <1>1
    <3>4. F[y] \in Int /\ G[y] \in Int
      BY <2>1 DEF IntOn
    <3> QED BY <2>2, <3>2, <3>3, <3>4
  <2> QED BY <2>3, <2>4
<1>2. \A T \in SUBSET S : T \in Good
  <2> HIDE DEF Good
  <2> QED BY <1>1, SubsetInduction, Zenon
<1>3. (\A x \in S : F[x] <= G[x]) => Total(F, S) <= Total(G, S)
  BY <1>2
<1> DEFINE Same == {T \in SUBSET S : (\A x \in T : F[x] = G[x]) => Total(F, T) = Total(G, T)}
<1>4. ASSUME NEW T \in SUBSET S, \A y \in T : T \ {y} \in Same PROVE T \in Same
  <2>1. IsFiniteSet(T) /\ IntOn(F, T) /\ IntOn(G, T)
    BY FS_Subset DEF IntOn
  <2>3. CASE T = {}
    BY <2>1, <2>3, TotalStep
  <2>4. CASE T # {}
    <3>1. PICK y \in T : TRUE
      BY <2>4
    <3>2. Total(F, T) = F[y] + Total(F, T \ {y}) /\ Total(G, T) = G[y] + Total(G, T \ {y})
      BY <2>1, TotalRemove
    <3>3. (\A x \in T : F[x] = G[x]) => Total(F, T \ {y}) = Total(G, T \ {y})
      BY <1>4
    <3> QED BY <3>2, <3>3
  <2> QED BY <2>3, <2>4
<1>5. \A T \in SUBSET S : T \in Same
  <2> HIDE DEF Same
  <2> QED BY <1>4, SubsetInduction, Zenon
<1> QED BY <1>3, <1>5

LEMMA TotalUnion ==
    ASSUME NEW S, IsFiniteSet(S), NEW F, NEW T, IsFiniteSet(T), S \intersect T = {},
           IntOn(F, S \union T)
    PROVE  Total(F, S \union T) = Total(F, S) + Total(F, T)
<1> DEFINE Good == {U \in SUBSET S : Total(F, U \union T) = Total(F, U) + Total(F, T)}
<1>1. ASSUME NEW U \in SUBSET S, \A y \in U : U \ {y} \in Good PROVE U \in Good
  <2>1. IsFiniteSet(U) /\ IntOn(F, U) /\ IntOn(F, T) /\ IsFiniteSet(U \union T)
    BY FS_Subset, FS_Union DEF IntOn
  <2>2. CASE U = {}
    <3>1. Total(F, U) = 0 /\ Total(F, T) \in Int
      BY <2>1, <2>2, TotalStep
    <3>2. Total(F, U \union T) = Total(F, T)
      <4>1. U \union T = T
        BY <2>2
      <4> QED BY <4>1
    <3>3. Total(F, U \union T) = Total(F, U) + Total(F, T)
      BY <3>1, <3>2
    <3> QED BY <3>3
  <2>3. CASE U # {}
    <3>1. PICK y \in U : TRUE
      BY <2>3
    <3> DEFINE rest == U \ {y}
    <3>2. (U \union T) \ {y} = rest \union T /\ IntOn(F, U \union T)
      BY <3>1 DEF IntOn
    <3>3. Total(F, U) = F[y] + Total(F, rest)
      BY <2>1, <3>1, TotalRemove
    <3>4. Total(F, U \union T) = F[y] + Total(F, rest \union T)
      BY <2>1, <3>1, <3>2, TotalRemove
    <3>5. Total(F, rest \union T) = Total(F, rest) + Total(F, T)
      BY <1>1, <3>1
    <3>6. IsFiniteSet(rest) /\ IntOn(F, rest)
      BY <2>1, FS_RemoveElement DEF IntOn
    <3> HIDE DEF rest
    <3>7. Total(F, rest) \in Int /\ Total(F, T) \in Int /\ F[y] \in Int
      BY <2>1, <3>1, <3>6, TotalStep DEF IntOn
    <3> QED BY <3>3, <3>4, <3>5, <3>7
  <2> QED BY <2>2, <2>3
<1>2. \A U \in SUBSET S : U \in Good
  <2> HIDE DEF Good
  <2> QED BY <1>1, SubsetInduction, Zenon
<1> QED BY <1>2

LEMMA TotalPlus ==
    ASSUME NEW S, IsFiniteSet(S), NEW F, IntOn(F, S), NEW G, IntOn(G, S), NEW H,
           \A x \in S : H[x] = F[x] + G[x]
    PROVE  Total(H, S) = Total(F, S) + Total(G, S)
<1> DEFINE Good == {T \in SUBSET S : Total(H, T) = Total(F, T) + Total(G, T)}
<1>1. ASSUME NEW T \in SUBSET S, \A y \in T : T \ {y} \in Good PROVE T \in Good
  <2>1. IsFiniteSet(T) /\ IntOn(F, T) /\ IntOn(G, T) /\ IntOn(H, T)
    BY FS_Subset DEF IntOn
  <2>2. CASE T = {}
    BY <2>1, <2>2, TotalStep
  <2>3. CASE T # {}
    <3>1. PICK y \in T : TRUE
      BY <2>3
    <3> DEFINE rest == T \ {y}
    <3>2. /\ Total(F, T) = F[y] + Total(F, rest)
          /\ Total(G, T) = G[y] + Total(G, rest)
          /\ Total(H, T) = H[y] + Total(H, rest)
      BY <2>1, <3>1, TotalRemove
    <3>3. Total(H, rest) = Total(F, rest) + Total(G, rest)
      BY <1>1, <3>1
    <3>4. IsFiniteSet(rest) /\ IntOn(F, rest) /\ IntOn(G, rest)
      BY <2>1, FS_RemoveElement DEF IntOn
    <3> HIDE DEF rest
    <3>5. Total(F, rest) \in Int /\ Total(G, rest) \in Int
      BY <3>4, TotalStep
    <3>6. H[y] = F[y] + G[y] /\ F[y] \in Int /\ G[y] \in Int
      BY <2>1, <3>1 DEF IntOn
    <3> QED BY <3>2, <3>3, <3>5, <3>6
  <2> QED BY <2>2, <2>3
<1>2. \A T \in SUBSET S : T \in Good
  <2> HIDE DEF Good
  <2> QED BY <1>1, SubsetInduction, Zenon
<1> QED BY <1>2

LEMMA TotalTimes ==
    ASSUME NEW S, IsFiniteSet(S), NEW F, IntOn(F, S), NEW k \in Int, NEW G,
           \A x \in S : G[x] = k * F[x]
    PROVE  Total(G, S) = k * Total(F, S)
<1> DEFINE Good == {T \in SUBSET S : Total(G, T) = k * Total(F, T)}
<1>1. ASSUME NEW T \in SUBSET S, \A y \in T : T \ {y} \in Good PROVE T \in Good
  <2>1. IsFiniteSet(T) /\ IntOn(F, T) /\ IntOn(G, T)
    BY FS_Subset DEF IntOn
  <2>2. CASE T = {}
    BY <2>1, <2>2, TotalStep
  <2>3. CASE T # {}
    <3>1. PICK y \in T : TRUE
      BY <2>3
    <3> DEFINE rest == T \ {y}
    <3>2. Total(F, T) = F[y] + Total(F, rest) /\ Total(G, T) = G[y] + Total(G, rest)
      BY <2>1, <3>1, TotalRemove
    <3>3. Total(G, rest) = k * Total(F, rest)
      BY <1>1, <3>1
    <3>4. IsFiniteSet(rest) /\ IntOn(F, rest)
      BY <2>1, FS_RemoveElement DEF IntOn
    <3> HIDE DEF rest
    <3>5. Total(F, rest) \in Int
      BY <3>4, TotalStep
    <3>6. G[y] = k * F[y] /\ F[y] \in Int
      BY <2>1, <3>1 DEF IntOn
    <3> QED BY <3>2, <3>3, <3>5, <3>6
  <2> QED BY <2>2, <2>3
<1>2. \A T \in SUBSET S : T \in Good
  <2> HIDE DEF Good
  <2> QED BY <1>1, SubsetInduction, Zenon
<1> QED BY <1>2

LEMMA TotalConstant ==
    ASSUME NEW S, IsFiniteSet(S), NEW k \in Int, NEW F, \A x \in S : F[x] = k
    PROVE  Total(F, S) = Cardinality(S) * k
<1> DEFINE Good == {T \in SUBSET S : Total(F, T) = Cardinality(T) * k}
<1>1. ASSUME NEW T \in SUBSET S, \A y \in T : T \ {y} \in Good PROVE T \in Good
  <2>1. IsFiniteSet(T) /\ IntOn(F, T)
    BY FS_Subset DEF IntOn
  <2>2. CASE T = {}
    BY <2>1, <2>2, TotalStep, FS_EmptySet
  <2>3. CASE T # {}
    <3>1. PICK y \in T : TRUE
      BY <2>3
    <3> DEFINE rest == T \ {y}
    <3>2. Total(F, T) = F[y] + Total(F, rest) /\ F[y] = k
      BY <2>1, <3>1, TotalRemove
    <3>3. Total(F, rest) = Cardinality(rest) * k
      BY <1>1, <3>1
    <3>4. Cardinality(rest) = Cardinality(T) - 1 /\ Cardinality(T) \in Nat
      BY <2>1, <3>1, FS_RemoveElement, FS_CardinalityType
    <3> HIDE DEF rest
    <3>5. (Cardinality(T) - 1) * k + k = Cardinality(T) * k
      BY <3>4
    <3> QED BY <3>2, <3>3, <3>4, <3>5
  <2> QED BY <2>2, <2>3
<1>2. \A T \in SUBSET S : T \in Good
  <2> HIDE DEF Good
  <2> QED BY <1>1, SubsetInduction, Zenon
<1> QED BY <1>2

\* The values of a one-to-one function are as many as its arguments.
LEMMA ImageCardinality ==
    ASSUME NEW S, IsFiniteSet(S), NEW f, \A x, y \in S : f[x] = f[y] => x = y
    PROVE  /\ IsFiniteSet({f[x] : x \in S})
           /\ Cardinality({f[x] : x \in S}) = Cardinality(S)
<1> DEFINE T == {f[x] : x \in S}
           g == [x \in S |-> f[x]]
<1>1. g \in Bijection(S, T)
  BY DEF Bijection, Injection, IsInjective, Surjection
<1>2. ExistsBijection(S, T)
  BY <1>1 DEF ExistsBijection
<1> HIDE DEF T
<1>3. IsFiniteSet(T) /\ Cardinality(T) = Cardinality(S)
  BY <1>2, FS_Bijection
<1> QED BY <1>3 DEF T

\* A sum over the values of a one-to-one function is one over its arguments.
LEMMA TotalImage ==
    ASSUME NEW S, IsFiniteSet(S), NEW f, \A x, y \in S : f[x] = f[y] => x = y,
           NEW F, NEW G, IntOn(G, S), \A x \in S : G[x] = F[f[x]]
    PROVE  Total(F, {f[x] : x \in S}) = Total(G, S)
<1> DEFINE Image(T) == {f[x] : x \in T}
           Good == {T \in SUBSET S : Total(F, Image(T)) = Total(G, T)}
<1>1. ASSUME NEW T \in SUBSET S, \A y \in T : T \ {y} \in Good PROVE T \in Good
  <2>1. IsFiniteSet(T) /\ IntOn(G, T) /\ IsFiniteSet(Image(T)) /\ IntOn(F, Image(T))
    <3>1. IsFiniteSet(T)
      BY FS_Subset
    <3>2. IsFiniteSet(Image(T))
      <4>1. \A x, y \in T : f[x] = f[y] => x = y
        OBVIOUS
      <4> QED BY <3>1, <4>1, ImageCardinality
    <3> QED BY <3>1, <3>2 DEF IntOn
  <2>2. CASE T = {}
    <3>1. Image(T) = {}
      BY <2>2
    <3> HIDE DEF Image
    <3> QED BY <2>1, <2>2, <3>1, TotalStep
  <2>3. CASE T # {}
    <3>1. PICK y \in T : TRUE
      BY <2>3
    <3>2. Image(T) \ {f[y]} = Image(T \ {y}) /\ f[y] \in Image(T)
      OBVIOUS
    <3>3. Total(F, Image(T \ {y})) = Total(G, T \ {y})
      BY <1>1
    <3>4. F[f[y]] = G[y]
      OBVIOUS
    <3> DEFINE U == Image(T)
               z == f[y]
    <3>0. IsFiniteSet(U) /\ IntOn(F, U) /\ z \in U /\ U \ {z} = Image(T \ {y})
      BY <2>1, <3>2
    <3> HIDE DEF Image, U, z
    <3>5. Total(F, U) = F[z] + Total(F, U \ {z})
      BY <3>0, TotalRemove
    <3>6. Total(G, T) = G[y] + Total(G, T \ {y})
      BY <2>1, TotalRemove
    <3> QED BY <3>0, <3>3, <3>4, <3>5, <3>6 DEF U, z
  <2> QED BY <2>2, <2>3
<1>2. \A T \in SUBSET S : T \in Good
  <2> HIDE DEF Good
  <2> QED BY <1>1, SubsetInduction, Zenon
<1>3. S \in Good
  <2> HIDE DEF Good
  <2> QED BY <1>2
<1> QED BY <1>3

\* One summand changes, and the sum by as much.
LEMMA TotalExcept ==
    ASSUME NEW S, IsFiniteSet(S), NEW F \in [S -> Int], NEW s \in S, NEW d \in Int,
           NEW G \in [S -> Int], G[s] = F[s] + d, \A x \in S \ {s} : G[x] = F[x]
    PROVE  Total(G, S) = Total(F, S) + d
<1>1. G \in [S -> Int] /\ G[s] = F[s] + d /\ \A x \in S \ {s} : F[x] = G[x]
  OBVIOUS
<1>2. /\ IntOn(F, S) /\ IntOn(G, S) /\ IntOn(F, S \ {s}) /\ IntOn(G, S \ {s})
      /\ IsFiniteSet(S \ {s})
  BY <1>1, FS_RemoveElement DEF IntOn
<1>3. Total(F, S) = F[s] + Total(F, S \ {s})
  BY <1>2, TotalRemove
<1>4. Total(G, S) = G[s] + Total(G, S \ {s})
  BY <1>2, TotalRemove
<1>5. Total(F, S \ {s}) = Total(G, S \ {s})
  <2> DEFINE T == S \ {s}
  <2>1. IsFiniteSet(T) /\ IntOn(F, T) /\ IntOn(G, T) /\ \A x \in T : F[x] = G[x]
    BY <1>1, <1>2
  <2> HIDE DEF T
  <2>2. Total(F, T) = Total(G, T)
    BY <2>1, TotalCompare
  <2> QED BY <2>2 DEF T
<1>6. Total(F, S \ {s}) \in Int
  BY <1>2, TotalStep
<1>7. Total(G, S) = Total(F, S) + d
  BY <1>1, <1>3, <1>4, <1>5, <1>6
<1> QED BY <1>7

\* The sum of a function over its domain.
LEMMA SumIsTotal == ASSUME NEW F PROVE SumFunction(F) = Total(F, DOMAIN F)
BY DEF SumFunction, SumFunctionOnSet, FoldFunctionOnSet, Total, MapThenSumSet

\* No summand is negative.
LEMMA TotalNat ==
    ASSUME NEW S, IsFiniteSet(S), NEW F, \A x \in S : F[x] \in Nat
    PROVE  Total(F, S) \in Nat
<1> DEFINE zero == [x \in S |-> 0]
<1>1. /\ IntOn(F, S) /\ IntOn(zero, S) /\ \A x \in S : zero[x] <= F[x]
      /\ \A x \in S : zero[x] = 0
  BY DEF IntOn
<1> HIDE DEF zero
<1>2. Total(zero, S) = Cardinality(S) * 0
  <2>1. 0 \in Int
    OBVIOUS
  <2> QED BY <1>1, <2>1, TotalConstant
<1>3. Total(zero, S) <= Total(F, S)
  BY <1>1, TotalCompare
<1>4. Total(F, S) \in Int
  BY <1>1, TotalStep
<1>5. Cardinality(S) * 0 = 0
  <2>1. Cardinality(S) \in Nat
    BY FS_CardinalityType
  <2> QED BY <2>1
<1> QED BY <1>2, <1>3, <1>4, <1>5

\* Two summands change, and nothing in all.
LEMMA TotalShift ==
    ASSUME NEW S, IsFiniteSet(S), NEW F, IntOn(F, S), NEW G, IntOn(G, S),
           NEW a \in S, NEW b \in S, a # b, F[a] + F[b] = G[a] + G[b],
           \A x \in S \ {a, b} : F[x] = G[x]
    PROVE  Total(F, S) = Total(G, S)
<1> DEFINE T == S \ {a}
           R == T \ {b}
<1>1. /\ IsFiniteSet(T) /\ IntOn(F, T) /\ IntOn(G, T) /\ b \in T
      /\ F[a] \in Int /\ G[a] \in Int /\ F[b] \in Int /\ G[b] \in Int
  BY FS_RemoveElement DEF IntOn
<1>2. /\ Total(F, S) = F[a] + Total(F, T) /\ Total(G, S) = G[a] + Total(G, T)
  BY TotalRemove
<1> HIDE DEF T
<1>3. /\ IsFiniteSet(R) /\ IntOn(F, R) /\ IntOn(G, R) /\ \A x \in R : F[x] = G[x]
  BY <1>1, FS_RemoveElement DEF IntOn, T
<1>4. /\ Total(F, T) = F[b] + Total(F, R) /\ Total(G, T) = G[b] + Total(G, R)
  BY <1>1, TotalRemove
<1> HIDE DEF R
<1>5. Total(F, R) = Total(G, R) /\ Total(F, R) \in Int
  BY <1>3, TotalCompare, TotalStep
<1> QED BY <1>1, <1>2, <1>4, <1>5

\* A sum over a set is the sum, over the values of key, of the sums over the
\* elements with that value.
Fiber(S, key, k) == {x \in S : key[x] = k}
LEMMA TotalFibers ==
    ASSUME NEW S, IsFiniteSet(S), NEW F, IntOn(F, S), NEW K, IsFiniteSet(K), NEW key,
           \A x \in S : key[x] \in K, NEW G, \A k \in K : G[k] = Total(F, Fiber(S, key, k))
    PROVE  IntOn(G, K) /\ Total(G, K) = Total(F, S)
<1> DEFINE Parts(T) == [k \in K |-> Total(F, Fiber(T, key, k))]
           Good == {T \in SUBSET S : Total(Parts(T), K) = Total(F, T)}
<1>1. ASSUME NEW T \in SUBSET S PROVE IsFiniteSet(T) /\ IntOn(F, T) /\ Parts(T) \in [K -> Int]
  <2>1. IsFiniteSet(T) /\ IntOn(F, T)
    BY FS_Subset DEF IntOn
  <2>2. ASSUME NEW k \in K PROVE Total(F, Fiber(T, key, k)) \in Int
    <3>1. IsFiniteSet(Fiber(T, key, k)) /\ IntOn(F, Fiber(T, key, k))
      BY <2>1, FS_Subset DEF IntOn, Fiber
    <3> QED BY <3>1, TotalStep
  <2> QED BY <2>1, <2>2
<1>2. ASSUME NEW T \in SUBSET S, \A y \in T : T \ {y} \in Good PROVE T \in Good
  <2>1. CASE T = {}
    <3>1. \A k \in K : Fiber(T, key, k) = {}
      BY <2>1 DEF Fiber
    <3>2. \A k \in K : Parts(T)[k] = 0
      BY <1>1, <2>1, <3>1, TotalStep
    <3> DEFINE parts == Parts(T)
    <3> HIDE DEF Parts
    <3>3. Total(parts, K) = Cardinality(K) * 0
      <4> HIDE DEF parts
      <4>1. 0 \in Int /\ \A k \in K : parts[k] = 0
        BY <3>2 DEF parts
      <4> QED BY <4>1, TotalConstant
    <3>4. Total(F, T) = 0
      BY <1>1, <2>1, TotalStep
    <3>5. Cardinality(K) * 0 = 0
      BY FS_CardinalityType
    <3> QED BY <3>3, <3>4, <3>5
  <2>2. CASE T # {}
    <3>1. PICK y \in T : TRUE
      BY <2>2
    <3> DEFINE U == T \ {y}
               old == Parts(U)
               new == Parts(T)
               s == key[y]
               d == F[y]
    <3>2. Total(old, K) = Total(F, U)
      BY <1>2
    <3>3. old \in [K -> Int] /\ new \in [K -> Int] /\ s \in K /\ d \in Int
      BY <1>1 DEF IntOn
    <3>4. \A k \in K \ {s} : new[k] = old[k]
      <4>1. \A k \in K \ {s} : Fiber(T, key, k) = Fiber(U, key, k)
        BY DEF Fiber
      <4> QED BY <4>1
    <3>5. new[s] = old[s] + d
      <4> DEFINE A == Fiber(T, key, s)
      <4>1. IsFiniteSet(A) /\ IntOn(F, A) /\ y \in A /\ A \ {y} = Fiber(U, key, s)
        BY <1>1, FS_Subset DEF IntOn, Fiber
      <4>2. new[s] = Total(F, A) /\ old[s] = Total(F, A \ {y})
        BY <3>3, <4>1
      <4> HIDE DEF A, new, old, s
      <4>3. Total(F, A) = F[y] + Total(F, A \ {y})
        BY <4>1, TotalRemove
      <4>4. old[s] \in Int
        BY <3>3
      <4> QED BY <3>3, <4>2, <4>3, <4>4
    <3>6. Total(F, T) = d + Total(F, U) /\ Total(F, U) \in Int
      BY <1>1, TotalRemove, TotalStep
    <3>7. Total(new, K) = Total(old, K) + d
      <4> HIDE DEF new, old, s, d
      <4> QED BY <3>3, <3>4, <3>5, TotalExcept
    <3> HIDE DEF old, U
    <3> QED BY <3>2, <3>3, <3>6, <3>7
  <2> QED BY <2>1, <2>2
<1>3. \A T \in SUBSET S : T \in Good
  <2> HIDE DEF Good
  <2> QED BY <1>2, SubsetInduction, Zenon
<1>4. Total(Parts(S), K) = Total(F, S)
  BY <1>3
<1>5. \A k \in K : G[k] = Parts(S)[k] /\ Parts(S)[k] \in Int
  BY <1>1
<1> DEFINE parts == Parts(S)
<1>6. IntOn(G, K) /\ IntOn(parts, K) /\ \A k \in K : G[k] = parts[k]
  BY <1>5 DEF IntOn
<1> HIDE DEF parts, Parts
<1>7. Total(G, K) = Total(parts, K)
  BY <1>6, TotalCompare
<1> QED BY <1>4, <1>6, <1>7 DEF parts

\* The absolute value of a sum is no more than the sum of the absolute values.
LEMMA TotalTriangle ==
    ASSUME NEW S, IsFiniteSet(S), NEW F, IntOn(F, S), NEW G, IntOn(G, S),
           \A x \in S : F[x] <= G[x] /\ -F[x] <= G[x]
    PROVE  /\ Total(F, S) \in Int /\ Total(G, S) \in Int
           /\ Total(F, S) <= Total(G, S) /\ -Total(F, S) <= Total(G, S)
<1> DEFINE N == [x \in S |-> (-1) * F[x]]
<1>1. IntOn(N, S) /\ \A x \in S : N[x] = (-1) * F[x] /\ N[x] <= G[x]
  <2>1. ASSUME NEW x \in S PROVE (-1) * F[x] = -F[x] /\ F[x] \in Int
    BY DEF IntOn
  <2> QED BY <2>1 DEF IntOn
<1> HIDE DEF N
<1>2. Total(F, S) \in Int /\ Total(G, S) \in Int
  BY TotalStep
<1>3. Total(F, S) <= Total(G, S) /\ Total(N, S) <= Total(G, S)
  BY <1>1, TotalCompare
<1>4. Total(N, S) = (-1) * Total(F, S)
  <2>1. -1 \in Int
    OBVIOUS
  <2> QED BY <1>1, <2>1, TotalTimes
<1> QED BY <1>2, <1>3, <1>4

\* The step of the next lemma: one number more.
LEMMA SquareStep ==
    ASSUME NEW n \in Nat, NEW a \in Int, NEW b \in Int, NEW x \in Int,
           a * a <= n * b, n = 0 => a = 0 /\ b = 0
    PROVE  (x + a) * (x + a) <= (n + 1) * (x * x + b)
<1> DEFINE u == 2 * (a * x)
           v == b + n * (x * x)
<1>1. u \in Int /\ v \in Int
  OBVIOUS
<1>2. u <= v
  <2>1. CASE n = 0
    BY <2>1
  <2>2. CASE n # 0
    <3> DEFINE y == n * x
    <3>1. (a - y) * (a - y) >= 0
      <4>1. a - y \in Int
        OBVIOUS
      <4>2. \A z \in Int : z * z >= 0
        OBVIOUS
      <4> HIDE DEF y
      <4> QED BY <4>1, <4>2
    <3>2. (a - y) * (a - y) = a * a - 2 * (a * y) + y * y
      <4>1. y \in Int
        OBVIOUS
      <4> HIDE DEF y
      <4> QED BY <4>1
    <3>3. n * u = 2 * (a * y) /\ n * v = n * b + y * y
      OBVIOUS
    <3>4. n * u <= n * v
      <4>1. a * a \in Int /\ n * b \in Int /\ y * y \in Int /\ a * y \in Int
            /\ n * u \in Int /\ n * v \in Int
        OBVIOUS
      <4> HIDE DEF y, u, v
      <4> QED BY <3>1, <3>2, <3>3, <4>1
    <3> HIDE DEF u, v, y
    <3>5. SUFFICES ASSUME u >= v + 1 PROVE FALSE
      BY <1>1
    <3>6. n * u >= n * v + n
      <4> DEFINE e == u - v - 1
      <4>1. e \in Nat /\ u = v + 1 + e
        BY <1>1, <3>5
      <4> HIDE DEF e
      <4>2. n * (v + 1 + e) = n * v + n + n * e /\ n * e >= 0
        BY <1>1, <4>1
      <4>3. n * v \in Int /\ n * e \in Int
        BY <1>1, <4>1
      <4> QED BY <4>1, <4>2, <4>3
    <3>7. n * v \in Int /\ n * u \in Int /\ n >= 1
      BY <1>1, <2>2
    <3> QED BY <3>4, <3>6, <3>7
  <2> QED BY <2>1, <2>2
<1>3. (x + a) * (x + a) = x * x + u + a * a
  OBVIOUS
<1>4. (n + 1) * (x * x + b) = x * x + v + n * b
  OBVIOUS
<1>5. x * x \in Int /\ a * a \in Int /\ n * b \in Int
  OBVIOUS
<1> HIDE DEF u, v
<1> QED BY <1>1, <1>2, <1>3, <1>4, <1>5

\* Cauchy and Schwarz: the square of a sum is no more than the sum of the squares
\* times their number.
LEMMA TotalSquare ==
    ASSUME NEW S, IsFiniteSet(S), NEW F, IntOn(F, S), NEW G,
           \A x \in S : G[x] = F[x] * F[x]
    PROVE  Total(F, S) * Total(F, S) <= Cardinality(S) * Total(G, S)
<1> DEFINE Good == {T \in SUBSET S :
                    Total(F, T) * Total(F, T) <= Cardinality(T) * Total(G, T)}
<1>1. ASSUME NEW T \in SUBSET S, \A y \in T : T \ {y} \in Good PROVE T \in Good
  <2>1. IsFiniteSet(T) /\ IntOn(F, T) /\ IntOn(G, T)
    BY FS_Subset DEF IntOn
  <2>2. CASE T = {}
    <3>1. Total(F, T) = 0 /\ Total(G, T) = 0 /\ Cardinality(T) = 0
      BY <2>1, <2>2, TotalStep, FS_EmptySet
    <3> QED BY <3>1
  <2>3. CASE T # {}
    <3>1. PICK y \in T : TRUE
      BY <2>3
    <3> DEFINE rest == T \ {y}
               n == Cardinality(rest)
               a == Total(F, rest)
               b == Total(G, rest)
               x == F[y]
    <3>2. IsFiniteSet(rest) /\ IntOn(F, rest) /\ IntOn(G, rest)
      BY <2>1, FS_RemoveElement DEF IntOn
    <3>3. a \in Int /\ b \in Int /\ x \in Int /\ n \in Nat /\ Cardinality(T) = n + 1
      BY <2>1, <3>1, <3>2, TotalStep, FS_RemoveElement, FS_CardinalityType DEF IntOn
    <3>4. n = 0 => a = 0 /\ b = 0
      BY <3>2, TotalStep, FS_EmptySet
    <3>5. a * a <= n * b
      BY <1>1, <3>1
    <3>6. Total(F, T) = x + a /\ Total(G, T) = x * x + b
      BY <2>1, <3>1, TotalRemove
    <3> HIDE DEF rest, n, a, b, x
    <3>7. (x + a) * (x + a) <= (n + 1) * (x * x + b)
      BY <3>3, <3>4, <3>5, SquareStep
    <3> QED BY <3>3, <3>6, <3>7
  <2> QED BY <2>2, <2>3
<1>2. \A T \in SUBSET S : T \in Good
  <2> HIDE DEF Good
  <2> QED BY <1>1, SubsetInduction, Zenon
<1> QED BY <1>2

\* Values for which the recursion of another MapThenSumSet holds are the sums.
LEMMA SummingTotal ==
    ASSUME NEW S, IsFiniteSet(S), NEW F, IntOn(F, S), NEW f, Summing(f, F, S)
    PROVE  Total(F, S) = f[S]
<1>1. PICK g : Summing(g, F, S) /\ Total(F, S) = g[S]
  BY TotalSums
<1>2. S \in SUBSET S /\ S \subseteq S \intersect S
  OBVIOUS
<1>3. /\ Folding(f, S, 0, AnyOf(S), Adding(F, S))
      /\ Folding(g, S, 0, AnyOf(S), Adding(F, S))
      /\ Picks(AnyOf(S), S)
  BY <1>1, <1>2, SummingFolds
<1>4. f[S] = g[S]
  BY <1>2, <1>3, FoldingUnique
<1> QED BY <1>1, <1>4

-----------------------------------------------------------------------------
(* Division of natural numbers *)

LEMMA Division ==
    ASSUME NEW a \in Nat, NEW b \in Nat \ {0}
    PROVE  a \div b \in Int /\ a % b \in 0 .. b - 1 /\ a = b * (a \div b) + (a % b)
<1>1. a \div b \in Int
  OBVIOUS
<1>2. a % b \in Nat
  OBVIOUS
<1>3. a % b < b
  OBVIOUS
<1>4. a = b * (a \div b) + (a % b)
  OBVIOUS
<1>5. a % b \in 0 .. b - 1
  BY <1>2, <1>3
<1> QED BY <1>1, <1>4, <1>5

LEMMA MultipleMod ==
    ASSUME NEW n \in Nat, NEW q \in Nat \ {0}
    PROVE  (q * n) % q = 0
<1> DEFINE k == (q * n) \div q
           r == (q * n) % q
<1>1. q * n \in Nat
  OBVIOUS
<1>2. k \in Int /\ r \in 0 .. q - 1 /\ q * n = q * k + r
  BY <1>1, Division
<1> SUFFICES r = 0
  OBVIOUS
<1> HIDE DEF k, r
<1>3. CASE n > k
  <2>1. q * (n - k) >= q
    BY <1>2, <1>3
  <2>2. q * (n - k) = q * n - q * k
    BY <1>2
  <2>3. q * n \in Int /\ q * k \in Int
    BY <1>2
  <2> QED BY <1>2, <2>1, <2>2, <2>3
<1>4. CASE n < k
  <2>1. q * (k - n) >= q
    BY <1>2, <1>4
  <2>2. q * (k - n) = q * k - q * n
    BY <1>2
  <2>3. q * n \in Int /\ q * k \in Int
    BY <1>2
  <2> QED BY <1>2, <2>1, <2>2, <2>3
<1>5. CASE n = k
  <2>1. q * k \in Int
    BY <1>2
  <2> QED BY <1>2, <1>5, <2>1
<1> QED BY <1>2, <1>3, <1>4, <1>5

-----------------------------------------------------------------------------
(* Loops over a list *)

LEMMA MaxExists ==
    ASSUME NEW S, IsFiniteSet(S), S \subseteq Int, S # {}
    PROVE  Max(S) \in S /\ \A x \in S : x <= Max(S)
<1> DEFINE Good == {T \in SUBSET S : T # {} => \E m \in T : \A x \in T : x <= m}
<1>1. ASSUME NEW T \in SUBSET S, \A y \in T : T \ {y} \in Good PROVE T \in Good
  <2> SUFFICES ASSUME T # {} PROVE \E m \in T : \A x \in T : x <= m
    OBVIOUS
  <2>1. PICK y \in T : TRUE
    OBVIOUS
  <2>2. CASE T \ {y} = {}
    BY <2>1, <2>2
  <2>3. CASE T \ {y} # {}
    <3>1. PICK m \in T \ {y} : \A x \in T \ {y} : x <= m
      BY <1>1, <2>1, <2>3
    <3>2. CASE y <= m
      BY <2>1, <3>1, <3>2
    <3>3. CASE ~(y <= m)
      BY <2>1, <3>1, <3>3
    <3> QED BY <3>2, <3>3
  <2> QED BY <2>2, <2>3
<1>2. \A T \in SUBSET S : T \in Good
  <2> HIDE DEF Good
  <2> QED BY <1>1, SubsetInduction, Zenon
<1>3. \E m \in S : \A x \in S : m >= x
  BY <1>2
<1>4. Max(S) \in S /\ \A x \in S : Max(S) >= x
  BY <1>3 DEF Max
<1> QED BY <1>4

\* A finite set of numbers can be listed in ascending order.
Ascending(list) == \A i, j \in DOMAIN list : i < j => list[i] < list[j]
LEMMA AscendingExists ==
    ASSUME NEW S, IsFiniteSet(S), S \subseteq Int
    PROVE  \E list \in Bijection(1 .. Cardinality(S), S) : Ascending(list)
<1> DEFINE Good == {T \in SUBSET S :
                    \E list \in Bijection(1 .. Cardinality(T), T) : Ascending(list)}
<1>1. ASSUME NEW T \in SUBSET S, \A y \in T : T \ {y} \in Good PROVE T \in Good
  <2>1. IsFiniteSet(T) /\ T \subseteq Int
    BY FS_Subset
  <2>2. CASE T = {}
    <3> DEFINE none == [i \in 1 .. 0 |-> i]
    <3>1. Cardinality(T) = 0
      BY <2>2, FS_EmptySet
    <3>2. none \in Bijection(1 .. 0, T)
      BY <2>2 DEF Bijection, Injection, Surjection, IsInjective
    <3>3. Ascending(none)
      BY DEF Ascending
    <3> QED BY <3>1, <3>2, <3>3
  <2>3. CASE T # {}
    <3>1. PICK x \in T : \A y \in T : y <= x
      BY <2>1, <2>3, MaxExists
    <3> DEFINE rest == T \ {x}
               n == Cardinality(rest)
    <3>2. n \in Nat /\ Cardinality(T) = n + 1
      <4>1. IsFiniteSet(rest) /\ n = Cardinality(T) - 1 /\ Cardinality(T) \in Nat
        BY <2>1, <3>1, FS_RemoveElement, FS_CardinalityType
      <4>2. n \in Nat
        BY <4>1, FS_CardinalityType
      <4> QED BY <4>1, <4>2
    <3>3. PICK list \in Bijection(1 .. n, rest) : Ascending(list)
      BY <1>1, <3>1
    <3> DEFINE longer == [i \in 1 .. n + 1 |-> IF i <= n THEN list[i] ELSE x]
    <3> HIDE DEF n
    <3>4. /\ list \in [1 .. n -> rest]
          /\ \A i, j \in 1 .. n : list[i] = list[j] => i = j
          /\ \A y \in rest : \E i \in 1 .. n : list[i] = y
      BY <3>3 DEF Bijection, Injection, Surjection, IsInjective
    <3>5. ASSUME NEW i \in 1 .. n PROVE list[i] \in T /\ list[i] < x
      <4>1. list[i] \in rest
        BY <3>4
      <4>2. list[i] \in T /\ list[i] # x /\ list[i] <= x
        BY <3>1, <4>1
      <4> HIDE DEF rest
      <4>3. list[i] \in Int /\ x \in Int
        BY <2>1, <3>1, <4>2
      <4> QED BY <4>2, <4>3
    <3>6. \A i \in 1 .. n + 1 : (i <= n /\ i \in 1 .. n) \/ i = n + 1
      BY <3>2
    <3>7. longer \in [1 .. n + 1 -> T]
      BY <3>1, <3>5, <3>6
    <3>8. \A i, j \in 1 .. n + 1 : longer[i] = longer[j] => i = j
      BY <2>1, <3>1, <3>2, <3>4, <3>5
    <3>9. \A y \in T : \E i \in 1 .. n + 1 : longer[i] = y
      <4> TAKE y \in T
      <4>1. CASE y = x
        <5>1. longer[n + 1] = x /\ n + 1 \in 1 .. n + 1
          BY <3>2
        <5> QED BY <4>1, <5>1
      <4>2. CASE y # x
        <5>1. PICK i \in 1 .. n : list[i] = y
          BY <3>4, <4>2
        <5>2. i \in 1 .. n + 1 /\ longer[i] = y
          BY <3>2, <5>1
        <5> QED BY <5>2
      <4> QED BY <4>1, <4>2
    <3>10. longer \in Bijection(1 .. n + 1, T)
      BY <3>7, <3>8, <3>9 DEF Bijection, Injection, Surjection, IsInjective
    <3>11. Ascending(longer)
      <4> SUFFICES ASSUME NEW i \in 1 .. n + 1, NEW j \in 1 .. n + 1, i < j
                   PROVE  longer[i] < longer[j]
        BY DEF Ascending
      <4>1. i \in 1 .. n /\ longer[i] = list[i]
        BY <3>2
      <4>2. CASE j <= n
        <5>1. j \in 1 .. n /\ longer[j] = list[j] /\ DOMAIN list = 1 .. n
          BY <3>2, <3>4, <4>2
        <5> QED BY <3>3, <4>1, <5>1 DEF Ascending
      <4>3. CASE ~(j <= n)
        BY <3>5, <4>1, <4>3
      <4> QED BY <4>2, <4>3
    <3> HIDE DEF longer
    <3> QED BY <3>2, <3>10, <3>11
  <2> QED BY <2>2, <2>3
<1>2. \A T \in SUBSET S : T \in Good
  <2> HIDE DEF Good
  <2> QED BY <1>1, SubsetInduction, Zenon
<1> QED BY <1>2

\* What FoldLeft has after each element of a list of n, if step h adds one.
LastOf(n) == [s \in SUBSET (1 .. n) |-> Max(s)]

LEMMA LoopExists ==
    ASSUME NEW n \in Nat, NEW B, NEW base \in B, NEW h, StepsIn(h, 1 .. n, B)
    PROVE  \E f : /\ f = [s \in SUBSET (1 .. n) |->
                            IF s = {} THEN base ELSE h[<<Max(s), f[s \ {Max(s)}]>>]]
                  /\ \A s \in SUBSET (1 .. n) : f[s] \in B
                  /\ \A s \in SUBSET (1 .. n) : s # {} => Max(s) \in s
<1> DEFINE S == 1 .. n
           pick == LastOf(n)
<1>1. IsFiniteSet(S) /\ S \in SUBSET S
  BY FS_Interval
<1>2. \A s \in SUBSET S : s # {} => Max(s) \in s
  <2> SUFFICES ASSUME NEW s \in SUBSET S, s # {} PROVE Max(s) \in s
    OBVIOUS
  <2>1. s \subseteq Int
    OBVIOUS
  <2>2. IsFiniteSet(s)
    <3> HIDE DEF S
    <3> QED BY <1>1, FS_Subset
  <2> QED BY <2>1, <2>2, MaxExists
<1>3. Picks(pick, S)
  BY <1>2 DEF Picks, LastOf
<1>4. PICK f : Folding(f, S, base, pick, h)
  <2> HIDE DEF S, pick
  <2> QED BY <1>1, <1>3, FoldingExists
<1>5. \A s \in SUBSET S : f[s] \in B
  <2>1. StepsIn(h, S, B)
    OBVIOUS
  <2> HIDE DEF S, pick
  <2> QED BY <1>1, <1>3, <1>4, <2>1, FoldingType
<1>6. f = [s \in SUBSET S |-> IF s = {} THEN base ELSE h[<<Max(s), f[s \ {Max(s)}]>>]]
  BY <1>4 DEF Folding, LastOf
<1> QED BY <1>2, <1>5, <1>6

\* The last number of a list's indices, and the indices before it.
LEMMA LastIndex ==
    ASSUME NEW n \in Nat, NEW k \in 1 .. n
    PROVE  /\ Max(1 .. k) = k /\ (1 .. k) \ {k} = 1 .. (k - 1)
           /\ 1 .. k # {} /\ 1 .. k \in SUBSET (1 .. n)
<1>1. IsFiniteSet(1 .. k) /\ 1 .. k \subseteq Int /\ k \in 1 .. k
  BY FS_Interval
<1>2. Max(1 .. k) \in 1 .. k /\ \A x \in 1 .. k : x <= Max(1 .. k)
  <2> DEFINE S == 1 .. k
  <2>1. IsFiniteSet(S) /\ S \subseteq Int /\ S # {}
    BY <1>1
  <2> HIDE DEF S
  <2>2. Max(S) \in S /\ \A x \in S : x <= Max(S)
    BY <2>1, MaxExists
  <2> QED BY <2>2 DEF S
<1>3. Max(1 .. k) = k
  <2> DEFINE m == Max(1 .. k)
  <2>1. m \in 1 .. k /\ k <= m
    BY <1>1, <1>2
  <2> HIDE DEF m
  <2>2. m = k
    BY <2>1
  <2> QED BY <2>2 DEF m
<1> QED BY <1>1, <1>3

\* Induction over the first numbers.
LEMMA CountInduction ==
    ASSUME NEW n \in Nat, NEW Good, 0 \in Good,
           \A k \in 1 .. n : k - 1 \in Good => k \in Good
    PROVE  \A k \in 0 .. n : k \in Good
<1> DEFINE S == 1 .. n
           Sets == {T \in SUBSET S : \A k \in 0 .. n : T = 1 .. k => k \in Good}
<1>1. IsFiniteSet(S)
  BY FS_Interval
<1>2. ASSUME NEW T \in SUBSET S, \A x \in T : T \ {x} \in Sets PROVE T \in Sets
  <2> SUFFICES ASSUME NEW k \in 0 .. n, T = 1 .. k PROVE k \in Good
    OBVIOUS
  <2>1. CASE k = 0
    BY <2>1
  <2>2. CASE k # 0
    <3>1. k \in 1 .. n /\ k - 1 \in 0 .. n /\ k \in T
      BY <2>2
    <3>2. T \ {k} = 1 .. (k - 1)
      BY <3>1, LastIndex
    <3>3. k - 1 \in Good
      BY <1>2, <3>1, <3>2
    <3> QED BY <3>1, <3>3
  <2> QED BY <2>1, <2>2
<1>3. \A T \in SUBSET S : T \in Sets
  <2> HIDE DEF S, Sets
  <2> QED BY <1>1, <1>2, SubsetInduction, Zenon
<1>4. ASSUME NEW k \in 0 .. n PROVE k \in Good
  <2>1. 1 .. k \in SUBSET S
    OBVIOUS
  <2>2. 1 .. k \in Sets
    <3> HIDE DEF S, Sets
    <3> QED BY <1>3, <2>1
  <2> QED BY <2>2
<1> QED BY <1>4

\* The function that a recursion over the first numbers defines.
LEMMA RecursionExists ==
    ASSUME NEW n \in Nat, NEW B, NEW base \in B, NEW h, StepsIn(h, 1 .. n, B)
    PROVE  \E v : /\ v \in [0 .. n -> B] /\ v[0] = base
                  /\ \A k \in 1 .. n : v[k] = h[<<k, v[k - 1]>>]
<1>1. PICK f : /\ f = [s \in SUBSET (1 .. n) |->
                          IF s = {} THEN base ELSE h[<<Max(s), f[s \ {Max(s)}]>>]]
               /\ \A s \in SUBSET (1 .. n) : f[s] \in B
               /\ \A s \in SUBSET (1 .. n) : s # {} => Max(s) \in s
  BY LoopExists
<1> DEFINE v == [k \in 0 .. n |-> f[1 .. k]]
<1>2. v \in [0 .. n -> B]
  <2>1. \A k \in 0 .. n : 1 .. k \in SUBSET (1 .. n)
    OBVIOUS
  <2> QED BY <1>1, <2>1
<1>3. v[0] = base
  <2>1. 1 .. 0 = {} /\ 1 .. 0 \in SUBSET (1 .. n) /\ v[0] = f[1 .. 0]
    OBVIOUS
  <2> HIDE DEF v
  <2> QED BY <1>1, <2>1
<1>4. ASSUME NEW k \in 1 .. n PROVE v[k] = h[<<k, v[k - 1]>>]
  <2>1. k \in 0 .. n /\ k - 1 \in 0 .. n
    OBVIOUS
  <2>2. v[k] = f[1 .. k] /\ v[k - 1] = f[1 .. (k - 1)]
    BY <2>1
  <2>3. /\ Max(1 .. k) = k /\ (1 .. k) \ {k} = 1 .. (k - 1)
        /\ 1 .. k # {} /\ 1 .. k \in SUBSET (1 .. n)
    BY LastIndex
  <2> HIDE DEF v
  <2>4. f[1 .. k] = h[<<k, f[1 .. (k - 1)]>>]
    BY <1>1, <2>3
  <2> QED BY <2>2, <2>4
<1> HIDE DEF v
<1> QED BY <1>2, <1>3, <1>4

=============================================================================
