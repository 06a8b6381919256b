----------------------------- MODULE SumProofs -----------------------------
(***************************************************************************)
(* Facts about SumFunctionOnSet of the community module Functions.  It is  *)
(* a fold, that is a recursive function over the subsets of a set, which   *)
(* the provers know nothing of: the lemmas here show that the function     *)
(* exists, and what it computes whatever order the fold takes.  Each       *)
(* induction is by a least subset that would be a counterexample.          *)
(***************************************************************************)
EXTENDS Functions, Integers, FiniteSets, FiniteSetTheorems, TLAPS

\* A set of subsets of a finite set has a smallest member.
LEMMA LeastSubset ==
  ASSUME NEW S, IsFiniteSet(S), NEW Bad, Bad \subseteq SUBSET S, Bad # {}
  PROVE  \E T \in Bad : \A U \in Bad : U \subseteq T => U = T
  <1>1. IsWellFoundedOn(StrictSubsetOrdering(S), FiniteSubsetsOf(S)) /\ FiniteSubsetsOf(S) = SUBSET S
    BY FS_StrictSubsetOrderingWellFounded, FS_FiniteSubsetsOfFinite
  <1>2. PICK T \in Bad : \A U \in Bad : ~(<<U, T>> \in StrictSubsetOrdering(S))
    BY <1>1, WFMin
  <1> QED
    BY <1>2 DEF StrictSubsetOrdering

Pick(s) == CHOOSE x \in s : TRUE

SumStep(g, f, s) == IF s = {} THEN 0 ELSE f[Pick(s)] + g[s \ {Pick(s)}]

\* g tabulates the sums of f over the subsets of S.
Tabulates(g, f, S) == g = [s \in SUBSET S |-> SumStep(g, f, s)]

\* The fold is the value of a table.
LEMMA SumIsOfTable ==
  ASSUME NEW S, NEW f
  PROVE  SumFunctionOnSet(f, S) = (CHOOSE g : Tabulates(g, f, S))[S]
  BY DEF SumFunctionOnSet, FoldFunctionOnSet, MapThenFoldSet, Tabulates, SumStep, Pick

\* A set of numbers up to a bound has a least one.
LEMMA LeastNumber ==
  ASSUME NEW N \in Nat, NEW Bad \in SUBSET (0..N), Bad # {}
  PROVE  \E n \in Bad : \A m \in Bad : n <= m
  <1> DEFINE Upto == 0..N
             Below == {r \in SUBSET Upto : \E n \in Bad : r = 0..n}
  <1>1. IsFiniteSet(Upto) /\ \A n \in Bad : 0..n \in Below
    BY FS_Interval
  <1>2. PICK T \in Below : \A U \in Below : U \subseteq T => U = T
    <2>1. Below \subseteq SUBSET Upto /\ Below # {}
      BY <1>1
    <2> HIDE DEF Below, Upto
    <2> QED
      BY <1>1, <2>1, LeastSubset
  <1>3. PICK n \in Bad : T = 0..n
    OBVIOUS
  <1>4. ASSUME NEW m \in Bad, ~(n <= m) PROVE FALSE
    <2>1. 0..m \in Below /\ 0..m \subseteq 0..n /\ n \in 0..n /\ n \notin 0..m
      BY <1>1, <1>4
    <2> QED
      BY <1>2, <1>3, <2>1
  <1> QED
    BY <1>4

\* A partial table, right for the subsets of at most n elements.
TabulatesUpTo(g, f, S, n) ==
    \A s \in SUBSET S : Cardinality(s) <= n => g[s] = SumStep(g, f, s)

\* The table exists.
LEMMA TableExists ==
  ASSUME NEW S, IsFiniteSet(S), NEW f
  PROVE  \E g : Tabulates(g, f, S)
  <1> DEFINE N == Cardinality(S)
             Bad == {n \in 0..N : ~\E g : TabulatesUpTo(g, f, S, n)}
  <1>1. \A s \in SUBSET S : IsFiniteSet(s) /\ Cardinality(s) \in Nat /\ Cardinality(s) <= N
    BY FS_Subset, FS_CardinalityType
  <1>2. N \in Nat
    BY FS_CardinalityType
  <1> HIDE DEF N
  <1>3. Bad = {}
    <2> SUFFICES ASSUME Bad # {} PROVE FALSE
      OBVIOUS
    <2>1. PICK n \in Bad : \A m \in Bad : n <= m
      <3> HIDE DEF Bad
      <3>1. Bad \in SUBSET (0..N)
        BY DEF Bad
      <3> QED
        BY <1>2, <3>1, LeastNumber
    <2>2. CASE n = 0
      <3> DEFINE g == [s \in SUBSET S |-> 0]
      <3>1. \A s \in SUBSET S : Cardinality(s) <= 0 => s = {}
        BY <1>1, FS_EmptySet
      <3>2. TabulatesUpTo(g, f, S, n)
        BY <2>2, <3>1 DEF TabulatesUpTo, SumStep
      <3> HIDE DEF g
      <3> QED
        BY <3>2
    <2>3. CASE n # 0
      <3>1. n - 1 \in 0..N /\ n \in Nat
        BY <1>2, <2>3
      <3>2. n - 1 \notin Bad
        BY <2>1, <3>1
      <3>3. PICK g : TabulatesUpTo(g, f, S, n - 1)
        BY <3>1, <3>2
      <3> DEFINE next == [s \in SUBSET S |-> SumStep(g, f, s)]
      <3>4. ASSUME NEW s \in SUBSET S, Cardinality(s) <= n, s # {}
            PROVE  next[s \ {Pick(s)}] = g[s \ {Pick(s)}]
        <4>1. Pick(s) \in s
          BY <3>4 DEF Pick
        <4>2. s \ {Pick(s)} \in SUBSET S
          OBVIOUS
        <4>3. Cardinality(s \ {Pick(s)}) = Cardinality(s) - 1
          BY <1>1, <4>1, FS_RemoveElement
        <4>4. Cardinality(s \ {Pick(s)}) <= n - 1
          BY <1>1, <3>1, <3>4, <4>3
        <4>5. g[s \ {Pick(s)}] = SumStep(g, f, s \ {Pick(s)})
          BY <3>3, <4>2, <4>4 DEF TabulatesUpTo
        <4> QED
          BY <4>2, <4>5
      <3>5. \A s \in SUBSET S : next[s] = SumStep(g, f, s)
        OBVIOUS
      <3> HIDE DEF next
      <3>6. TabulatesUpTo(next, f, S, n)
        BY <3>4, <3>5 DEF TabulatesUpTo, SumStep
      <3> QED
        BY <3>6
    <2> QED
      BY <2>2, <2>3
  <1>4. PICK g : TabulatesUpTo(g, f, S, N)
    BY <1>2, <1>3
  <1> DEFINE table == [s \in SUBSET S |-> g[s]]
  <1>5. \A s \in SUBSET S : table[s] = SumStep(g, f, s)
    BY <1>1, <1>4 DEF TabulatesUpTo
  <1>6. \A s \in SUBSET S : SumStep(table, f, s) = SumStep(g, f, s)
    BY DEF SumStep
  <1>7. Tabulates(table, f, S)
    <2>1. table = [s \in SUBSET S |-> SumStep(table, f, s)]
      <3>1. \A s \in SUBSET S : table[s] = SumStep(table, f, s)
        BY <1>5, <1>6
      <3>2. table = [s \in SUBSET S |-> table[s]]
        OBVIOUS
      <3> HIDE DEF table
      <3> QED
        BY <3>1, <3>2
    <2> QED
      BY <2>1 DEF Tabulates
  <1> QED
    BY <1>7

\* Two tables agree where both are defined.
LEMMA TablesAgree ==
  ASSUME NEW S, IsFiniteSet(S), NEW f, NEW T \in SUBSET S,
         NEW g, Tabulates(g, f, S), NEW h, Tabulates(h, f, T)
  PROVE  \A s \in SUBSET T : g[s] = h[s]
  <1> DEFINE Bad == {s \in SUBSET T : g[s] # h[s]}
  <1>1. /\ \A s \in SUBSET T : g[s] = SumStep(g, f, s) /\ h[s] = SumStep(h, f, s)
        /\ IsFiniteSet(T)
    BY FS_Subset DEF Tabulates
  <1>2. SUFFICES ASSUME Bad # {} PROVE FALSE
    OBVIOUS
  <1>3. PICK s \in Bad : \A u \in Bad : u \subseteq s => u = s
    <2>1. Bad \subseteq SUBSET T
      OBVIOUS
    <2> HIDE DEF Bad
    <2> QED
      BY <1>1, <1>2, <2>1, LeastSubset
  <1>4. s # {}
    BY <1>1 DEF SumStep
  <1>5. Pick(s) \in s /\ s \ {Pick(s)} \in SUBSET T /\ s \ {Pick(s)} # s
    BY <1>4 DEF Pick
  <1>6. g[s \ {Pick(s)}] = h[s \ {Pick(s)}]
    BY <1>3, <1>5
  <1>7. g[s] = h[s]
    BY <1>1, <1>3, <1>4, <1>6 DEF SumStep
  <1> QED
    BY <1>7

\* What the fold computes, as a recursive equation.
LEMMA SumUnfolds ==
  ASSUME NEW S, IsFiniteSet(S), NEW f
  PROVE  SumFunctionOnSet(f, S) =
            IF S = {} THEN 0 ELSE f[Pick(S)] + SumFunctionOnSet(f, S \ {Pick(S)})
  <1> DEFINE T == S \ {Pick(S)}
             g == CHOOSE x : Tabulates(x, f, S)
             h == CHOOSE x : Tabulates(x, f, T)
  <1>1. T \in SUBSET S /\ IsFiniteSet(T)
    BY FS_Subset
  <1>2. Tabulates(g, f, S) /\ Tabulates(h, f, T)
    BY <1>1, TableExists
  <1>3. SumFunctionOnSet(f, S) = g[S] /\ SumFunctionOnSet(f, T) = h[T]
    BY SumIsOfTable
  <1> HIDE DEF g, h
  <1>4. g[T] = h[T]
    BY <1>1, <1>2, TablesAgree
  <1>5. g[S] = SumStep(g, f, S)
    BY <1>2 DEF Tabulates
  <1> QED
    BY <1>3, <1>4, <1>5 DEF SumStep

\* A sum of integers is one, and of naturals a natural.
LEMMA SumType ==
  ASSUME NEW S, IsFiniteSet(S), NEW f, \A x \in S : f[x] \in Int
  PROVE  /\ SumFunctionOnSet(f, S) \in Int
         /\ (\A x \in S : f[x] \in Nat) => SumFunctionOnSet(f, S) \in Nat
  <1> DEFINE Good(s) == /\ SumFunctionOnSet(f, s) \in Int
                        /\ (\A x \in S : f[x] \in Nat) => SumFunctionOnSet(f, s) \in Nat
             Bad == {s \in SUBSET S : ~Good(s)}
  <1>1. SUFFICES ASSUME Bad # {} PROVE FALSE
    OBVIOUS
  <1>2. PICK s \in Bad : \A u \in Bad : u \subseteq s => u = s
    <2>1. Bad \subseteq SUBSET S
      OBVIOUS
    <2> HIDE DEF Bad
    <2> QED
      BY <1>1, <2>1, LeastSubset
  <1>3. s \in SUBSET S /\ IsFiniteSet(s) /\ ~Good(s)
    BY FS_Subset
  <1>4. SumFunctionOnSet(f, s) =
           IF s = {} THEN 0 ELSE f[Pick(s)] + SumFunctionOnSet(f, s \ {Pick(s)})
    BY <1>3, SumUnfolds
  <1>5. s # {}
    BY <1>3, <1>4
  <1>6. Pick(s) \in s
    BY <1>5 DEF Pick
  <1>7. Good(s \ {Pick(s)})
    <2>1. s \ {Pick(s)} \in SUBSET S /\ s \ {Pick(s)} \subseteq s /\ s \ {Pick(s)} # s
      BY <1>3, <1>6
    <2> HIDE DEF Good
    <2> QED
      BY <1>2, <2>1
  <1>8. f[Pick(s)] \in Int /\ Pick(s) \in S
    BY <1>3, <1>6
  <1> QED
    BY <1>3, <1>4, <1>5, <1>7, <1>8

\* Any member may be the one that is added last.
LEMMA SumRemove ==
  ASSUME NEW S, IsFiniteSet(S), NEW f, \A x \in S : f[x] \in Int, NEW k \in S
  PROVE  SumFunctionOnSet(f, S) = f[k] + SumFunctionOnSet(f, S \ {k})
  <1> DEFINE Sum(s) == SumFunctionOnSet(f, s)
             Good(s) == \A x \in s : Sum(s) = f[x] + Sum(s \ {x})
             Bad == {s \in SUBSET S : ~Good(s)}
  <1>1. SUFFICES ASSUME Bad # {} PROVE FALSE
    OBVIOUS
  <1>2. PICK s \in Bad : \A u \in Bad : u \subseteq s => u = s
    <2>1. Bad \subseteq SUBSET S
      OBVIOUS
    <2> HIDE DEF Bad
    <2> QED
      BY <1>1, <2>1, LeastSubset
  <1>3. \A u \in SUBSET S : IsFiniteSet(u) /\ Sum(u) \in Int
    <2>1. ASSUME NEW u \in SUBSET S PROVE IsFiniteSet(u) /\ Sum(u) \in Int
      <3>1. IsFiniteSet(u)
        BY FS_Subset
      <3> QED
        BY <3>1, SumType
    <2> QED
      BY <2>1
  <1>4. \A u \in SUBSET S : u # {} => Pick(u) \in u /\ Sum(u) = f[Pick(u)] + Sum(u \ {Pick(u)})
    <2>1. ASSUME NEW u \in SUBSET S, u # {}
          PROVE  Pick(u) \in u /\ Sum(u) = f[Pick(u)] + Sum(u \ {Pick(u)})
      BY <1>3, <2>1, SumUnfolds DEF Pick
    <2> QED
      BY <2>1
  <1> HIDE DEF Sum
  <1>5. PICK x \in s : Sum(s) # f[x] + Sum(s \ {x})
    OBVIOUS
  <1> DEFINE p == Pick(s)
  <1>6. s \in SUBSET S /\ p \in s /\ Sum(s) = f[p] + Sum(s \ {p}) /\ x # p
    BY <1>4, <1>5
  <1> HIDE DEF p
  <1>7. Good(s \ {p}) /\ Good(s \ {x})
    <2>1. /\ s \ {p} \in SUBSET S /\ s \ {p} \subseteq s /\ s \ {p} # s
          /\ s \ {x} \in SUBSET S /\ s \ {x} \subseteq s /\ s \ {x} # s
      BY <1>6
    <2> HIDE DEF Good
    <2> QED
      BY <1>2, <2>1
  <1>8. Sum(s \ {p}) = f[x] + Sum((s \ {p}) \ {x}) /\ Sum(s \ {x}) = f[p] + Sum((s \ {x}) \ {p})
    BY <1>6, <1>7
  <1>9. (s \ {p}) \ {x} = (s \ {x}) \ {p} /\ (s \ {p}) \ {x} \in SUBSET S
    BY <1>6
  <1>10. PICK a \in Int, b \in Int, c \in Int : a = f[p] /\ b = f[x] /\ c = Sum((s \ {p}) \ {x})
    BY <1>3, <1>6, <1>9
  <1>11. Sum(s) = a + (b + c)
    BY <1>6, <1>8, <1>10
  <1>12. Sum(s \ {x}) = a + c
    BY <1>8, <1>9, <1>10
  <1> QED
    BY <1>5, <1>10, <1>11, <1>12

\* Equal summands, equal sums.
LEMMA SumSame ==
  ASSUME NEW S, IsFiniteSet(S), NEW f, NEW g, \A x \in S : f[x] = g[x]
  PROVE  SumFunctionOnSet(f, S) = SumFunctionOnSet(g, S)
  <1> DEFINE Bad == {s \in SUBSET S : SumFunctionOnSet(f, s) # SumFunctionOnSet(g, s)}
  <1>1. SUFFICES ASSUME Bad # {} PROVE FALSE
    OBVIOUS
  <1>2. PICK s \in Bad : \A u \in Bad : u \subseteq s => u = s
    <2>1. Bad \subseteq SUBSET S
      OBVIOUS
    <2> HIDE DEF Bad
    <2> QED
      BY <1>1, <2>1, LeastSubset
  <1>3. s \in SUBSET S /\ IsFiniteSet(s)
    BY FS_Subset
  <1>4. /\ SumFunctionOnSet(f, s) =
             IF s = {} THEN 0 ELSE f[Pick(s)] + SumFunctionOnSet(f, s \ {Pick(s)})
        /\ SumFunctionOnSet(g, s) =
             IF s = {} THEN 0 ELSE g[Pick(s)] + SumFunctionOnSet(g, s \ {Pick(s)})
    BY <1>3, SumUnfolds
  <1>5. s # {}
    BY <1>4
  <1>6. Pick(s) \in s /\ s \ {Pick(s)} \in SUBSET S /\ s \ {Pick(s)} # s /\ f[Pick(s)] = g[Pick(s)]
    BY <1>3, <1>5 DEF Pick
  <1>7. SumFunctionOnSet(f, s \ {Pick(s)}) = SumFunctionOnSet(g, s \ {Pick(s)})
    BY <1>2, <1>6
  <1> QED
    BY <1>4, <1>5, <1>6, <1>7

\* A sum in which one summand changes.
LEMMA SumChange ==
  ASSUME NEW S, IsFiniteSet(S), NEW k \in S,
         NEW f, NEW g, \A x \in S : f[x] \in Int, g[k] \in Int, \A x \in S \ {k} : f[x] = g[x]
  PROVE  /\ SumFunctionOnSet(g, S) = SumFunctionOnSet(f, S) - f[k] + g[k]
         /\ SumFunctionOnSet(f, S) \in Int /\ SumFunctionOnSet(g, S) \in Int
  <1>1. IsFiniteSet(S \ {k}) /\ \A x \in S : g[x] \in Int
    BY FS_Subset
  <1>2. SumFunctionOnSet(f, S \ {k}) = SumFunctionOnSet(g, S \ {k})
    BY <1>1, SumSame
  <1>3. SumFunctionOnSet(f, S) = f[k] + SumFunctionOnSet(f, S \ {k})
    BY SumRemove
  <1>4. SumFunctionOnSet(g, S) = g[k] + SumFunctionOnSet(g, S \ {k})
    BY <1>1, SumRemove
  <1>5. PICK a \in Int, b \in Int, c \in Int :
           a = f[k] /\ b = g[k] /\ c = SumFunctionOnSet(f, S \ {k})
    BY <1>1, SumType
  <1> QED
    BY <1>2, <1>3, <1>4, <1>5

\* Summands that are zero may be left out.
LEMMA SumOfPart ==
  ASSUME NEW S, IsFiniteSet(S), NEW f, \A x \in S : f[x] \in Int,
         NEW T \in SUBSET S, \A x \in S \ T : f[x] = 0
  PROVE  SumFunctionOnSet(f, S) = SumFunctionOnSet(f, T)
  <1> DEFINE Bad == {s \in SUBSET S : T \subseteq s /\ SumFunctionOnSet(f, s) # SumFunctionOnSet(f, T)}
  <1>1. SUFFICES ASSUME Bad # {} PROVE FALSE
    OBVIOUS
  <1>2. PICK s \in Bad : \A u \in Bad : u \subseteq s => u = s
    <2>1. Bad \subseteq SUBSET S
      OBVIOUS
    <2> HIDE DEF Bad
    <2> QED
      BY <1>1, <2>1, LeastSubset
  <1>3. IsFiniteSet(s) /\ s \in SUBSET S /\ T \subseteq s /\ s # T
    BY FS_Subset
  <1>4. PICK k \in s : k \notin T
    BY <1>3
  <1>5. SumFunctionOnSet(f, s) = f[k] + SumFunctionOnSet(f, s \ {k})
    BY <1>3, SumRemove
  <1>6. f[k] = 0 /\ SumFunctionOnSet(f, s \ {k}) \in Int
    <2>1. IsFiniteSet(s \ {k}) /\ \A x \in s \ {k} : f[x] \in Int
      BY <1>3, FS_Subset
    <2> QED
      BY <1>3, <1>4, <2>1, SumType
  <1>7. s \ {k} \in SUBSET S /\ T \subseteq s \ {k} /\ s \ {k} # s
    BY <1>3, <1>4
  <1> QED
    BY <1>2, <1>5, <1>6, <1>7

\* No summand, no sum.
LEMMA SumOfZeros ==
  ASSUME NEW S, IsFiniteSet(S), NEW f, \A x \in S : f[x] = 0
  PROVE  SumFunctionOnSet(f, S) = 0
  <1>1. SumFunctionOnSet(f, S) = SumFunctionOnSet(f, {})
    BY SumOfPart
  <1> QED
    BY <1>1, FS_EmptySet, SumUnfolds

\* The sum of a whole function is a number.
LEMMA FunctionSum ==
  ASSUME NEW S, IsFiniteSet(S), NEW F \in [S -> Int]
  PROVE  /\ SumFunction(F) \in Int
         /\ (\A x \in S : F[x] = 0) => SumFunction(F) = 0
  <1>1. SumFunction(F) = SumFunctionOnSet(F, S)
    BY DEF SumFunction
  <1>2. \A x \in S : F[x] \in Int
    OBVIOUS
  <1> QED
    BY <1>1, <1>2, SumType, SumOfZeros

\* The sum of a whole function when one value changes.
LEMMA FunctionSumChange ==
  ASSUME NEW S, IsFiniteSet(S), NEW F \in [S -> Int], NEW G \in [S -> Int], NEW k \in S,
         \A x \in S : x # k => F[x] = G[x]
  PROVE  SumFunction(G) = SumFunction(F) - F[k] + G[k]
  <1>1. SumFunction(F) = SumFunctionOnSet(F, S) /\ SumFunction(G) = SumFunctionOnSet(G, S)
    BY DEF SumFunction
  <1>2. \A x \in S : F[x] \in Int /\ G[x] \in Int
    OBVIOUS
  <1> QED
    BY <1>1, <1>2, SumChange
=============================================================================
