------------------------- MODULE VirtualTreeProofs -------------------------
(***************************************************************************)
(* The virtual tree, for any number of tracks, any tags, any reserved      *)
(* names and either way to compare names: a refresh, however it edits the  *)
(* tree, keeps lookups unambiguous, inodes bound to their paths, every     *)
(* directory in use and every track in one place; and a full build puts    *)
(* two tracks in one directory exactly when their tags say so.             *)
(***************************************************************************)
EXTENDS VirtualTreeInv, SumProofs, FiniteSetTheorems, SequenceTheorems, TLAPS

(***************************************************************************)
(* Numbers.                                                                *)
(***************************************************************************)

\* A set of numbers has a least one.
LEMMA Least ==
  ASSUME NEW S \in SUBSET Nat, S # {}
  PROVE  \E n \in S : \A m \in S : n <= m
  <1>1. PICK N \in S : TRUE
    OBVIOUS
  <1> DEFINE Low == S \cap (0..N)
  <1>2. Low \in SUBSET (0..N) /\ Low # {} /\ N \in Nat
    BY <1>1
  <1> HIDE DEF Low
  <1>3. PICK n \in Low : \A m \in Low : n <= m
    BY <1>2, LeastNumber
  <1> QED
    BY <1>3 DEF Low

\* Induction, on the set of the numbers that have a property.
LEMMA Climb ==
  ASSUME NEW S, 0 \in S, \A n \in Nat : n \in S => n + 1 \in S
  PROVE  \A n \in Nat : n \in S
  <1> DEFINE Bad == {n \in Nat : n \notin S}
  <1> SUFFICES ASSUME Bad # {} PROVE FALSE
    OBVIOUS
  <1>1. PICK n \in Bad : \A m \in Bad : n <= m
    <2>1. Bad \in SUBSET Nat
      OBVIOUS
    <2> HIDE DEF Bad
    <2> QED
      BY <2>1, Least
  <1>2. n # 0 /\ n - 1 \in Nat /\ n - 1 \notin Bad
    BY <1>1
  <1>3. (n - 1) + 1 \in S
    BY <1>2
  <1> QED
    BY <1>2, <1>3

\* A finite set of numbers has a bound.
LEMMA Bounded ==
  ASSUME NEW S, IsFiniteSet(S), \A i \in S : i \in Nat
  PROVE  \E N \in Nat : \A i \in S : i <= N
  <1> DEFINE Bad == {u \in SUBSET S : ~\E N \in Nat : \A i \in u : i <= N}
  <1> SUFFICES ASSUME Bad # {} PROVE FALSE
    OBVIOUS
  <1>1. PICK u \in Bad : \A v \in Bad : v \subseteq u => v = u
    <2>1. Bad \subseteq SUBSET S
      OBVIOUS
    <2> HIDE DEF Bad
    <2> QED
      BY <2>1, LeastSubset
  <1>2. PICK x \in u : TRUE
    BY <1>1
  <1>3. u \ {x} \notin Bad
    BY <1>1, <1>2
  <1>4. PICK N \in Nat : \A i \in u \ {x} : i <= N
    BY <1>3
  <1>5. x \in Nat /\ \A i \in u : i <= (IF x > N THEN x ELSE N)
    BY <1>4
  <1> QED
    BY <1>1, <1>5

(***************************************************************************)
(* Names.                                                                  *)
(***************************************************************************)

\* A comparison key is a name with the same ranks.
LEMMA KeyType ==
  ASSUME NEW n \in Names
  PROVE  Key(n) \in Names /\ Key(n).ranks = n.ranks
  BY TreeAssumption DEF Key, Names

LEMMA CandidateType ==
  ASSUME NEW n \in Names, NEW k \in Nat
  PROVE  suffix_candidate(n, k) \in Names \ Dots
  <1>1. Append(n.ranks, k) \in Seq(Nat) /\ Append(n.ranks, k) # <<>>
    BY DEF Names
  <1> QED
    BY <1>1, TreeAssumption DEF suffix_candidate, Names, Dots

\* Candidates of different ranks never share a key.
LEMMA CandidatesDiffer ==
  ASSUME NEW n \in Names, NEW j \in Nat, NEW k \in Nat,
         Key(suffix_candidate(n, j)) = Key(suffix_candidate(n, k))
  PROVE  j = k
  <1>1. suffix_candidate(n, j) \in Names /\ suffix_candidate(n, k) \in Names
    BY CandidateType
  <1>2. suffix_candidate(n, j).ranks = suffix_candidate(n, k).ranks
    BY <1>1, KeyType
  <1>3. Append(n.ranks, j) = Append(n.ranks, k)
    BY <1>2 DEF suffix_candidate
  <1> QED
    BY <1>3, AppendInjective DEF Names

LEMMA TruncatedType ==
  ASSUME NEW c \in Names \ Dots
  PROVE  truncate_component(c) \in Names \ Dots
  <1>1. CASE c.base \in DOMAIN Short
    <2> DEFINE b == Short[c.base]
    <2>1. b \in Bases \ DotBases /\ truncate_component(c) = [base |-> b, ranks |-> <<>>]
      BY <1>1, TreeAssumption DEF truncate_component
    <2> HIDE DEF b
    <2>2. truncate_component(c).base = b /\ <<>> \in Seq(Nat)
      BY <2>1
    <2>3. truncate_component(c) \notin Dots
      <3> SUFFICES ASSUME NEW x \in DotBases, truncate_component(c) = [base |-> x, ranks |-> <<>>]
                   PROVE  FALSE
        BY DEF Dots
      <3>1. b = x
        BY <2>2
      <3> QED
        BY <2>1, <3>1
    <2>4. truncate_component(c) \in Names
      BY <2>1, <2>2 DEF Names
    <2> QED
      BY <2>3, <2>4
  <1>2. CASE c.base \notin DOMAIN Short
    BY <1>2 DEF truncate_component
  <1> QED
    BY <1>1, <1>2

\* FreeRank: the search of disambiguate ends in every directory, the reserved
\* names and the truncated stems included: a rank no larger than there are
\* names to avoid is free (tree.rs: "an unoccupied candidate rank always
\* exists").
THEOREM FreeRank ==
  ASSUME NEW T, WellFormed(T), NEW d \in DOMAIN T, NEW n \in Names
  PROVE  /\ Ranks(T, d) \subseteq Nat
         /\ \E k \in Ranks(T, d) : ~taken(T, d, suffix_candidate(n, k))
  <1> DEFINE kids == Kids(T, d)
             K == Cardinality(kids)
             R == Cardinality(Reserved)
             keyOf == [i \in kids |-> Key(T[i].name)]
             kidKeys == {Key(T[i].name) : i \in kids}
             keys == Reserved \cup kidKeys
  <1>1. IsFiniteSet(kids) /\ IsFiniteSet(Reserved)
    BY FS_Subset, TreeAssumption DEF Kids, WellFormed
  <1>2. K \in Nat /\ R \in Nat
    BY <1>1, FS_CardinalityType
  <1>3. IsFiniteSet(kidKeys) /\ Cardinality(kidKeys) <= K
    <2>1. keyOf \in [kids -> kidKeys] /\ \A y \in kidKeys : \E i \in kids : keyOf[i] = y
      OBVIOUS
    <2>2. keyOf \in Surjection(kids, kidKeys)
      BY <2>1 DEF Surjection
    <2> HIDE DEF keyOf, kidKeys
    <2> QED
      BY <1>1, <2>2, FS_Surjection
  <1> HIDE DEF kidKeys, keyOf
  <1>4. IsFiniteSet(keys) /\ Cardinality(keys) <= R + K
    <2> DEFINE C == Cardinality(kidKeys)
               B == Cardinality(Reserved \cap kidKeys)
    <2>1. IsFiniteSet(Reserved \cap kidKeys) /\ C \in Nat /\ B \in Nat
      BY <1>1, <1>3, FS_Intersection, FS_CardinalityType
    <2>2. IsFiniteSet(keys) /\ Cardinality(keys) = R + C - B
      BY <1>1, <1>3, FS_Union
    <2>3. C <= K
      BY <1>3
    <2> HIDE DEF B, C, K, R, keys
    <2> QED
      BY <1>2, <2>1, <2>2, <2>3
  <1>5. IsFiniteSet(Ranks(T, d)) /\ Cardinality(Ranks(T, d)) = K + R + 1 /\ Ranks(T, d) \subseteq Nat
    <2>1. Ranks(T, d) = 2..(K + R + 2)
      BY DEF Ranks
    <2> HIDE DEF K, R
    <2>2. K + R + 2 \in Int /\ ~(2 > K + R + 2) /\ (K + R + 2) - 2 + 1 = K + R + 1
      BY <1>2
    <2>3. 2..(K + R + 2) \subseteq Nat
      BY <1>2
    <2> QED
      BY <2>1, <2>2, <2>3, FS_Interval
  <1> HIDE DEF K, R
  <1>6. SUFFICES ASSUME \A k \in Ranks(T, d) : taken(T, d, suffix_candidate(n, k)) PROVE FALSE
    BY <1>5
  <1> DEFINE f == [k \in Ranks(T, d) |-> Key(suffix_candidate(n, k))]
  <1>7. f \in [Ranks(T, d) -> keys]
    BY <1>6 DEF taken, kidKeys
  <1>8. \A j, k \in Ranks(T, d) : f[j] = f[k] => j = k
    BY <1>5, CandidatesDiffer
  <1>9. Cardinality(keys) < Cardinality(Ranks(T, d))
    BY <1>2, <1>4, <1>5, FS_CardinalityType
  <1> HIDE DEF f, keys
  <1> QED
    BY <1>4, <1>5, <1>7, <1>8, <1>9, FS_PigeonHole

\* disambiguate finds a name that no child has and no injected entry.
LEMMA DisambiguateFree ==
  ASSUME NEW T, WellFormed(T), NEW d \in DOMAIN T, NEW n \in Names \ Dots
  PROVE  /\ disambiguate(T, d, n) \in Names \ Dots
         /\ ~taken(T, d, disambiguate(T, d, n))
  <1> DEFINE free == {k \in Ranks(T, d) : ~taken(T, d, suffix_candidate(n, k))}
  <1>1. free \in SUBSET Nat /\ free # {}
    BY FreeRank
  <1> HIDE DEF free
  <1>2. Min(free) \in free
    BY <1>1, Least DEF Min
  <1>3. CASE taken(T, d, n)
    <2>1. disambiguate(T, d, n) = suffix_candidate(n, Min(free))
      BY <1>3 DEF disambiguate, free
    <2> QED
      BY <1>1, <1>2, <2>1, CandidateType DEF free
  <1>4. CASE ~taken(T, d, n)
    BY <1>4 DEF disambiguate
  <1> QED
    BY <1>3, <1>4

(***************************************************************************)
(* Paths.                                                                  *)
(***************************************************************************)
PathStep(g, T, j) == IF j = ROOT THEN <<>> ELSE Append(g[T[j].parent], T[j].name)

\* g tabulates the paths of T.
IsPaths(g, T) == g = [j \in DOMAIN T |-> PathStep(g, T, j)]

LEMMA PathIsOfTable ==
  ASSUME NEW T, NEW i
  PROVE  path_of(T, i) = (CHOOSE g : IsPaths(g, T))[i]
  BY DEF path_of, IsPaths, PathStep

\* The table exists: a parent's path is there before those of its children.
LEMMA PathTable ==
  ASSUME NEW T, WellFormed(T)
  PROVE  \E g : IsPaths(g, T)
  <1> DEFINE Upto(g, n) == \A j \in DOMAIN T : j <= n => g[j] = PathStep(g, T, j)
             S == {n \in Nat : \E g : Upto(g, n)}
  <1>1. \A j \in DOMAIN T : j \in Nat /\ (j # ROOT => T[j].parent \in DOMAIN T /\ T[j].parent < j)
    BY DEF WellFormed
  <1>2. \A n \in Nat : n \in S
    <2>1. 0 \in S
      <3> DEFINE g == [j \in DOMAIN T |-> <<>>]
      <3>1. ASSUME NEW j \in DOMAIN T, j <= 0 PROVE g[j] = PathStep(g, T, j)
        <4>1. CASE j = ROOT
          BY <4>1 DEF PathStep
        <4>2. CASE j # ROOT
          BY <1>1, <3>1, <4>2
        <4> QED
          BY <4>1, <4>2
      <3> HIDE DEF g
      <3> QED
        BY <3>1
    <2>2. ASSUME NEW n \in Nat, n \in S PROVE n + 1 \in S
      <3>1. PICK g : Upto(g, n)
        BY <2>2
      <3> DEFINE h == [j \in DOMAIN T |-> IF j = n + 1 THEN PathStep(g, T, j) ELSE g[j]]
      <3>2. \A j \in DOMAIN T : h[j] = IF j = n + 1 THEN PathStep(g, T, j) ELSE g[j]
        OBVIOUS
      <3> HIDE DEF h
      <3>3. ASSUME NEW j \in DOMAIN T, j <= n + 1 PROVE h[j] = PathStep(h, T, j)
        <4>1. j # ROOT => h[T[j].parent] = g[T[j].parent]
          BY <1>1, <3>2, <3>3
        <4>2. PathStep(h, T, j) = PathStep(g, T, j)
          BY <4>1 DEF PathStep
        <4>3. CASE j = n + 1
          BY <3>2, <4>2, <4>3
        <4>4. CASE j # n + 1
          <5>1. j <= n
            BY <1>1, <3>3, <4>4
          <5> QED
            BY <3>1, <3>2, <4>2, <4>4, <5>1
        <4> QED
          BY <4>3, <4>4
      <3> QED
        BY <3>3
    <2> HIDE DEF S
    <2> QED
      BY <2>1, <2>2, Climb
  <1>3. PICK N \in Nat : \A i \in DOMAIN T : i <= N
    BY <1>1, Bounded DEF WellFormed
  <1>4. PICK g : Upto(g, N)
    BY <1>2
  <1> DEFINE h == [j \in DOMAIN T |-> g[j]]
  <1>5. \A j \in DOMAIN T : h[j] = PathStep(g, T, j)
    BY <1>3, <1>4
  <1>6. \A j \in DOMAIN T : PathStep(h, T, j) = PathStep(g, T, j)
    BY <1>1 DEF PathStep
  <1>7. h = [j \in DOMAIN T |-> h[j]]
    OBVIOUS
  <1> HIDE DEF h
  <1>8. h = [j \in DOMAIN T |-> PathStep(h, T, j)]
    BY <1>5, <1>6, <1>7
  <1> QED
    BY <1>8 DEF IsPaths

LEMMA PathUnfolds ==
  ASSUME NEW T, WellFormed(T)
  PROVE  /\ path_of(T, ROOT) = <<>>
         /\ \A i \in DOMAIN T \ {ROOT} : path_of(T, i) = Append(path_of(T, T[i].parent), T[i].name)
  <1> DEFINE g == CHOOSE x : IsPaths(x, T)
  <1>1. IsPaths(g, T)
    BY PathTable
  <1>2. \A i : path_of(T, i) = g[i]
    BY PathIsOfTable
  <1> HIDE DEF g
  <1>3. \A i \in DOMAIN T : g[i] = PathStep(g, T, i)
    BY <1>1 DEF IsPaths
  <1> QED
    BY <1>2, <1>3 DEF PathStep, WellFormed

LEMMA AllocKeyAppend ==
  ASSUME NEW p \in Seq(Names), NEW n \in Names
  PROVE  /\ AllocKey(<<>>) = <<>>
         /\ AllocKey(p) \in Seq(Names)
         /\ AllocKey(Append(p, n)) = Append(AllocKey(p), Key(n))
  <1>1. \A q \in Seq(Names) : AllocKey(q) \in Seq(Names) /\ Len(AllocKey(q)) = Len(q)
                              /\ \A k \in 1..Len(q) : AllocKey(q)[k] = Key(q[k])
    <2>1. ASSUME NEW q \in Seq(Names)
          PROVE  AllocKey(q) \in Seq(Names) /\ Len(AllocKey(q)) = Len(q)
                 /\ \A k \in 1..Len(q) : AllocKey(q)[k] = Key(q[k])
      <3>1. DOMAIN q = 1..Len(q) /\ Len(q) \in Nat /\ \A k \in 1..Len(q) : q[k] \in Names
        OBVIOUS
      <3>2. AllocKey(q) = [k \in 1..Len(q) |-> Key(q[k])]
        BY <3>1 DEF AllocKey
      <3>3. \A k \in 1..Len(q) : Key(q[k]) \in Names
        BY <3>1, KeyType
      <3>4. AllocKey(q) \in [1..Len(q) -> Names]
        BY <3>2, <3>3
      <3> QED
        BY <3>1, <3>2, <3>4
    <2> QED
      BY <2>1
  <1>2. <<>> \in Seq(Names) /\ Append(p, n) \in Seq(Names) /\ Len(Append(p, n)) = Len(p) + 1
    OBVIOUS
  <1>3. AllocKey(<<>>) = <<>>
    BY DEF AllocKey
  <1> DEFINE a == AllocKey(p)
             b == AllocKey(Append(p, n))
             k == Key(n)
  <1>4. a \in Seq(Names) /\ Len(a) = Len(p) /\ k \in Names
    BY <1>1, KeyType
  <1>5. b \in Seq(Names) /\ Len(b) = Len(p) + 1
    BY <1>1, <1>2
  <1> DEFINE q == Append(p, n)
  <1>10. Len(p) \in Nat /\ q[Len(p) + 1] = n /\ \A j \in 1..Len(p) : q[j] = p[j]
    OBVIOUS
  <1>11. q \in Seq(Names) /\ Len(q) = Len(p) + 1 /\ b = AllocKey(q)
    OBVIOUS
  <1> HIDE DEF q, b
  <1>12. \A j \in 1..(Len(p) + 1) : b[j] = Key(q[j])
    BY <1>1, <1>11
  <1>6. \A j \in 1..Len(p) : b[j] = a[j]
    BY <1>1, <1>10, <1>12
  <1>7. b[Len(p) + 1] = k
    BY <1>10, <1>12
  <1> HIDE DEF a, b, k
  <1>8. b = Append(a, k)
    BY <1>4, <1>5, <1>6, <1>7
  <1> QED
    BY <1>3, <1>4, <1>8 DEF a, b, k

LEMMA FrontAppend ==
  ASSUME NEW S, NEW p \in Seq(S), NEW n \in S
  PROVE  Front(Append(p, n)) = p
  <1>1. Append(p, n) \in Seq(S) /\ Len(Append(p, n)) = Len(p) + 1 /\ Len(p) \in Nat
    OBVIOUS
  <1> QED
    BY <1>1 DEF Front

\* A sequence is its front and its last.
LEMMA FrontLast ==
  ASSUME NEW S, NEW p \in Seq(S), p # <<>>
  PROVE  Front(p) \in Seq(S) /\ p[Len(p)] \in S /\ p = Append(Front(p), p[Len(p)])
  <1>1. PICK q \in Seq(S), e \in S : p = Append(q, e)
    BY SequenceEmptyOrAppend
  <1>2. Front(p) = q /\ p[Len(p)] = e
    BY <1>1, FrontAppend
  <1> QED
    BY <1>1, <1>2

\* A node's number is the one its path was interned under.
LEMMA NumberOfPath ==
  ASSUME NEW T, NEW a, WellFormed(T), Allocated(a), Interned(T, a)
  PROVE  \A i \in DOMAIN T : /\ path_of(T, i) \in Seq(Names)
                             /\ AllocKey(path_of(T, i)) \in DOMAIN a.paths
                             /\ a.paths[AllocKey(path_of(T, i))] = i
  <1> DEFINE Good(i) == /\ path_of(T, i) \in Seq(Names)
                        /\ AllocKey(path_of(T, i)) \in DOMAIN a.paths
                        /\ a.paths[AllocKey(path_of(T, i))] = i
             Bad == {i \in DOMAIN T : ~Good(i)}
  <1> SUFFICES ASSUME Bad # {} PROVE FALSE
    OBVIOUS
  <1>1. PICK i \in Bad : \A j \in Bad : i <= j
    <2>1. Bad \in SUBSET Nat
      BY DEF WellFormed
    <2> HIDE DEF Bad
    <2> QED
      BY <2>1, Least
  <1>2. Good(ROOT)
    <2>1. path_of(T, ROOT) = <<>> /\ <<>> \in Seq(Names) /\ AllocKey(<<>>) = <<>>
      BY PathUnfolds DEF AllocKey
    <2> QED
      BY <2>1 DEF Allocated
  <1>3. i \in DOMAIN T \ {ROOT}
    BY <1>2
  <1> DEFINE d == T[i].parent
             n == T[i].name
  <1>4. d \in DOMAIN T /\ d < i /\ n \in Names /\ d \in Nat /\ i \in Nat
    BY <1>3 DEF WellFormed
  <1>5. Good(d)
    BY <1>1, <1>4
  <1>6. path_of(T, i) = Append(path_of(T, d), n)
    BY <1>3, PathUnfolds
  <1>7. PICK p \in DOMAIN a.paths \ {<<>>} :
           a.paths[p] = i /\ p[Len(p)] = Key(n) /\ a.paths[Front(p)] = d
    BY <1>3 DEF Interned
  <1> HIDE DEF d, n
  <1>8. p \in Seq(Names) /\ Front(p) \in DOMAIN a.paths
    BY <1>7 DEF Allocated
  <1>9. Front(p) = AllocKey(path_of(T, d))
    BY <1>5, <1>7, <1>8 DEF Allocated
  <1>10. p = Append(AllocKey(path_of(T, d)), Key(n))
    BY <1>7, <1>8, <1>9, FrontLast
  <1>11. AllocKey(path_of(T, i)) = p /\ path_of(T, i) \in Seq(Names)
    BY <1>4, <1>5, <1>6, <1>10, AllocKeyAppend
  <1> QED
    BY <1>1, <1>7, <1>11

(***************************************************************************)
(* The allocator.                                                          *)
(***************************************************************************)

\* Interning only adds.
LEMMA ExtendsTrans ==
  ASSUME NEW a, NEW b, NEW c, Allocated(a), Allocated(b), Allocated(c)
  PROVE  /\ Extends(a, a)
         /\ Extends(a, b) /\ Extends(b, c) => Extends(a, c)
  <1>1. Extends(a, a)
    BY DEF Extends, Allocated
  <1>2. ASSUME Extends(a, b), Extends(b, c) PROVE Extends(a, c)
    <2>1. DOMAIN a.paths \subseteq DOMAIN c.paths /\ a.next <= c.next
      BY <1>2 DEF Extends, Allocated
    <2>2. \A p \in DOMAIN a.paths : c.paths[p] = a.paths[p]
      BY <1>2 DEF Extends
    <2>3. ASSUME NEW p \in DOMAIN c.paths \ DOMAIN a.paths PROVE c.paths[p] >= a.next
      <3>1. CASE p \in DOMAIN b.paths
        BY <1>2, <2>3, <3>1 DEF Extends
      <3>2. CASE p \notin DOMAIN b.paths
        <4>1. c.paths[p] >= b.next /\ b.next >= a.next /\ c.paths[p] \in Nat
          BY <1>2, <2>3, <3>2 DEF Extends, Allocated
        <4> QED
          BY <4>1 DEF Allocated
      <3> QED
        BY <3>1, <3>2
    <2> QED
      BY <2>1, <2>2, <2>3 DEF Extends
  <1> QED
    BY <1>1, <1>2

LEMMA InternedMono ==
  ASSUME NEW T, NEW a, NEW b, Interned(T, a), Extends(a, b), Allocated(a)
  PROVE  Interned(T, b)
  <1> SUFFICES ASSUME NEW i \in DOMAIN T \ {ROOT}
               PROVE  \E p \in DOMAIN b.paths \ {<<>>} :
                         /\ b.paths[p] = i /\ p[Len(p)] = Key(T[i].name)
                         /\ b.paths[Front(p)] = T[i].parent
    BY DEF Interned
  <1>1. PICK p \in DOMAIN a.paths \ {<<>>} :
           /\ a.paths[p] = i /\ p[Len(p)] = Key(T[i].name)
           /\ a.paths[Front(p)] = T[i].parent
    BY DEF Interned
  <1>2. Front(p) \in DOMAIN a.paths
    BY DEF Allocated
  <1> QED
    BY <1>1, <1>2 DEF Extends

\* The number of a path whose directory has one.
LEMMA InternOK ==
  ASSUME NEW a, Allocated(a), NEW p, AllocKey(p) \in Seq(Names) \ {<<>>},
         Front(AllocKey(p)) \in DOMAIN a.paths
  PROVE  LET b == intern(a, p) IN
         /\ Allocated(b) /\ Extends(a, b)
         /\ AllocKey(p) \in DOMAIN b.paths /\ InodeOf(b, p) = b.paths[AllocKey(p)]
         /\ InodeOf(b, p) \in Nat
  <1> DEFINE q == AllocKey(p)
             b == intern(a, p)
  <1>1. CASE q \in DOMAIN a.paths
    <2>1. b = a
      BY <1>1 DEF intern
    <2>2. Extends(a, a)
      BY ExtendsTrans
    <2>3. a.paths[q] \in Nat
      BY <1>1 DEF Allocated
    <2> QED
      BY <1>1, <2>1, <2>2, <2>3 DEF InodeOf
  <1>2. CASE q \notin DOMAIN a.paths
    <2>1. b = [paths |-> Put(a.paths, q, a.next), next |-> a.next + 1]
      BY <1>2 DEF intern
    <2>2. b.paths = Put(a.paths, q, a.next) /\ b.next = a.next + 1
      BY <2>1
    <2>3. DOMAIN b.paths = DOMAIN a.paths \cup {q} /\ b.paths[q] = a.next
      BY <2>2 DEF Put
    <2>4. \A r \in DOMAIN a.paths : b.paths[r] = a.paths[r] /\ r # q
      BY <1>2, <2>2 DEF Put
    <2>5. a.next \in Nat /\ \A r \in DOMAIN a.paths : a.paths[r] \in Nat /\ a.paths[r] < a.next /\ a.paths[r] >= 1
      BY DEF Allocated
    <2>6. <<>> \in DOMAIN a.paths /\ a.paths[<<>>] = ROOT
      BY DEF Allocated
    <2> HIDE DEF q, b
    <2>7. Extends(a, b)
      BY <2>2, <2>3, <2>4, <2>5 DEF Extends
    <2>8. Allocated(b)
      <3>1. b.next \in Nat /\ DOMAIN b.paths \subseteq Seq(Names)
        BY <2>2, <2>3, <2>5 DEF Allocated, q
      <3>2. <<>> \in DOMAIN b.paths /\ b.paths[<<>>] = ROOT
        BY <2>3, <2>4, <2>6
      <3>3. \A r \in DOMAIN b.paths : b.paths[r] \in 1..(b.next - 1)
        <4>1. a.next >= 1
          BY <2>5, <2>6
        <4> QED
          BY <2>2, <2>3, <2>4, <2>5, <4>1
      <3>4. \A r, t \in DOMAIN b.paths : b.paths[r] = b.paths[t] => r = t
        <4>1. ASSUME NEW r \in DOMAIN b.paths, NEW t \in DOMAIN b.paths, b.paths[r] = b.paths[t]
              PROVE  r = t
          <5>1. CASE r = q
            BY <2>3, <2>4, <2>5, <4>1, <5>1
          <5>2. CASE t = q
            BY <2>3, <2>4, <2>5, <4>1, <5>2
          <5>3. CASE r # q /\ t # q
            <6>1. r \in DOMAIN a.paths /\ t \in DOMAIN a.paths /\ a.paths[r] = a.paths[t]
              BY <2>3, <2>4, <4>1, <5>3
            <6> QED
              BY <6>1 DEF Allocated
          <5> QED
            BY <5>1, <5>2, <5>3
        <4> QED
          BY <4>1
      <3>5. ASSUME NEW r \in DOMAIN b.paths \ {<<>>}
            PROVE  Front(r) \in DOMAIN b.paths /\ b.paths[Front(r)] < b.paths[r]
        <4>1. CASE r = q
          <5>1. Front(r) \in DOMAIN a.paths
            BY <4>1 DEF q
          <5> QED
            BY <2>3, <2>4, <2>5, <4>1, <5>1
        <4>2. CASE r # q
          <5>1. r \in DOMAIN a.paths \ {<<>>}
            BY <2>3, <4>2
          <5>2. Front(r) \in DOMAIN a.paths /\ a.paths[Front(r)] < a.paths[r]
            BY <5>1 DEF Allocated
          <5> QED
            BY <2>3, <2>4, <5>1, <5>2
        <4> QED
          BY <4>1, <4>2
      <3> QED
        BY <3>1, <3>2, <3>3, <3>4, <3>5 DEF Allocated
    <2>9. InodeOf(b, p) = b.paths[q] /\ b.paths[q] \in Nat
      BY <2>3, <2>5 DEF InodeOf, q
    <2> QED
      BY <2>3, <2>7, <2>8, <2>9 DEF q, b
  <1> QED
    BY <1>1, <1>2

(***************************************************************************)
(* Inserting.                                                              *)
(***************************************************************************)
StateOK(s) == Sound(s.nodes) /\ Allocated(s.alloc) /\ Interned(s.nodes, s.alloc)

AtDir(s) == s.at \in DOMAIN s.nodes /\ IsDir(s.nodes, s.at)

\* T only gained nodes on the way to U.
Within(T, U) == DOMAIN T \subseteq DOMAIN U /\ \A i \in DOMAIN T : U[i] = T[i]

\* A new child takes a number no node has, and no name that is in use.
LEMMA GrowNumber ==
  ASSUME NEW s, StateOK(s), AtDir(s), NEW r \in Names \ Dots, NEW track \in Nat
  PROVE  LET t == Grow(s, r, track) IN
         /\ t.nodes = Put(s.nodes, t.at, t.nodes[t.at])
         /\ t.nodes[t.at] = [parent |-> s.at, name |-> disambiguate(s.nodes, s.at, r),
                             rendered |-> r, track |-> track]
         /\ t.at \notin DOMAIN s.nodes /\ t.at \in Nat /\ s.at < t.at
         /\ Allocated(t.alloc) /\ Extends(s.alloc, t.alloc)
         /\ \E q \in DOMAIN t.alloc.paths \ {<<>>} :
              /\ t.alloc.paths[q] = t.at
              /\ q[Len(q)] = Key(disambiguate(s.nodes, s.at, r))
              /\ t.alloc.paths[Front(q)] = s.at
  <1> DEFINE T == s.nodes
             a == s.alloc
             d == s.at
             name == disambiguate(T, d, r)
             full == Append(path_of(T, d), name)
             b == intern(a, full)
             i == InodeOf(b, full)
             node == [parent |-> d, name |-> name, rendered |-> r, track |-> track]
             q == AllocKey(full)
             t == Grow(s, r, track)
  <1>1. WellFormed(T) /\ Allocated(a) /\ Interned(T, a) /\ d \in DOMAIN T
    BY DEF StateOK, Sound, AtDir
  <1>2. name \in Names \ Dots /\ ~taken(T, d, name)
    BY <1>1, DisambiguateFree
  <1>3. t = [nodes |-> Put(T, i, node), alloc |-> b, at |-> i]
    BY DEF Grow
  <1>4. /\ path_of(T, d) \in Seq(Names) /\ AllocKey(path_of(T, d)) \in DOMAIN a.paths
        /\ a.paths[AllocKey(path_of(T, d))] = d
    BY <1>1, NumberOfPath
  <1> HIDE DEF name
  <1>5. q = Append(AllocKey(path_of(T, d)), Key(name))
    BY <1>2, <1>4, AllocKeyAppend
  <1> DEFINE up == AllocKey(path_of(T, d))
             k == Key(name)
  <1>6. up \in Seq(Names) /\ k \in Names
    BY <1>2, <1>4, AllocKeyAppend, KeyType
  <1>7. q \in Seq(Names) /\ q # <<>> /\ Front(q) = up /\ q[Len(q)] = k
    <2> HIDE DEF up, k, q
    <2>1. q = Append(up, k)
      BY <1>5 DEF up, k
    <2> QED
      BY <1>6, <2>1, FrontAppend
  <1> HIDE DEF q, up, k
  <1>8. /\ Allocated(b) /\ Extends(a, b) /\ q \in DOMAIN b.paths /\ i = b.paths[q] /\ i \in Nat
    BY <1>1, <1>4, <1>7, InternOK DEF q, up
  <1> HIDE DEF b, i
  <1>9. b.paths[Front(q)] = d /\ d < i
    <2>1. b.paths[up] = a.paths[up] /\ a.paths[up] = d
      BY <1>4, <1>8 DEF Extends, up
    <2> QED
      BY <1>7, <1>8, <2>1 DEF Allocated
  <1>10. i \notin DOMAIN T
    <2> SUFFICES ASSUME i \in DOMAIN T PROVE FALSE
      OBVIOUS
    <2>1. i # ROOT
      BY <1>7, <1>8 DEF Allocated
    <2>2. Interned(T, b)
      BY <1>1, <1>8, InternedMono
    <2>3. PICK p \in DOMAIN b.paths \ {<<>>} :
             b.paths[p] = i /\ p[Len(p)] = Key(T[i].name) /\ b.paths[Front(p)] = T[i].parent
      BY <2>1, <2>2 DEF Interned
    <2>4. p = q
      BY <1>8, <2>3 DEF Allocated
    <2>5. i \in Kids(T, d) /\ Key(T[i].name) = Key(name)
      BY <1>7, <1>9, <2>1, <2>3, <2>4 DEF Kids, k
    <2> QED
      BY <1>2, <2>5 DEF taken
  <1>11. t.nodes = Put(T, i, node) /\ t.alloc = b /\ t.at = i
    BY <1>3 DEF b, i
  <1>12. t.nodes[i] = node
    BY <1>11 DEF Put
  <1> QED
    BY <1>7, <1>8, <1>9, <1>10, <1>11, <1>12 DEF k, name

\* A new child keeps the tree sound, if no directory is made for a component
\* that has one and no file for a track that has one.
LEMMA GrowSound ==
  ASSUME NEW s, StateOK(s), AtDir(s), NEW r \in Names \ Dots, NEW track \in Nat,
         track = Dir => dir_child_named(s.nodes, s.at, r) = {},
         track # Dir => track \notin TrackIds(s.nodes)
  PROVE  LET t == Grow(s, r, track) IN
         /\ StateOK(t) /\ Extends(s.alloc, t.alloc)
         /\ DOMAIN t.nodes = DOMAIN s.nodes \cup {t.at} /\ Within(s.nodes, t.nodes)
         /\ t.at \notin DOMAIN s.nodes /\ t.at # ROOT
         /\ t.nodes[t.at].parent = s.at /\ t.nodes[t.at].track = track
         /\ t.nodes[t.at].rendered = r
  <1> DEFINE t == Grow(s, r, track)
             T == s.nodes
             U == t.nodes
             d == s.at
             i == t.at
             name == disambiguate(T, d, r)
  <1>1. WellFormed(T) /\ UniqueNames(T) /\ OneDirPerRendering(T) /\ OneFilePerTrack(T)
        /\ d \in DOMAIN T /\ IsDir(T, d) /\ Interned(T, s.alloc) /\ Allocated(s.alloc)
    BY DEF StateOK, Sound, AtDir
  <1>2. name \in Names \ Dots /\ ~taken(T, d, name)
    BY <1>1, DisambiguateFree
  <1>3. /\ U = Put(T, i, U[i])
        /\ U[i] = [parent |-> d, name |-> name, rendered |-> r, track |-> track]
        /\ i \notin DOMAIN T /\ i \in Nat /\ d < i
        /\ Allocated(t.alloc) /\ Extends(s.alloc, t.alloc)
        /\ \E q \in DOMAIN t.alloc.paths \ {<<>>} :
             t.alloc.paths[q] = i /\ q[Len(q)] = Key(name) /\ t.alloc.paths[Front(q)] = d
    BY GrowNumber
  <1>4. /\ U[i].parent = d /\ U[i].name = name /\ U[i].rendered = r /\ U[i].track = track
        /\ DOMAIN U = DOMAIN T \cup {i}
        /\ \A j \in DOMAIN T : U[j] = T[j] /\ j # i
        /\ U = [j \in DOMAIN U |-> U[j]]
    <2>1. U[i].parent = d /\ U[i].name = name /\ U[i].rendered = r /\ U[i].track = track
      BY <1>3
    <2> HIDE DEF U, i, t
    <2> QED
      BY <1>3, <2>1 DEF Put
  <1> HIDE DEF t, name
  <1>5. ROOT \in DOMAIN T /\ i # ROOT
    BY <1>1, <1>3 DEF WellFormed
  <1>6. WellFormed(U)
    <2>1. IsFiniteSet(DOMAIN U) /\ DOMAIN U \subseteq Nat /\ ROOT \in DOMAIN U
      BY <1>1, <1>3, <1>4, FS_AddElement DEF WellFormed
    <2>2. U[ROOT].parent = ROOT /\ IsDir(U, ROOT)
      BY <1>1, <1>4 DEF WellFormed, IsDir
    <2>3. ASSUME NEW j \in DOMAIN U \ {ROOT}
          PROVE  /\ U[j].parent \in DOMAIN U /\ IsDir(U, U[j].parent) /\ U[j].parent < j
                 /\ U[j].name \in Names \ Dots /\ U[j].rendered \in Names /\ U[j].track \in Nat
      <3>1. CASE j = i
        BY <1>1, <1>2, <1>3, <1>4, <3>1 DEF IsDir
      <3>2. CASE j # i
        BY <1>1, <1>4, <2>3, <3>2 DEF WellFormed, IsDir
      <3> QED
        BY <3>1, <3>2
    <2> QED
      BY <1>4, <2>1, <2>2, <2>3 DEF WellFormed
  <1>7. UniqueNames(U)
    <2>1. ASSUME NEW j \in DOMAIN T \ {ROOT}, T[j].parent = d PROVE Key(T[j].name) # Key(name)
      BY <1>2, <2>1 DEF taken, Kids
    <2>2. d = ROOT => Key(name) \notin Reserved
      BY <1>2 DEF taken
    <2>3. ASSUME NEW j \in DOMAIN U \ {ROOT}, NEW k \in DOMAIN U \ {ROOT}
          PROVE  /\ U[j].parent = ROOT => Key(U[j].name) \notin Reserved
                 /\ (j # k /\ U[j].parent = U[k].parent) => Key(U[j].name) # Key(U[k].name)
      <3>1. U[j].parent = ROOT => Key(U[j].name) \notin Reserved
        BY <1>1, <1>4, <2>2, <2>3 DEF UniqueNames
      <3>2. (j # k /\ U[j].parent = U[k].parent) => Key(U[j].name) # Key(U[k].name)
        BY <1>1, <1>4, <2>1, <2>3 DEF UniqueNames
      <3> QED
        BY <3>1, <3>2
    <2> QED
      BY <2>3 DEF UniqueNames
  <1>8. OneDirPerRendering(U)
    <2>1. ASSUME NEW j \in DOMAIN T \ {ROOT}, T[j].parent = d, IsDir(T, j), track = Dir
          PROVE  Key(T[j].rendered) # Key(r)
      BY <2>1 DEF dir_child_named, Kids
    <2> QED
      BY <1>1, <1>4, <2>1 DEF OneDirPerRendering, IsDir
  <1>9. OneFilePerTrack(U)
    <2>1. ASSUME NEW j \in DOMAIN T, track # Dir PROVE T[j].track # track
      BY <2>1 DEF TrackIds
    <2> QED
      BY <1>1, <1>4, <2>1 DEF OneFilePerTrack, IsDir
  <1>10. Interned(U, t.alloc)
    <2>1. Interned(T, t.alloc)
      BY <1>1, <1>3, InternedMono
    <2>2. ASSUME NEW j \in DOMAIN U \ {ROOT}
          PROVE  \E q \in DOMAIN t.alloc.paths \ {<<>>} :
                   /\ t.alloc.paths[q] = j /\ q[Len(q)] = Key(U[j].name)
                   /\ t.alloc.paths[Front(q)] = U[j].parent
      <3>1. CASE j = i
        BY <1>3, <1>4, <3>1
      <3>2. CASE j # i
        <4>1. j \in DOMAIN T \ {ROOT} /\ U[j] = T[j]
          BY <1>4, <3>2
        <4> QED
          BY <2>1, <4>1 DEF Interned
      <3> QED
        BY <3>1, <3>2
    <2> QED
      BY <2>2 DEF Interned
  <1>11. StateOK(t) /\ Within(T, U)
    BY <1>3, <1>4, <1>6, <1>7, <1>8, <1>9, <1>10 DEF StateOK, Sound, Within
  <1> QED
    BY <1>3, <1>4, <1>5, <1>11 DEF t

(***************************************************************************)
(* Loops.  A loop is a recursive function of its rounds; for each, that    *)
(* the function exists and what its rounds are.                            *)
(***************************************************************************)

\* path_components, one component at a time.
KeptRound(x, p, n) == IF p[n] \in Dots THEN x ELSE Append(x, p[n])
KeptStart(p) == <<>>
KeptEntry(g, p, n) == IF n = 0 THEN KeptStart(p) ELSE KeptRound(g[n-1], p, n)
KeptIs(g, p) == g = [n \in 0..(Len(p)) |-> KeptEntry(g, p, n)]

LEMMA KeptTable ==
  ASSUME NEW p, Len(p) \in Nat
  PROVE  \E g : KeptIs(g, p)
  <1> DEFINE S == {n \in Nat : \E g : \A m \in 0..n : g[m] = KeptEntry(g, p, m)}
  <1>1. 0 \in S
    <2> DEFINE g == [m \in {0} |-> KeptStart(p)]
    <2>1. \A m \in 0..0 : g[m] = KeptEntry(g, p, m)
      BY DEF KeptEntry
    <2> HIDE DEF g
    <2> QED
      BY <2>1
  <1>2. ASSUME NEW n \in Nat, n \in S PROVE n + 1 \in S
    <2>1. PICK g : \A m \in 0..n : g[m] = KeptEntry(g, p, m)
      BY <1>2
    <2> DEFINE h == [m \in 0..(n + 1) |-> IF m = n + 1 THEN KeptEntry(g, p, m) ELSE g[m]]
    <2>2. \A m \in 0..(n + 1) : h[m] = IF m = n + 1 THEN KeptEntry(g, p, m) ELSE g[m]
      OBVIOUS
    <2> HIDE DEF h
    <2>3. \A m \in 0..(n + 1) : m # 0 => m - 1 \in 0..(n + 1) /\ m - 1 # n + 1 /\ h[m - 1] = g[m - 1]
      BY <2>2
    <2>4. \A m \in 0..(n + 1) : KeptEntry(h, p, m) = KeptEntry(g, p, m)
      BY <2>3 DEF KeptEntry
    <2>5. \A m \in 0..(n + 1) : m # n + 1 => m \in 0..n
      OBVIOUS
    <2>6. \A m \in 0..(n + 1) : h[m] = KeptEntry(h, p, m)
      BY <2>1, <2>2, <2>4, <2>5
    <2> QED
      BY <2>6
  <1>3. Len(p) \in S
    <2> HIDE DEF S
    <2> QED
      BY <1>1, <1>2, Climb
  <1>4. PICK g : \A m \in 0..(Len(p)) : g[m] = KeptEntry(g, p, m)
    BY <1>3
  <1> DEFINE h == [m \in 0..(Len(p)) |-> g[m]]
  <1>5. h = [m \in 0..(Len(p)) |-> h[m]] /\ \A m \in 0..(Len(p)) : h[m] = g[m]
    OBVIOUS
  <1> HIDE DEF h
  <1>6. \A m \in 0..(Len(p)) : m # 0 => m - 1 \in 0..(Len(p))
    OBVIOUS
  <1>7. \A m \in 0..(Len(p)) : KeptEntry(h, p, m) = KeptEntry(g, p, m)
    BY <1>5, <1>6 DEF KeptEntry
  <1>8. h = [m \in 0..(Len(p)) |-> KeptEntry(h, p, m)]
    BY <1>4, <1>5, <1>7
  <1> QED
    BY <1>8 DEF KeptIs

\* What path_components returns after the last component.
KeptRuns(g, p) ==
    /\ path_components(p) = g[Len(p)] /\ g[0] = KeptStart(p)
    /\ \A n \in 1..(Len(p)) : g[n] = KeptRound(g[n-1], p, n)

LEMMA KeptUnfolds ==
  ASSUME NEW p, Len(p) \in Nat
  PROVE  \E g : KeptRuns(g, p)
  <1> DEFINE h == CHOOSE g : KeptIs(g, p)
  <1>1. path_components(p) = h[Len(p)]
    BY DEF path_components, KeptIs, KeptEntry, KeptStart, KeptRound
  <1>2. KeptIs(h, p)
    BY KeptTable
  <1> HIDE DEF h
  <1>3. \A n \in 0..(Len(p)) : h[n] = KeptEntry(h, p, n)
    BY <1>2 DEF KeptIs
  <1>4. h[0] = KeptStart(p)
    BY <1>3 DEF KeptEntry
  <1>5. \A n \in 1..(Len(p)) : n \in 0..(Len(p)) /\ n # 0
    OBVIOUS
  <1>6. \A n \in 1..(Len(p)) : h[n] = KeptRound(h[n-1], p, n)
    BY <1>3, <1>5 DEF KeptEntry
  <1> QED
    BY <1>1, <1>4, <1>6 DEF KeptRuns

\* ensure_dirs, one component at a time.
DownRound(x, s, comps, n) == ensure_dir(x, comps[n])
DownStart(s, comps) == At(s, ROOT)
DownEntry(g, s, comps, n) == IF n = 0 THEN DownStart(s, comps) ELSE DownRound(g[n-1], s, comps, n)
DownIs(g, s, comps) == g = [n \in 0..(Len(comps) - 1) |-> DownEntry(g, s, comps, n)]

LEMMA DownTable ==
  ASSUME NEW s, NEW comps, Len(comps) - 1 \in Nat
  PROVE  \E g : DownIs(g, s, comps)
  <1> DEFINE S == {n \in Nat : \E g : \A m \in 0..n : g[m] = DownEntry(g, s, comps, m)}
  <1>1. 0 \in S
    <2> DEFINE g == [m \in {0} |-> DownStart(s, comps)]
    <2>1. \A m \in 0..0 : g[m] = DownEntry(g, s, comps, m)
      BY DEF DownEntry
    <2> HIDE DEF g
    <2> QED
      BY <2>1
  <1>2. ASSUME NEW n \in Nat, n \in S PROVE n + 1 \in S
    <2>1. PICK g : \A m \in 0..n : g[m] = DownEntry(g, s, comps, m)
      BY <1>2
    <2> DEFINE h == [m \in 0..(n + 1) |-> IF m = n + 1 THEN DownEntry(g, s, comps, m) ELSE g[m]]
    <2>2. \A m \in 0..(n + 1) : h[m] = IF m = n + 1 THEN DownEntry(g, s, comps, m) ELSE g[m]
      OBVIOUS
    <2> HIDE DEF h
    <2>3. \A m \in 0..(n + 1) : m # 0 => m - 1 \in 0..(n + 1) /\ m - 1 # n + 1 /\ h[m - 1] = g[m - 1]
      BY <2>2
    <2>4. \A m \in 0..(n + 1) : DownEntry(h, s, comps, m) = DownEntry(g, s, comps, m)
      BY <2>3 DEF DownEntry
    <2>5. \A m \in 0..(n + 1) : m # n + 1 => m \in 0..n
      OBVIOUS
    <2>6. \A m \in 0..(n + 1) : h[m] = DownEntry(h, s, comps, m)
      BY <2>1, <2>2, <2>4, <2>5
    <2> QED
      BY <2>6
  <1>3. Len(comps) - 1 \in S
    <2> HIDE DEF S
    <2> QED
      BY <1>1, <1>2, Climb
  <1>4. PICK g : \A m \in 0..(Len(comps) - 1) : g[m] = DownEntry(g, s, comps, m)
    BY <1>3
  <1> DEFINE h == [m \in 0..(Len(comps) - 1) |-> g[m]]
  <1>5. h = [m \in 0..(Len(comps) - 1) |-> h[m]] /\ \A m \in 0..(Len(comps) - 1) : h[m] = g[m]
    OBVIOUS
  <1> HIDE DEF h
  <1>6. \A m \in 0..(Len(comps) - 1) : m # 0 => m - 1 \in 0..(Len(comps) - 1)
    OBVIOUS
  <1>7. \A m \in 0..(Len(comps) - 1) : DownEntry(h, s, comps, m) = DownEntry(g, s, comps, m)
    BY <1>5, <1>6 DEF DownEntry
  <1>8. h = [m \in 0..(Len(comps) - 1) |-> DownEntry(h, s, comps, m)]
    BY <1>4, <1>5, <1>7
  <1> QED
    BY <1>8 DEF DownIs

\* Where ensure_dirs ends.
DownRuns(g, s, comps) ==
    /\ ensure_dirs(s, comps) = g[Len(comps) - 1] /\ g[0] = DownStart(s, comps)
    /\ \A n \in 1..(Len(comps) - 1) : g[n] = DownRound(g[n-1], s, comps, n)

LEMMA DownUnfolds ==
  ASSUME NEW s, NEW comps, Len(comps) - 1 \in Nat
  PROVE  \E g : DownRuns(g, s, comps)
  <1> DEFINE h == CHOOSE g : DownIs(g, s, comps)
  <1>1. ensure_dirs(s, comps) = h[Len(comps) - 1]
    BY DEF ensure_dirs, DownIs, DownEntry, DownStart, DownRound
  <1>2. DownIs(h, s, comps)
    BY DownTable
  <1> HIDE DEF h
  <1>3. \A n \in 0..(Len(comps) - 1) : h[n] = DownEntry(h, s, comps, n)
    BY <1>2 DEF DownIs
  <1>4. h[0] = DownStart(s, comps)
    BY <1>3 DEF DownEntry
  <1>5. \A n \in 1..(Len(comps) - 1) : n \in 0..(Len(comps) - 1) /\ n # 0
    OBVIOUS
  <1>6. \A n \in 1..(Len(comps) - 1) : h[n] = DownRound(h[n-1], s, comps, n)
    BY <1>3, <1>5 DEF DownEntry
  <1> QED
    BY <1>1, <1>4, <1>6 DEF DownRuns

\* InsertAll, one track at a time.
InsertRound(x, s, ids, new, n) == IF n \in ids THEN insert_file(x, n, new[n]) ELSE x
InsertStart(s, ids, new) == s
InsertEntry(g, s, ids, new, n) == IF n = 0 THEN InsertStart(s, ids, new) ELSE InsertRound(g[n-1], s, ids, new, n)
InsertIs(g, s, ids, new) == g = [n \in 0..(MaxTrack) |-> InsertEntry(g, s, ids, new, n)]

LEMMA InsertTable ==
  ASSUME NEW s, NEW ids, NEW new, MaxTrack \in Nat
  PROVE  \E g : InsertIs(g, s, ids, new)
  <1> DEFINE S == {n \in Nat : \E g : \A m \in 0..n : g[m] = InsertEntry(g, s, ids, new, m)}
  <1>1. 0 \in S
    <2> DEFINE g == [m \in {0} |-> InsertStart(s, ids, new)]
    <2>1. \A m \in 0..0 : g[m] = InsertEntry(g, s, ids, new, m)
      BY DEF InsertEntry
    <2> HIDE DEF g
    <2> QED
      BY <2>1
  <1>2. ASSUME NEW n \in Nat, n \in S PROVE n + 1 \in S
    <2>1. PICK g : \A m \in 0..n : g[m] = InsertEntry(g, s, ids, new, m)
      BY <1>2
    <2> DEFINE h == [m \in 0..(n + 1) |-> IF m = n + 1 THEN InsertEntry(g, s, ids, new, m) ELSE g[m]]
    <2>2. \A m \in 0..(n + 1) : h[m] = IF m = n + 1 THEN InsertEntry(g, s, ids, new, m) ELSE g[m]
      OBVIOUS
    <2> HIDE DEF h
    <2>3. \A m \in 0..(n + 1) : m # 0 => m - 1 \in 0..(n + 1) /\ m - 1 # n + 1 /\ h[m - 1] = g[m - 1]
      BY <2>2
    <2>4. \A m \in 0..(n + 1) : InsertEntry(h, s, ids, new, m) = InsertEntry(g, s, ids, new, m)
      BY <2>3 DEF InsertEntry
    <2>5. \A m \in 0..(n + 1) : m # n + 1 => m \in 0..n
      OBVIOUS
    <2>6. \A m \in 0..(n + 1) : h[m] = InsertEntry(h, s, ids, new, m)
      BY <2>1, <2>2, <2>4, <2>5
    <2> QED
      BY <2>6
  <1>3. MaxTrack \in S
    <2> HIDE DEF S
    <2> QED
      BY <1>1, <1>2, Climb
  <1>4. PICK g : \A m \in 0..(MaxTrack) : g[m] = InsertEntry(g, s, ids, new, m)
    BY <1>3
  <1> DEFINE h == [m \in 0..(MaxTrack) |-> g[m]]
  <1>5. h = [m \in 0..(MaxTrack) |-> h[m]] /\ \A m \in 0..(MaxTrack) : h[m] = g[m]
    OBVIOUS
  <1> HIDE DEF h
  <1>6. \A m \in 0..(MaxTrack) : m # 0 => m - 1 \in 0..(MaxTrack)
    OBVIOUS
  <1>7. \A m \in 0..(MaxTrack) : InsertEntry(h, s, ids, new, m) = InsertEntry(g, s, ids, new, m)
    BY <1>5, <1>6 DEF InsertEntry
  <1>8. h = [m \in 0..(MaxTrack) |-> InsertEntry(h, s, ids, new, m)]
    BY <1>4, <1>5, <1>7
  <1> QED
    BY <1>8 DEF InsertIs

\* What InsertAll returns after the last track.
InsertRuns(g, s, ids, new) ==
    /\ InsertAll(s, ids, new) = g[MaxTrack] /\ g[0] = InsertStart(s, ids, new)
    /\ \A n \in 1..(MaxTrack) : g[n] = InsertRound(g[n-1], s, ids, new, n)

LEMMA InsertUnfolds ==
  ASSUME NEW s, NEW ids, NEW new, MaxTrack \in Nat
  PROVE  \E g : InsertRuns(g, s, ids, new)
  <1> DEFINE h == CHOOSE g : InsertIs(g, s, ids, new)
  <1>1. InsertAll(s, ids, new) = h[MaxTrack]
    BY DEF InsertAll, InsertIs, InsertEntry, InsertStart, InsertRound
  <1>2. InsertIs(h, s, ids, new)
    BY InsertTable
  <1> HIDE DEF h
  <1>3. \A n \in 0..(MaxTrack) : h[n] = InsertEntry(h, s, ids, new, n)
    BY <1>2 DEF InsertIs
  <1>4. h[0] = InsertStart(s, ids, new)
    BY <1>3 DEF InsertEntry
  <1>5. \A n \in 1..(MaxTrack) : n \in 0..(MaxTrack) /\ n # 0
    OBVIOUS
  <1>6. \A n \in 1..(MaxTrack) : h[n] = InsertRound(h[n-1], s, ids, new, n)
    BY <1>3, <1>5 DEF InsertEntry
  <1> QED
    BY <1>1, <1>4, <1>6 DEF InsertRuns

\* prune_empty_dirs_upward, one directory at a time.
PruneRound(x, T, d, n) == PruneEmpty(x)
PruneStart(T, d) == [nodes |-> T, survivor |-> d, pruned |-> None]
PruneEntry(g, T, d, n) == IF n = 0 THEN PruneStart(T, d) ELSE PruneRound(g[n-1], T, d, n)
PruneIs(g, T, d) == g = [n \in 0..(d) |-> PruneEntry(g, T, d, n)]

LEMMA PruneTable ==
  ASSUME NEW T, NEW d, d \in Nat
  PROVE  \E g : PruneIs(g, T, d)
  <1> DEFINE S == {n \in Nat : \E g : \A m \in 0..n : g[m] = PruneEntry(g, T, d, m)}
  <1>1. 0 \in S
    <2> DEFINE g == [m \in {0} |-> PruneStart(T, d)]
    <2>1. \A m \in 0..0 : g[m] = PruneEntry(g, T, d, m)
      BY DEF PruneEntry
    <2> HIDE DEF g
    <2> QED
      BY <2>1
  <1>2. ASSUME NEW n \in Nat, n \in S PROVE n + 1 \in S
    <2>1. PICK g : \A m \in 0..n : g[m] = PruneEntry(g, T, d, m)
      BY <1>2
    <2> DEFINE h == [m \in 0..(n + 1) |-> IF m = n + 1 THEN PruneEntry(g, T, d, m) ELSE g[m]]
    <2>2. \A m \in 0..(n + 1) : h[m] = IF m = n + 1 THEN PruneEntry(g, T, d, m) ELSE g[m]
      OBVIOUS
    <2> HIDE DEF h
    <2>3. \A m \in 0..(n + 1) : m # 0 => m - 1 \in 0..(n + 1) /\ m - 1 # n + 1 /\ h[m - 1] = g[m - 1]
      BY <2>2
    <2>4. \A m \in 0..(n + 1) : PruneEntry(h, T, d, m) = PruneEntry(g, T, d, m)
      BY <2>3 DEF PruneEntry
    <2>5. \A m \in 0..(n + 1) : m # n + 1 => m \in 0..n
      OBVIOUS
    <2>6. \A m \in 0..(n + 1) : h[m] = PruneEntry(h, T, d, m)
      BY <2>1, <2>2, <2>4, <2>5
    <2> QED
      BY <2>6
  <1>3. d \in S
    <2> HIDE DEF S
    <2> QED
      BY <1>1, <1>2, Climb
  <1>4. PICK g : \A m \in 0..(d) : g[m] = PruneEntry(g, T, d, m)
    BY <1>3
  <1> DEFINE h == [m \in 0..(d) |-> g[m]]
  <1>5. h = [m \in 0..(d) |-> h[m]] /\ \A m \in 0..(d) : h[m] = g[m]
    OBVIOUS
  <1> HIDE DEF h
  <1>6. \A m \in 0..(d) : m # 0 => m - 1 \in 0..(d)
    OBVIOUS
  <1>7. \A m \in 0..(d) : PruneEntry(h, T, d, m) = PruneEntry(g, T, d, m)
    BY <1>5, <1>6 DEF PruneEntry
  <1>8. h = [m \in 0..(d) |-> PruneEntry(h, T, d, m)]
    BY <1>4, <1>5, <1>7
  <1> QED
    BY <1>8 DEF PruneIs

\* Where prune_empty_dirs_upward ends.
PruneRuns(g, T, d) ==
    /\ prune_empty_dirs_upward(T, d) = g[d] /\ g[0] = PruneStart(T, d)
    /\ \A n \in 1..(d) : g[n] = PruneRound(g[n-1], T, d, n)

LEMMA PruneUnfolds ==
  ASSUME NEW T, NEW d, d \in Nat
  PROVE  \E g : PruneRuns(g, T, d)
  <1> DEFINE h == CHOOSE g : PruneIs(g, T, d)
  <1>1. prune_empty_dirs_upward(T, d) = h[d]
    BY DEF prune_empty_dirs_upward, PruneIs, PruneEntry, PruneStart, PruneRound
  <1>2. PruneIs(h, T, d)
    BY PruneTable
  <1> HIDE DEF h
  <1>3. \A n \in 0..(d) : h[n] = PruneEntry(h, T, d, n)
    BY <1>2 DEF PruneIs
  <1>4. h[0] = PruneStart(T, d)
    BY <1>3 DEF PruneEntry
  <1>5. \A n \in 1..(d) : n \in 0..(d) /\ n # 0
    OBVIOUS
  <1>6. \A n \in 1..(d) : h[n] = PruneRound(h[n-1], T, d, n)
    BY <1>3, <1>5 DEF PruneEntry
  <1> QED
    BY <1>1, <1>4, <1>6 DEF PruneRuns

\* RemoveAll, one track at a time.
RemoveRound(x, s, ids, n) == IF n \in ids THEN RemoveGated(x, n) ELSE x
RemoveStart(s, ids) == s
RemoveEntry(g, s, ids, n) == IF n = 0 THEN RemoveStart(s, ids) ELSE RemoveRound(g[n-1], s, ids, n)
RemoveIs(g, s, ids) == g = [n \in 0..(MaxTrack) |-> RemoveEntry(g, s, ids, n)]

LEMMA RemoveTable ==
  ASSUME NEW s, NEW ids, MaxTrack \in Nat
  PROVE  \E g : RemoveIs(g, s, ids)
  <1> DEFINE S == {n \in Nat : \E g : \A m \in 0..n : g[m] = RemoveEntry(g, s, ids, m)}
  <1>1. 0 \in S
    <2> DEFINE g == [m \in {0} |-> RemoveStart(s, ids)]
    <2>1. \A m \in 0..0 : g[m] = RemoveEntry(g, s, ids, m)
      BY DEF RemoveEntry
    <2> HIDE DEF g
    <2> QED
      BY <2>1
  <1>2. ASSUME NEW n \in Nat, n \in S PROVE n + 1 \in S
    <2>1. PICK g : \A m \in 0..n : g[m] = RemoveEntry(g, s, ids, m)
      BY <1>2
    <2> DEFINE h == [m \in 0..(n + 1) |-> IF m = n + 1 THEN RemoveEntry(g, s, ids, m) ELSE g[m]]
    <2>2. \A m \in 0..(n + 1) : h[m] = IF m = n + 1 THEN RemoveEntry(g, s, ids, m) ELSE g[m]
      OBVIOUS
    <2> HIDE DEF h
    <2>3. \A m \in 0..(n + 1) : m # 0 => m - 1 \in 0..(n + 1) /\ m - 1 # n + 1 /\ h[m - 1] = g[m - 1]
      BY <2>2
    <2>4. \A m \in 0..(n + 1) : RemoveEntry(h, s, ids, m) = RemoveEntry(g, s, ids, m)
      BY <2>3 DEF RemoveEntry
    <2>5. \A m \in 0..(n + 1) : m # n + 1 => m \in 0..n
      OBVIOUS
    <2>6. \A m \in 0..(n + 1) : h[m] = RemoveEntry(h, s, ids, m)
      BY <2>1, <2>2, <2>4, <2>5
    <2> QED
      BY <2>6
  <1>3. MaxTrack \in S
    <2> HIDE DEF S
    <2> QED
      BY <1>1, <1>2, Climb
  <1>4. PICK g : \A m \in 0..(MaxTrack) : g[m] = RemoveEntry(g, s, ids, m)
    BY <1>3
  <1> DEFINE h == [m \in 0..(MaxTrack) |-> g[m]]
  <1>5. h = [m \in 0..(MaxTrack) |-> h[m]] /\ \A m \in 0..(MaxTrack) : h[m] = g[m]
    OBVIOUS
  <1> HIDE DEF h
  <1>6. \A m \in 0..(MaxTrack) : m # 0 => m - 1 \in 0..(MaxTrack)
    OBVIOUS
  <1>7. \A m \in 0..(MaxTrack) : RemoveEntry(h, s, ids, m) = RemoveEntry(g, s, ids, m)
    BY <1>5, <1>6 DEF RemoveEntry
  <1>8. h = [m \in 0..(MaxTrack) |-> RemoveEntry(h, s, ids, m)]
    BY <1>4, <1>5, <1>7
  <1> QED
    BY <1>8 DEF RemoveIs

\* What RemoveAll returns after the last track.
RemoveRuns(g, s, ids) ==
    /\ RemoveAll(s, ids) = g[MaxTrack] /\ g[0] = RemoveStart(s, ids)
    /\ \A n \in 1..(MaxTrack) : g[n] = RemoveRound(g[n-1], s, ids, n)

LEMMA RemoveUnfolds ==
  ASSUME NEW s, NEW ids, MaxTrack \in Nat
  PROVE  \E g : RemoveRuns(g, s, ids)
  <1> DEFINE h == CHOOSE g : RemoveIs(g, s, ids)
  <1>1. RemoveAll(s, ids) = h[MaxTrack]
    BY DEF RemoveAll, RemoveIs, RemoveEntry, RemoveStart, RemoveRound
  <1>2. RemoveIs(h, s, ids)
    BY RemoveTable
  <1> HIDE DEF h
  <1>3. \A n \in 0..(MaxTrack) : h[n] = RemoveEntry(h, s, ids, n)
    BY <1>2 DEF RemoveIs
  <1>4. h[0] = RemoveStart(s, ids)
    BY <1>3 DEF RemoveEntry
  <1>5. \A n \in 1..(MaxTrack) : n \in 0..(MaxTrack) /\ n # 0
    OBVIOUS
  <1>6. \A n \in 1..(MaxTrack) : h[n] = RemoveRound(h[n-1], s, ids, n)
    BY <1>3, <1>5 DEF RemoveEntry
  <1> QED
    BY <1>1, <1>4, <1>6 DEF RemoveRuns

\* RebuildAll, one dirty directory at a time.
RebuildRound(x, s, new, n) == RebuildDirty(x, s.nodes, new)
RebuildStart(s, new) == s
RebuildEntry(g, s, new, n) == IF n = 0 THEN RebuildStart(s, new) ELSE RebuildRound(g[n-1], s, new, n)
RebuildIs(g, s, new) == g = [n \in 0..(Cardinality(s.live)) |-> RebuildEntry(g, s, new, n)]

LEMMA RebuildTable ==
  ASSUME NEW s, NEW new, Cardinality(s.live) \in Nat
  PROVE  \E g : RebuildIs(g, s, new)
  <1> DEFINE S == {n \in Nat : \E g : \A m \in 0..n : g[m] = RebuildEntry(g, s, new, m)}
  <1>1. 0 \in S
    <2> DEFINE g == [m \in {0} |-> RebuildStart(s, new)]
    <2>1. \A m \in 0..0 : g[m] = RebuildEntry(g, s, new, m)
      BY DEF RebuildEntry
    <2> HIDE DEF g
    <2> QED
      BY <2>1
  <1>2. ASSUME NEW n \in Nat, n \in S PROVE n + 1 \in S
    <2>1. PICK g : \A m \in 0..n : g[m] = RebuildEntry(g, s, new, m)
      BY <1>2
    <2> DEFINE h == [m \in 0..(n + 1) |-> IF m = n + 1 THEN RebuildEntry(g, s, new, m) ELSE g[m]]
    <2>2. \A m \in 0..(n + 1) : h[m] = IF m = n + 1 THEN RebuildEntry(g, s, new, m) ELSE g[m]
      OBVIOUS
    <2> HIDE DEF h
    <2>3. \A m \in 0..(n + 1) : m # 0 => m - 1 \in 0..(n + 1) /\ m - 1 # n + 1 /\ h[m - 1] = g[m - 1]
      BY <2>2
    <2>4. \A m \in 0..(n + 1) : RebuildEntry(h, s, new, m) = RebuildEntry(g, s, new, m)
      BY <2>3 DEF RebuildEntry
    <2>5. \A m \in 0..(n + 1) : m # n + 1 => m \in 0..n
      OBVIOUS
    <2>6. \A m \in 0..(n + 1) : h[m] = RebuildEntry(h, s, new, m)
      BY <2>1, <2>2, <2>4, <2>5
    <2> QED
      BY <2>6
  <1>3. Cardinality(s.live) \in S
    <2> HIDE DEF S
    <2> QED
      BY <1>1, <1>2, Climb
  <1>4. PICK g : \A m \in 0..(Cardinality(s.live)) : g[m] = RebuildEntry(g, s, new, m)
    BY <1>3
  <1> DEFINE h == [m \in 0..(Cardinality(s.live)) |-> g[m]]
  <1>5. h = [m \in 0..(Cardinality(s.live)) |-> h[m]] /\ \A m \in 0..(Cardinality(s.live)) : h[m] = g[m]
    OBVIOUS
  <1> HIDE DEF h
  <1>6. \A m \in 0..(Cardinality(s.live)) : m # 0 => m - 1 \in 0..(Cardinality(s.live))
    OBVIOUS
  <1>7. \A m \in 0..(Cardinality(s.live)) : RebuildEntry(h, s, new, m) = RebuildEntry(g, s, new, m)
    BY <1>5, <1>6 DEF RebuildEntry
  <1>8. h = [m \in 0..(Cardinality(s.live)) |-> RebuildEntry(h, s, new, m)]
    BY <1>4, <1>5, <1>7
  <1> QED
    BY <1>8 DEF RebuildIs

\* What RebuildAll returns when no dirty directory is left.
RebuildRuns(g, s, new) ==
    /\ RebuildAll(s, new) = g[Cardinality(s.live)] /\ g[0] = RebuildStart(s, new)
    /\ \A n \in 1..(Cardinality(s.live)) : g[n] = RebuildRound(g[n-1], s, new, n)

LEMMA RebuildUnfolds ==
  ASSUME NEW s, NEW new, Cardinality(s.live) \in Nat
  PROVE  \E g : RebuildRuns(g, s, new)
  <1> DEFINE h == CHOOSE g : RebuildIs(g, s, new)
  <1>1. RebuildAll(s, new) = h[Cardinality(s.live)]
    BY DEF RebuildAll, RebuildIs, RebuildEntry, RebuildStart, RebuildRound
  <1>2. RebuildIs(h, s, new)
    BY RebuildTable
  <1> HIDE DEF h
  <1>3. \A n \in 0..(Cardinality(s.live)) : h[n] = RebuildEntry(h, s, new, n)
    BY <1>2 DEF RebuildIs
  <1>4. h[0] = RebuildStart(s, new)
    BY <1>3 DEF RebuildEntry
  <1>5. \A n \in 1..(Cardinality(s.live)) : n \in 0..(Cardinality(s.live)) /\ n # 0
    OBVIOUS
  <1>6. \A n \in 1..(Cardinality(s.live)) : h[n] = RebuildRound(h[n-1], s, new, n)
    BY <1>3, <1>5 DEF RebuildEntry
  <1> QED
    BY <1>1, <1>4, <1>6 DEF RebuildRuns

(***************************************************************************)
(* Inserting, continued.                                                   *)
(***************************************************************************)

\* Components that are kept are names, and none of the dropped ones.
LEMMA KeptType ==
  ASSUME NEW p \in Seq(Names), NEW g, KeptRuns(g, p)
  PROVE  \A n \in 0..Len(p) : g[n] \in Seq(Names \ Dots)
  <1>1. Len(p) \in Nat /\ \A n \in 1..Len(p) : p[n] \in Names
    OBVIOUS
  <1>2. g[0] = <<>> /\ \A n \in 1..Len(p) : g[n] = KeptRound(g[n-1], p, n)
    BY DEF KeptRuns, KeptStart
  <1> DEFINE S == {n \in Nat : n <= Len(p) => g[n] \in Seq(Names \ Dots)}
  <1>3. 0 \in S
    <2>1. <<>> \in Seq(Names \ Dots)
      OBVIOUS
    <2> QED
      BY <1>2, <2>1
  <1>4. ASSUME NEW n \in Nat, n \in S PROVE n + 1 \in S
    <2> SUFFICES ASSUME n + 1 <= Len(p) PROVE g[n + 1] \in Seq(Names \ Dots)
      OBVIOUS
    <2>1. g[n] \in Seq(Names \ Dots) /\ n + 1 \in 1..Len(p) /\ (n + 1) - 1 = n
      BY <1>1, <1>4
    <2>2. g[n + 1] = KeptRound(g[n], p, n + 1) /\ p[n + 1] \in Names
      BY <1>1, <1>2, <2>1
    <2> DEFINE x == g[n]
               c == p[n + 1]
    <2>3. x \in Seq(Names \ Dots) /\ c \in Names
      BY <2>1, <2>2
    <2> HIDE DEF x
    <2>4. KeptRound(x, p, n + 1) \in Seq(Names \ Dots)
      BY <2>3 DEF KeptRound
    <2> QED
      BY <2>2, <2>4 DEF x
  <1> HIDE DEF S
  <1>5. \A n \in Nat : n \in S
    BY <1>3, <1>4, Climb
  <1> QED
    BY <1>1, <1>5 DEF S

LEMMA ComponentsType ==
  ASSUME NEW p \in Seq(Names)
  PROVE  /\ path_components(p) \in Seq(Names \ Dots)
         /\ p # <<>> /\ p[Len(p)] \notin Dots => path_components(p) # <<>>
  <1>1. Len(p) \in Nat /\ (p # <<>> => Len(p) \in 1..Len(p) /\ Len(p) - 1 \in 0..Len(p))
    OBVIOUS
  <1>2. PICK g : KeptRuns(g, p)
    <2>1. ASSUME Len(p) \in Nat PROVE \E g : KeptRuns(g, p)
      BY <2>1, KeptUnfolds, Zenon
    <2> QED
      BY <1>1, <2>1
  <1>3. \A n \in 0..Len(p) : g[n] \in Seq(Names \ Dots)
    BY <1>2, KeptType
  <1>4. /\ path_components(p) = g[Len(p)]
        /\ \A n \in 1..Len(p) : g[n] = KeptRound(g[n-1], p, n)
    BY <1>2 DEF KeptRuns
  <1>5. ASSUME p # <<>>, p[Len(p)] \notin Dots PROVE path_components(p) # <<>>
    <2> DEFINE x == g[Len(p) - 1]
               y == g[Len(p)]
    <2>1. x \in Seq(Names \ Dots)
      BY <1>1, <1>3, <1>5
    <2>2. y = Append(x, p[Len(p)])
      BY <1>1, <1>4, <1>5 DEF KeptRound
    <2> HIDE DEF x, y
    <2>3. y # <<>>
      BY <2>1, <2>2
    <2> QED
      BY <1>4, <2>3 DEF y
  <1>6. Len(p) \in 0..Len(p)
    BY <1>1
  <1> QED
    BY <1>3, <1>4, <1>5, <1>6

LEMMA WithinTrans ==
  ASSUME NEW T, NEW U, NEW V, Within(T, U), Within(U, V)
  PROVE  Within(T, V)
  BY DEF Within

\* t came from s by adding nodes.
Grown(s, t) == StateOK(t) /\ Extends(s.alloc, t.alloc) /\ Within(s.nodes, t.nodes)

LEMMA GrownTrans ==
  ASSUME NEW s, NEW t, NEW u, StateOK(s), Grown(s, t), Grown(t, u)
  PROVE  Grown(s, s) /\ Grown(s, u)
  <1>1. Allocated(s.alloc) /\ Allocated(t.alloc) /\ Allocated(u.alloc)
    BY DEF Grown, StateOK
  <1>2. Extends(s.alloc, s.alloc) /\ Extends(s.alloc, u.alloc)
    BY <1>1, ExtendsTrans DEF Grown
  <1>3. Within(s.nodes, s.nodes) /\ Within(s.nodes, u.nodes)
    BY WithinTrans DEF Grown, Within
  <1> QED
    BY <1>2, <1>3 DEF Grown

LEMMA GrownSame ==
  ASSUME NEW s, StateOK(s)
  PROVE  Grown(s, s)
  BY ExtendsTrans DEF Grown, StateOK, Within

\* ensure_dir steps down one component, into a directory that rendered it.
LEMMA EnsureDirOK ==
  ASSUME NEW s, StateOK(s), AtDir(s), NoEmptyDirs(s.nodes, s.at), NEW c \in Names \ Dots
  PROVE  LET t == ensure_dir(s, c) IN
         /\ Grown(s, t) /\ AtDir(t) /\ NoEmptyDirs(t.nodes, t.at)
         /\ TrackIds(t.nodes) = TrackIds(s.nodes)
         /\ t.at # ROOT /\ t.nodes[t.at].parent = s.at
         /\ Key(t.nodes[t.at].rendered) = Key(truncate_component(c))
         /\ \A i \in DOMAIN t.nodes \ DOMAIN s.nodes : IsDir(t.nodes, i)
  <1> DEFINE r == truncate_component(c)
             T == s.nodes
             same == dir_child_named(T, s.at, r)
             t == ensure_dir(s, c)
  <1>1. r \in Names \ Dots
    BY TruncatedType
  <1>2. CASE same # {}
    <2> DEFINE i == CHOOSE x \in same : TRUE
    <2>1. t = At(s, i) /\ i \in same
      BY <1>2 DEF ensure_dir
    <2> HIDE DEF i
    <2>2. t.nodes = T /\ t.alloc = s.alloc /\ t.at = i
      BY <2>1 DEF At
    <2>3. i \in DOMAIN T \ {ROOT} /\ T[i].parent = s.at /\ IsDir(T, i) /\ Key(T[i].rendered) = Key(r)
      BY <2>1 DEF dir_child_named, Kids
    <2> HIDE DEF t, same
    <2>4. Grown(s, t)
      BY <2>2, GrownSame DEF Grown, StateOK
    <2>5. ASSUME NEW j \in DOMAIN T \ {ROOT, i}, IsDir(T, j) PROVE Kids(T, j) # {}
      <3>1. CASE j = s.at
        BY <2>3, <3>1 DEF Kids
      <3>2. CASE j # s.at
        BY <2>5, <3>2 DEF NoEmptyDirs
      <3> QED
        BY <3>1, <3>2
    <2> QED
      BY <2>2, <2>3, <2>4, <2>5 DEF AtDir, NoEmptyDirs, t
  <1>3. CASE same = {}
    <2>1. t = Grow(s, r, Dir)
      BY <1>3 DEF ensure_dir
    <2> HIDE DEF r, t
    <2>2. /\ StateOK(t) /\ Extends(s.alloc, t.alloc)
          /\ DOMAIN t.nodes = DOMAIN T \cup {t.at} /\ Within(T, t.nodes)
          /\ t.at \notin DOMAIN T /\ t.at # ROOT
          /\ t.nodes[t.at].parent = s.at /\ t.nodes[t.at].track = Dir
          /\ t.nodes[t.at].rendered = r
      BY <1>1, <1>3, <2>1, GrowSound DEF Dir
    <2>3. Grown(s, t) /\ AtDir(t)
      BY <2>2 DEF Grown, AtDir, IsDir
    <2>4. TrackIds(t.nodes) = TrackIds(T)
      BY <2>2 DEF TrackIds, Within
    <2>5. ASSUME NEW j \in DOMAIN t.nodes \ {ROOT, t.at}, IsDir(t.nodes, j)
          PROVE  Kids(t.nodes, j) # {}
      <3>1. CASE j = s.at
        <4>1. t.at \in Kids(t.nodes, j)
          BY <2>2, <3>1 DEF Kids
        <4> QED
          BY <4>1
      <3>2. CASE j # s.at
        <4>1. j \in DOMAIN T \ {ROOT, s.at} /\ IsDir(T, j)
          BY <2>2, <2>5, <3>2 DEF Within, IsDir
        <4>2. PICK k \in Kids(T, j) : TRUE
          BY <4>1 DEF NoEmptyDirs
        <4>3. k \in Kids(t.nodes, j)
          BY <2>2, <4>2 DEF Kids, Within
        <4> QED
          BY <4>3
      <3> QED
        BY <3>1, <3>2
    <2>6. NoEmptyDirs(t.nodes, t.at)
      BY <2>5 DEF NoEmptyDirs
    <2>7. \A i \in DOMAIN t.nodes \ DOMAIN T : IsDir(t.nodes, i)
      BY <2>2 DEF IsDir
    <2> QED
      BY <2>2, <2>3, <2>4, <2>6, <2>7 DEF r, t
  <1> QED
    BY <1>2, <1>3

\* t came from s by making directories, down to t.at.
Walked(s, t) ==
    /\ Grown(s, t) /\ AtDir(t) /\ NoEmptyDirs(t.nodes, t.at)
    /\ TrackIds(t.nodes) = TrackIds(s.nodes)
    /\ \A i \in DOMAIN t.nodes \ DOMAIN s.nodes : IsDir(t.nodes, i)

LEMMA WalkedTrans ==
  ASSUME NEW s, NEW t, NEW u, StateOK(s), Walked(s, t), Walked(t, u)
  PROVE  Walked(s, u)
  <1>1. Grown(s, u)
    BY GrownTrans DEF Walked
  <1>2. ASSUME NEW i \in DOMAIN u.nodes \ DOMAIN s.nodes PROVE IsDir(u.nodes, i)
    <2>1. CASE i \in DOMAIN t.nodes
      BY <1>2, <2>1 DEF Walked, Grown, Within, IsDir
    <2>2. CASE i \notin DOMAIN t.nodes
      BY <1>2, <2>2 DEF Walked
    <2> QED
      BY <2>1, <2>2
  <1> QED
    BY <1>1, <1>2 DEF Walked

\* i is the directory in d that the component c leads to.
StepsTo(T, c, d, i) ==
    /\ i \in DOMAIN T \ {ROOT} /\ IsDir(T, i) /\ T[i].parent = d
    /\ Key(T[i].rendered) = Key(truncate_component(c))

\* w[n] is where the first n components lead.
Leads(T, comps, n, w) ==
    w[0] = ROOT /\ \A m \in 1..n : StepsTo(T, comps[m], w[m-1], w[m])

LEMMA StepsToMono ==
  ASSUME NEW T, NEW U, Within(T, U), NEW c, NEW d, NEW i, StepsTo(T, c, d, i)
  PROVE  StepsTo(U, c, d, i)
  BY DEF Within, StepsTo, IsDir

\* ensure_dirs ends in the directory the components but the last lead to.
LEMMA EnsureDirsOK ==
  ASSUME NEW s, StateOK(s), NoEmptyDirs(s.nodes, ROOT), NEW comps \in Seq(Names \ Dots),
         comps # <<>>
  PROVE  LET t == ensure_dirs(s, comps) IN
         /\ Walked(s, t)
         /\ \E w : Leads(t.nodes, comps, Len(comps) - 1, w) /\ w[Len(comps) - 1] = t.at
  <1> DEFINE N == Len(comps) - 1
  <1>1. N \in Nat /\ \A n \in 1..N : comps[n] \in Names \ Dots
    OBVIOUS
  <1>2. PICK g : DownRuns(g, s, comps)
    <2>1. ASSUME N \in Nat PROVE \E g : DownRuns(g, s, comps)
      BY <2>1, DownUnfolds, Zenon
    <2> QED
      BY <1>1, <2>1
  <1>3. /\ ensure_dirs(s, comps) = g[N] /\ g[0] = At(s, ROOT)
        /\ \A n \in 1..N : g[n] = ensure_dir(g[n-1], comps[n])
    BY <1>2 DEF DownRuns, DownStart, DownRound
  <1> HIDE DEF N
  <1> DEFINE Good(n) == Walked(s, g[n])
                        /\ \A m \in 1..n : StepsTo(g[n].nodes, comps[m], g[m-1].at, g[m].at)
             S == {n \in Nat : n <= N => Good(n)}
  <1>4. 0 \in S
    <2>1. g[0].nodes = s.nodes /\ g[0].alloc = s.alloc /\ g[0].at = ROOT
      BY <1>3 DEF At
    <2>2. Grown(s, g[0])
      BY <2>1, GrownSame DEF Grown, StateOK
    <2>3. AtDir(g[0])
      BY <2>1 DEF AtDir, StateOK, Sound, WellFormed
    <2> QED
      BY <2>1, <2>2, <2>3 DEF Walked
  <1>5. ASSUME NEW n \in Nat, n \in S PROVE n + 1 \in S
    <2> SUFFICES ASSUME n + 1 <= N PROVE Good(n + 1)
      OBVIOUS
    <2>1. Good(n) /\ n + 1 \in 1..N /\ (n + 1) - 1 = n
      BY <1>1, <1>5
    <2> DEFINE x == g[n]
               y == g[n + 1]
    <2>2. y = ensure_dir(x, comps[n + 1]) /\ comps[n + 1] \in Names \ Dots
      BY <1>1, <1>3, <2>1
    <2>3. StateOK(x) /\ AtDir(x) /\ NoEmptyDirs(x.nodes, x.at)
      BY <2>1 DEF Walked, Grown
    <2>4. Walked(x, y) /\ StepsTo(y.nodes, comps[n + 1], x.at, y.at)
      BY <2>2, <2>3, EnsureDirOK DEF Walked, StepsTo, AtDir
    <2>5. Walked(s, y)
      BY <2>1, <2>4, WalkedTrans
    <2>6. ASSUME NEW m \in 1..(n + 1) PROVE StepsTo(y.nodes, comps[m], g[m-1].at, g[m].at)
      <3>1. CASE m = n + 1
        BY <2>1, <2>4, <3>1
      <3>2. CASE m # n + 1
        <4>1. m \in 1..n
          BY <3>2
        <4>2. StepsTo(x.nodes, comps[m], g[m-1].at, g[m].at)
          BY <2>1, <4>1
        <4> QED
          BY <2>4, <4>2, StepsToMono DEF Walked, Grown
      <3> QED
        BY <3>1, <3>2
    <2> QED
      BY <2>5, <2>6
  <1>6. Good(N)
    <2>1. \A n \in Nat : n \in S
      <3> HIDE DEF S
      <3> QED
        BY <1>4, <1>5, Climb
    <2> QED
      BY <1>1, <2>1
  <1> DEFINE w == [n \in 0..N |-> g[n].at]
  <1>7. \A n \in 0..N : w[n] = g[n].at
    OBVIOUS
  <1>8. w[0] = ROOT /\ w[N] = g[N].at
    BY <1>1, <1>3, <1>7 DEF At
  <1>9. \A n \in 1..N : w[n] = g[n].at /\ w[n-1] = g[n-1].at
    BY <1>1, <1>7
  <1> HIDE DEF w
  <1>10. Leads(g[N].nodes, comps, N, w)
    BY <1>6, <1>8, <1>9 DEF Leads
  <1> QED
    BY <1>3, <1>6, <1>8, <1>10 DEF N

\* A file is in the directory its track's path leads to.
AtHome(T, new) ==
    \A i \in DOMAIN T : ~IsDir(T, i) =>
        LET comps == path_components(new[T[i].track]) IN
        \E w : Leads(T, comps, Len(comps) - 1, w) /\ w[Len(comps) - 1] = T[i].parent

LEMMA LeadsMono ==
  ASSUME NEW T, NEW U, Within(T, U), NEW comps, NEW n, NEW w, Leads(T, comps, n, w)
  PROVE  Leads(U, comps, n, w)
  BY StepsToMono DEF Leads

\* Which of the tracks ids have a file name.
Nameable(ids, new) == {id \in ids : path_components(new[id]) # <<>>}

\* insert_file adds one file, where the track's path leads.
LEMMA InsertFileOK ==
  ASSUME NEW s, StateOK(s), NoEmptyDirs(s.nodes, ROOT), NEW new, NEW id \in Nat \ {Dir},
         new[id] \in Seq(Names), id \notin TrackIds(s.nodes)
  PROVE  LET t == insert_file(s, id, new[id]) IN
         /\ Grown(s, t) /\ NoEmptyDirs(t.nodes, ROOT)
         /\ TrackIds(t.nodes) = TrackIds(s.nodes) \cup Nameable({id}, new)
         /\ AtHome(s.nodes, new) => AtHome(t.nodes, new)
  <1> DEFINE comps == path_components(new[id])
             t == insert_file(s, id, new[id])
  <1>1. comps \in Seq(Names \ Dots)
    BY ComponentsType
  <1>2. CASE comps = <<>>
    <2>1. t = s
      BY <1>2 DEF insert_file
    <2>2. Nameable({id}, new) = {}
      BY <1>2 DEF Nameable
    <2> QED
      BY <2>1, <2>2, GrownSame
  <1>3. CASE comps # <<>>
    <2> DEFINE u == ensure_dirs(s, comps)
               c == comps[Len(comps)]
               N == Len(comps) - 1
    <2>1. t = Grow(u, truncate_component(c), id)
      BY <1>3 DEF insert_file
    <2>2. Walked(s, u)
      BY <1>1, <1>3, EnsureDirsOK
    <2>3. PICK w : Leads(u.nodes, comps, N, w) /\ w[N] = u.at
      BY <1>1, <1>3, EnsureDirsOK
    <2>4. truncate_component(c) \in Names \ Dots
      <3> HIDE DEF comps
      <3>1. c \in Names \ Dots
        BY <1>1, <1>3
      <3> QED
        BY <3>1, TruncatedType
    <2>5. Nameable({id}, new) = {id}
      BY <1>3 DEF Nameable
    <2> HIDE DEF u, t, c, N, comps
    <2>6. StateOK(u) /\ AtDir(u) /\ NoEmptyDirs(u.nodes, u.at) /\ TrackIds(u.nodes) = TrackIds(s.nodes)
      BY <2>2 DEF Walked, Grown
    <2>7. /\ StateOK(t) /\ Extends(u.alloc, t.alloc)
          /\ DOMAIN t.nodes = DOMAIN u.nodes \cup {t.at} /\ Within(u.nodes, t.nodes)
          /\ t.at \notin DOMAIN u.nodes /\ t.at # ROOT
          /\ t.nodes[t.at].parent = u.at /\ t.nodes[t.at].track = id
      BY <2>1, <2>4, <2>6, GrowSound
    <2>8. Grown(s, t)
      <3>1. Grown(s, u) /\ Grown(u, t)
        BY <2>2, <2>7 DEF Grown, Walked
      <3> QED
        BY <3>1, GrownTrans
    <2>9. ASSUME NEW j \in DOMAIN t.nodes \ {ROOT}, IsDir(t.nodes, j) PROVE Kids(t.nodes, j) # {}
      <3>1. CASE j = u.at
        <4>1. t.at \in Kids(t.nodes, j)
          BY <2>7, <3>1 DEF Kids
        <4> QED
          BY <4>1
      <3>2. CASE j # u.at
        <4>1. j \in DOMAIN u.nodes \ {ROOT, u.at} /\ IsDir(u.nodes, j)
          BY <2>7, <2>9, <3>2 DEF Within, IsDir
        <4>2. PICK k \in Kids(u.nodes, j) : TRUE
          BY <2>6, <4>1 DEF NoEmptyDirs
        <4>3. k \in Kids(t.nodes, j)
          BY <2>7, <4>2 DEF Kids, Within
        <4> QED
          BY <4>3
      <3> QED
        BY <3>1, <3>2
    <2>10. TrackIds(t.nodes) = TrackIds(s.nodes) \cup {id}
      <3>1. {t.nodes[i].track : i \in DOMAIN t.nodes} = {u.nodes[i].track : i \in DOMAIN u.nodes} \cup {id}
        BY <2>7 DEF Within
      <3> QED
        BY <2>6, <3>1 DEF TrackIds
    <2>11. ASSUME AtHome(s.nodes, new), NEW i \in DOMAIN t.nodes, ~IsDir(t.nodes, i),
                  NEW cs, cs = path_components(new[t.nodes[i].track])
           PROVE  \E v : Leads(t.nodes, cs, Len(cs) - 1, v) /\ v[Len(cs) - 1] = t.nodes[i].parent
      <3>1. CASE i = t.at
        <4>1. cs = comps
          BY <2>7, <2>11, <3>1 DEF comps
        <4>2. Leads(t.nodes, comps, N, w) /\ w[N] = t.nodes[i].parent
          BY <2>3, <2>7, <3>1, LeadsMono
        <4> QED
          BY <4>1, <4>2 DEF N
      <3>2. CASE i # t.at
        <4>1. i \in DOMAIN u.nodes /\ t.nodes[i] = u.nodes[i] /\ ~IsDir(u.nodes, i)
          BY <2>7, <2>11, <3>2 DEF Within, IsDir
        <4>2. i \in DOMAIN s.nodes /\ u.nodes[i] = s.nodes[i] /\ ~IsDir(s.nodes, i)
          BY <2>2, <4>1 DEF Walked, Grown, Within, IsDir
        <4>3. PICK v : Leads(s.nodes, cs, Len(cs) - 1, v) /\ v[Len(cs) - 1] = s.nodes[i].parent
          BY <2>11, <4>1, <4>2 DEF AtHome
        <4>4. Leads(t.nodes, cs, Len(cs) - 1, v)
          BY <2>8, <4>3, LeadsMono DEF Grown
        <4> QED
          BY <4>1, <4>2, <4>3, <4>4
      <3> QED
        BY <3>1, <3>2
    <2>12. AtHome(s.nodes, new) => AtHome(t.nodes, new)
      BY <2>11 DEF AtHome
    <2>13. NoEmptyDirs(t.nodes, ROOT)
      BY <2>9 DEF NoEmptyDirs
    <2> QED
      BY <2>5, <2>8, <2>10, <2>12, <2>13 DEF t
  <1> QED
    BY <1>2, <1>3

\* s gained the files of the tracks ids.
Gained(s, t, ids, new) ==
    /\ Grown(s, t) /\ NoEmptyDirs(t.nodes, ROOT)
    /\ TrackIds(t.nodes) = TrackIds(s.nodes) \cup Nameable(ids, new)
    /\ AtHome(s.nodes, new) => AtHome(t.nodes, new)

\* InsertAll adds a file for each of the tracks that has a name for one.
LEMMA InsertAllOK ==
  ASSUME NEW s, StateOK(s), NoEmptyDirs(s.nodes, ROOT), NEW new, NEW ids \in SUBSET Tracks,
         \A id \in ids : new[id] \in Seq(Names) /\ id \notin TrackIds(s.nodes)
  PROVE  Gained(s, InsertAll(s, ids, new), ids, new)
  <1>1. MaxTrack \in Nat /\ \A id \in ids : id \in Nat /\ 1 <= id /\ id <= MaxTrack
    BY TreeAssumption DEF Tracks
  <1>2. PICK g : InsertRuns(g, s, ids, new)
    <2>1. ASSUME MaxTrack \in Nat PROVE \E g : InsertRuns(g, s, ids, new)
      BY <2>1, InsertUnfolds, Zenon
    <2> QED
      BY <1>1, <2>1
  <1>3. /\ InsertAll(s, ids, new) = g[MaxTrack] /\ g[0] = s
        /\ \A n \in 1..MaxTrack : g[n] = IF n \in ids THEN insert_file(g[n-1], n, new[n]) ELSE g[n-1]
    BY <1>2 DEF InsertRuns, InsertStart, InsertRound
  <1> DEFINE Done(n) == {id \in ids : id <= n}
             S == {n \in Nat : n <= MaxTrack => Gained(s, g[n], Done(n), new)}
  <1>4. 0 \in S
    <2>1. Done(0) = {}
      BY <1>1
    <2>2. Nameable({}, new) = {}
      BY DEF Nameable
    <2>3. Gained(s, s, {}, new)
      BY <2>2, GrownSame DEF Gained
    <2> QED
      BY <1>3, <2>1, <2>3
  <1>5. ASSUME NEW n \in Nat, n \in S PROVE n + 1 \in S
    <2> SUFFICES ASSUME n + 1 <= MaxTrack PROVE Gained(s, g[n + 1], Done(n + 1), new)
      OBVIOUS
    <2>1. Gained(s, g[n], Done(n), new) /\ n + 1 \in 1..MaxTrack /\ (n + 1) - 1 = n
      BY <1>1, <1>5
    <2> DEFINE x == g[n]
               y == g[n + 1]
               D == Done(n)
               E == Done(n + 1)
    <2>2. y = IF n + 1 \in ids THEN insert_file(x, n + 1, new[n + 1]) ELSE x
      BY <1>3, <2>1
    <2>3. Gained(s, x, D, new)
      BY <2>1
    <2>4. n + 1 \notin D /\ E = IF n + 1 \in ids THEN D \cup {n + 1} ELSE D
      <3> QED
        BY <1>1
    <2>5. D \subseteq ids
      OBVIOUS
    <2> HIDE DEF x, y, D, E
    <2>6. CASE n + 1 \in ids
      <3>1. n + 1 \in Nat \ {Dir} /\ new[n + 1] \in Seq(Names) /\ n + 1 \notin TrackIds(x.nodes)
        BY <2>3, <2>4, <2>6 DEF Gained, Nameable, Dir
      <3>2. /\ Grown(x, y) /\ NoEmptyDirs(y.nodes, ROOT)
            /\ TrackIds(y.nodes) = TrackIds(x.nodes) \cup Nameable({n + 1}, new)
            /\ AtHome(x.nodes, new) => AtHome(y.nodes, new)
        BY <2>2, <2>3, <2>6, <3>1, InsertFileOK DEF Gained, Grown
      <3>3. Nameable(E, new) = Nameable(D, new) \cup Nameable({n + 1}, new)
        BY <2>4, <2>6 DEF Nameable
      <3>4. Grown(s, y)
        BY <2>3, <3>2, GrownTrans DEF Gained
      <3> QED
        BY <2>3, <3>2, <3>3, <3>4 DEF Gained, y, E
    <2>7. CASE n + 1 \notin ids
      BY <2>2, <2>3, <2>4, <2>7 DEF y, E
    <2> QED
      BY <2>6, <2>7
  <1>6. \A n \in Nat : n \in S
    <2> HIDE DEF S
    <2> QED
      BY <1>4, <1>5, Climb
  <1>7. Done(MaxTrack) = ids
    BY <1>1
  <1>8. Gained(s, g[MaxTrack], Done(MaxTrack), new)
    BY <1>1, <1>6
  <1> QED
    BY <1>3, <1>7, <1>8

(***************************************************************************)
(* Removing.                                                               *)
(***************************************************************************)

\* Part of a sound tree is sound, if it has the parents of its nodes.
LEMMA PartSound ==
  ASSUME NEW T, Sound(T), NEW U, Within(U, T), ROOT \in DOMAIN U,
         U = [i \in DOMAIN U |-> U[i]],
         \A i \in DOMAIN U \ {ROOT} : U[i].parent \in DOMAIN U
  PROVE  Sound(U)
  <1>1. WellFormed(T) /\ UniqueNames(T) /\ OneDirPerRendering(T) /\ OneFilePerTrack(T)
    BY DEF Sound
  <1>2. DOMAIN U \subseteq DOMAIN T /\ \A i \in DOMAIN U : T[i] = U[i]
    BY DEF Within
  <1>3. WellFormed(U)
    <2>1. IsFiniteSet(DOMAIN U) /\ DOMAIN U \subseteq Nat
      BY <1>1, <1>2, FS_Subset DEF WellFormed
    <2>2. U[ROOT].parent = ROOT /\ IsDir(U, ROOT)
      BY <1>1, <1>2 DEF WellFormed, IsDir
    <2>3. ASSUME NEW j \in DOMAIN U \ {ROOT}
          PROVE  /\ U[j].parent \in DOMAIN U /\ IsDir(U, U[j].parent) /\ U[j].parent < j
                 /\ U[j].name \in Names \ Dots /\ U[j].rendered \in Names /\ U[j].track \in Nat
      BY <1>1, <1>2 DEF WellFormed, IsDir
    <2> QED
      BY <2>1, <2>2, <2>3 DEF WellFormed
  <1>4. UniqueNames(U)
    BY <1>1, <1>2 DEF UniqueNames
  <1>5. OneDirPerRendering(U)
    BY <1>1, <1>2 DEF OneDirPerRendering, IsDir
  <1>6. OneFilePerTrack(U)
    BY <1>1, <1>2 DEF OneFilePerTrack, IsDir
  <1> QED
    BY <1>3, <1>4, <1>5, <1>6 DEF Sound

LEMMA InternedPart ==
  ASSUME NEW T, NEW U, NEW a, Interned(T, a), Within(U, T)
  PROVE  Interned(U, a)
  <1>1. DOMAIN U \subseteq DOMAIN T /\ \A i \in DOMAIN U : T[i] = U[i]
    BY DEF Within
  <1> SUFFICES ASSUME NEW i \in DOMAIN U \ {ROOT}
               PROVE  \E p \in DOMAIN a.paths \ {<<>>} :
                         /\ a.paths[p] = i /\ p[Len(p)] = Key(U[i].name)
                         /\ a.paths[Front(p)] = U[i].parent
    BY DEF Interned
  <1>2. i \in DOMAIN T \ {ROOT} /\ T[i] = U[i]
    BY <1>1
  <1> QED
    BY <1>2 DEF Interned

\* A node without children can go; only its parent may be empty then.
LEMMA WithoutLeaf ==
  ASSUME NEW T, Sound(T), NEW i \in DOMAIN T \ {ROOT}, Kids(T, i) = {},
         NEW hole \in {i, ROOT}, NoEmptyDirs(T, hole)
  PROVE  LET U == Without(T, i) IN
         /\ Sound(U) /\ Within(U, T) /\ DOMAIN U = DOMAIN T \ {i}
         /\ T[i].parent \in DOMAIN U /\ IsDir(U, T[i].parent)
         /\ NoEmptyDirs(U, T[i].parent)
         /\ TrackIds(U) = TrackIds(T) \ (IF IsDir(T, i) THEN {} ELSE {T[i].track})
  <1> DEFINE U == Without(T, i)
             d == T[i].parent
  <1>1. DOMAIN U = DOMAIN T \ {i} /\ \A j \in DOMAIN U : U[j] = T[j]
    BY DEF Without
  <1>2. U = [j \in DOMAIN U |-> U[j]]
    BY DEF Without
  <1> HIDE DEF U
  <1>3. d \in DOMAIN T /\ IsDir(T, d) /\ d < i /\ i \in Nat /\ ROOT \in DOMAIN T
    BY DEF Sound, WellFormed
  <1>4. Within(U, T) /\ d \in DOMAIN U /\ IsDir(U, d)
    BY <1>1, <1>3 DEF Within, IsDir
  <1>5. ASSUME NEW j \in DOMAIN U \ {ROOT} PROVE U[j].parent \in DOMAIN U
    <2>1. T[j].parent \in DOMAIN T /\ T[j].parent # i
      BY <1>1, <1>5 DEF Sound, WellFormed, Kids
    <2> QED
      BY <1>1, <2>1
  <1>6. Sound(U)
    BY <1>1, <1>2, <1>3, <1>4, <1>5, PartSound
  <1>7. ASSUME NEW j \in DOMAIN U \ {ROOT, d}, IsDir(U, j) PROVE Kids(U, j) # {}
    <2>1. j \in DOMAIN T \ {ROOT, hole} /\ IsDir(T, j)
      BY <1>1, <1>7 DEF IsDir
    <2>2. PICK k \in Kids(T, j) : TRUE
      BY <2>1 DEF NoEmptyDirs
    <2>3. k \in Kids(U, j)
      BY <1>1, <1>7, <2>2 DEF Kids
    <2> QED
      BY <2>3
  <1>8. TrackIds(U) = TrackIds(T) \ (IF IsDir(T, i) THEN {} ELSE {T[i].track})
    <2>1. {T[j].track : j \in DOMAIN T} = {U[j].track : j \in DOMAIN U} \cup {T[i].track}
      BY <1>1
    <2>2. ~IsDir(T, i) => T[i].track \notin {U[j].track : j \in DOMAIN U}
      BY <1>1 DEF Sound, OneFilePerTrack
    <2>3. IsDir(T, i) => T[i].track = Dir
      BY DEF IsDir
    <2> QED
      BY <2>1, <2>2, <2>3 DEF TrackIds
  <1>9. NoEmptyDirs(U, d)
    BY <1>7 DEF NoEmptyDirs
  <1> QED
    BY <1>1, <1>4, <1>6, <1>8, <1>9 DEF U

\* U is what is left of T without the files of the tracks ids.
Lost(T, U, ids) ==
    /\ Sound(U) /\ Within(U, T) /\ NoEmptyDirs(U, ROOT)
    /\ TrackIds(U) = TrackIds(T) \ ids

\* A round of prune_empty_dirs_upward that has not ended.
Pruning(T, w) ==
    /\ Sound(w.nodes) /\ Within(w.nodes, T) /\ TrackIds(w.nodes) = TrackIds(T)
    /\ w.survivor \in DOMAIN w.nodes /\ IsDir(w.nodes, w.survivor)
    /\ NoEmptyDirs(w.nodes, w.survivor)

LEMMA PruneEmptyOK ==
  ASSUME NEW T, NEW w, Pruning(T, w), NEW k \in Int,
         w.survivor = ROOT \/ Kids(w.nodes, w.survivor) # {} \/ w.survivor <= k
  PROVE  LET v == PruneEmpty(w) IN
         /\ Pruning(T, v)
         /\ v.survivor = ROOT \/ Kids(v.nodes, v.survivor) # {} \/ v.survivor <= k - 1
  <1> DEFINE v == PruneEmpty(w)
             i == w.survivor
             U == w.nodes
  <1>1. CASE i # ROOT /\ Kids(U, i) = {}
    <2>1. v.nodes = Without(U, i) /\ v.survivor = U[i].parent
      BY <1>1 DEF PruneEmpty
    <2>2. i \in DOMAIN U \ {ROOT} /\ i \in {i, ROOT}
      BY <1>1 DEF Pruning
    <2> HIDE DEF v
    <2>6. Sound(U) /\ IsDir(U, i) /\ NoEmptyDirs(U, i)
      BY DEF Pruning
    <2>3. /\ Sound(v.nodes) /\ Within(v.nodes, U)
          /\ v.survivor \in DOMAIN v.nodes /\ IsDir(v.nodes, v.survivor)
          /\ NoEmptyDirs(v.nodes, v.survivor)
          /\ TrackIds(v.nodes) = TrackIds(U)
      <3> HIDE DEF i, U
      <3>1. TrackIds(v.nodes) = TrackIds(U) \ {}
        BY <1>1, <2>1, <2>2, <2>6, WithoutLeaf
      <3> DEFINE V == Without(U, i)
      <3>4. /\ Sound(V) /\ Within(V, U) /\ U[i].parent \in DOMAIN V /\ IsDir(V, U[i].parent)
            /\ NoEmptyDirs(V, U[i].parent)
        BY <1>1, <2>2, <2>6, WithoutLeaf
      <3> HIDE DEF V
      <3>2. /\ Sound(v.nodes) /\ Within(v.nodes, U)
            /\ v.survivor \in DOMAIN v.nodes /\ IsDir(v.nodes, v.survivor)
            /\ NoEmptyDirs(v.nodes, v.survivor)
        BY <2>1, <3>4 DEF V
      <3>3. TrackIds(U) \ {} = TrackIds(U)
        OBVIOUS
      <3> QED
        BY <3>1, <3>2, <3>3
    <2>4. Within(v.nodes, T)
      BY <2>3, WithinTrans DEF Pruning
    <2>5. v.survivor <= k - 1
      <3>1. U[i].parent < i /\ U[i].parent \in Nat /\ i \in Nat
        BY <2>2 DEF Pruning, Sound, WellFormed
      <3> QED
        BY <1>1, <2>1, <3>1
    <2> QED
      BY <2>3, <2>4, <2>5 DEF Pruning, v
  <1>2. CASE ~(i # ROOT /\ Kids(U, i) = {})
    BY <1>2 DEF PruneEmpty
  <1> QED
    BY <1>1, <1>2

\* prune_empty_dirs_upward leaves no empty directory, however deep the hole.
LEMMA PruneUpwardOK ==
  ASSUME NEW T, Sound(T), NEW d \in DOMAIN T, IsDir(T, d), NoEmptyDirs(T, d)
  PROVE  Lost(T, prune_empty_dirs_upward(T, d).nodes, {})
  <1>1. d \in Nat
    BY DEF Sound, WellFormed
  <1>2. PICK g : PruneRuns(g, T, d)
    <2>1. ASSUME d \in Nat PROVE \E g : PruneRuns(g, T, d)
      BY <2>1, PruneUnfolds, Zenon
    <2> QED
      BY <1>1, <2>1
  <1>3. /\ prune_empty_dirs_upward(T, d) = g[d]
        /\ g[0].nodes = T /\ g[0].survivor = d
        /\ \A n \in 1..d : g[n] = PruneEmpty(g[n-1])
    BY <1>2 DEF PruneRuns, PruneStart, PruneRound
  <1> DEFINE Ends(w, k) == w.survivor = ROOT \/ Kids(w.nodes, w.survivor) # {} \/ w.survivor <= k
             S == {n \in Nat : n <= d => Pruning(T, g[n]) /\ Ends(g[n], d - n)}
  <1>4. 0 \in S
    <2>1. Within(T, T)
      BY DEF Within
    <2>2. Ends(g[0], d - 0)
      BY <1>1, <1>3
    <2> QED
      BY <1>3, <2>1, <2>2 DEF Pruning
  <1>5. ASSUME NEW n \in Nat, n \in S PROVE n + 1 \in S
    <2> SUFFICES ASSUME n + 1 <= d PROVE Pruning(T, g[n + 1]) /\ Ends(g[n + 1], d - (n + 1))
      OBVIOUS
    <2>1. n <= d /\ n + 1 \in 1..d /\ (n + 1) - 1 = n /\ d - n \in Int /\ (d - n) - 1 = d - (n + 1)
      BY <1>1
    <2>2. Pruning(T, g[n]) /\ Ends(g[n], d - n)
      BY <1>5, <2>1
    <2>3. g[n + 1] = PruneEmpty(g[n])
      BY <1>3, <2>1
    <2> QED
      BY <2>1, <2>2, <2>3, PruneEmptyOK
  <1>6. \A n \in Nat : n \in S
    <2> HIDE DEF S
    <2> QED
      BY <1>4, <1>5, Climb
  <1> DEFINE w == g[d]
             i == w.survivor
  <1>7. Pruning(T, w) /\ Ends(w, 0)
    <2>1. Pruning(T, w) /\ Ends(w, d - d) /\ d - d = 0
      BY <1>1, <1>6
    <2> QED
      BY <2>1
  <1> HIDE DEF w
  <1>8. i = ROOT \/ Kids(w.nodes, i) # {}
    <2> SUFFICES ASSUME i # ROOT, i <= 0 PROVE FALSE
      BY <1>7
    <2>1. w.nodes[i].parent \in Nat /\ i \in Nat /\ w.nodes[i].parent < i
      BY <1>7 DEF Pruning, Sound, WellFormed
    <2> QED
      BY <2>1
  <1>9. NoEmptyDirs(w.nodes, ROOT)
    BY <1>7, <1>8 DEF Pruning, NoEmptyDirs
  <1> QED
    BY <1>3, <1>7, <1>9 DEF Lost, Pruning, w

\* remove_track takes one file out, and the directories that held no other.
LEMMA RemoveTrackOK ==
  ASSUME NEW T, Sound(T), NoEmptyDirs(T, ROOT), NEW id \in Nat \ {Dir}
  PROVE  Lost(T, remove_track(T, id).nodes, {id})
  <1> DEFINE found == inode_of_track(T, id)
  <1>1. CASE found = {}
    <2>1. remove_track(T, id).nodes = T
      BY <1>1 DEF remove_track
    <2>2. id \notin TrackIds(T)
      BY <1>1 DEF inode_of_track, TrackIds
    <2>3. Within(T, T) /\ TrackIds(T) = TrackIds(T) \ {id}
      BY <2>2 DEF Within
    <2> QED
      BY <2>1, <2>3 DEF Lost
  <1>2. CASE found # {}
    <2> DEFINE i == CHOOSE x \in found : TRUE
               U == Without(T, i)
               d == T[i].parent
    <2>1. i \in found
      BY <1>2
    <2>2. remove_track(T, id) = prune_empty_dirs_upward(U, d)
      BY <1>2 DEF remove_track
    <2> HIDE DEF i
    <2>3. i \in DOMAIN T \ {ROOT} /\ T[i].track = id /\ ~IsDir(T, i) /\ Kids(T, i) = {}
      BY <2>1 DEF inode_of_track, Sound, WellFormed, IsDir, Kids
    <2>4. ROOT \in {i, ROOT}
      OBVIOUS
    <2> HIDE DEF U
    <2>5. /\ Sound(U) /\ Within(U, T) /\ d \in DOMAIN U /\ IsDir(U, d) /\ NoEmptyDirs(U, d)
          /\ TrackIds(U) = TrackIds(T) \ {id}
      BY <2>3, <2>4, WithoutLeaf DEF U
    <2>6. Lost(U, prune_empty_dirs_upward(U, d).nodes, {})
      BY <2>5, PruneUpwardOK
    <2> QED
      BY <2>2, <2>5, <2>6, WithinTrans DEF Lost
  <1> QED
    BY <1>1, <1>2

LEMMA RemoveAllOK ==
  ASSUME NEW s, Sound(s.nodes), NoEmptyDirs(s.nodes, ROOT), NEW ids \in SUBSET Tracks
  PROVE  Lost(s.nodes, RemoveAll(s, ids).nodes, ids)
  <1>1. MaxTrack \in Nat /\ \A id \in ids : id \in Nat /\ 1 <= id /\ id <= MaxTrack
    BY TreeAssumption DEF Tracks
  <1>2. PICK g : RemoveRuns(g, s, ids)
    <2>1. ASSUME MaxTrack \in Nat PROVE \E g : RemoveRuns(g, s, ids)
      BY <2>1, RemoveUnfolds, Zenon
    <2> QED
      BY <1>1, <2>1
  <1>3. /\ RemoveAll(s, ids) = g[MaxTrack] /\ g[0] = s
        /\ \A n \in 1..MaxTrack : g[n] = IF n \in ids THEN RemoveGated(g[n-1], n) ELSE g[n-1]
    BY <1>2 DEF RemoveRuns, RemoveStart, RemoveRound
  <1> DEFINE Done(n) == {id \in ids : id <= n}
             S == {n \in Nat : n <= MaxTrack => Lost(s.nodes, g[n].nodes, Done(n))}
  <1>4. 0 \in S
    <2>1. Done(0) = {}
      BY <1>1
    <2>2. Lost(s.nodes, s.nodes, {})
      BY DEF Lost, Within
    <2> QED
      BY <1>3, <2>1, <2>2
  <1>5. ASSUME NEW n \in Nat, n \in S PROVE n + 1 \in S
    <2> SUFFICES ASSUME n + 1 <= MaxTrack PROVE Lost(s.nodes, g[n + 1].nodes, Done(n + 1))
      OBVIOUS
    <2>1. Lost(s.nodes, g[n].nodes, Done(n)) /\ n + 1 \in 1..MaxTrack /\ (n + 1) - 1 = n
      BY <1>1, <1>5
    <2> DEFINE x == g[n]
               y == g[n + 1]
               D == Done(n)
               E == Done(n + 1)
    <2>2. y = IF n + 1 \in ids THEN RemoveGated(x, n + 1) ELSE x
      BY <1>3, <2>1
    <2>3. Lost(s.nodes, x.nodes, D)
      BY <2>1
    <2>4. E = IF n + 1 \in ids THEN D \cup {n + 1} ELSE D
      BY <1>1
    <2> HIDE DEF x, y, D, E
    <2>5. CASE n + 1 \in ids
      <3>1. y.nodes = remove_track(x.nodes, n + 1).nodes
        BY <2>2, <2>5 DEF RemoveGated
      <3>2. Lost(x.nodes, y.nodes, {n + 1})
        BY <2>3, <3>1, RemoveTrackOK DEF Lost, Dir
      <3> QED
        BY <2>3, <2>4, <2>5, <3>2, WithinTrans DEF Lost, y, E
    <2>6. CASE n + 1 \notin ids
      BY <2>2, <2>3, <2>4, <2>6 DEF y, E
    <2> QED
      BY <2>5, <2>6
  <1>6. \A n \in Nat : n \in S
    <2> HIDE DEF S
    <2> QED
      BY <1>4, <1>5, Climb
  <1>7. Done(MaxTrack) = ids
    BY <1>1
  <1>8. Lost(s.nodes, g[MaxTrack].nodes, Done(MaxTrack))
    BY <1>1, <1>6
  <1> QED
    BY <1>3, <1>7, <1>8

(***************************************************************************)
(* Rebuilding and refreshing.                                              *)
(***************************************************************************)

\* Paths are sequences of names.
Renders(new) == \A id \in Tracks : new[id] # None => new[id] \in Seq(Names)

\* t holds the tracks s held, in a tree that may be another.
Rebuilt(s, t) ==
    /\ StateOK(t) /\ NoEmptyDirs(t.nodes, ROOT)
    /\ TrackIds(t.nodes) = TrackIds(s.nodes) /\ Extends(s.alloc, t.alloc)

\* rebuild_subtree takes tracks out and puts the same ones back.
LEMMA RebuildSubtreeOK ==
  ASSUME NEW s, StateOK(s), NoEmptyDirs(s.nodes, ROOT), NEW new, Renders(new),
         TrackIds(s.nodes) \subseteq Placed(new), NEW d
  PROVE  Rebuilt(s, rebuild_subtree(s, d, new))
  <1> DEFINE ids == TracksUnder(s.nodes, d)
             start == [nodes |-> s.nodes, dirty |-> {}]
             emptied == RemoveAll(start, ids).nodes
             e == [nodes |-> emptied, alloc |-> s.alloc, at |-> ROOT]
             r == InsertAll(e, ids, new)
  <1>1. rebuild_subtree(s, d, new) = r
    BY DEF rebuild_subtree
  <1>2. ids \subseteq TrackIds(s.nodes)
    BY DEF TracksUnder, TrackIds
  <1>3. ids \in SUBSET Tracks /\ \A id \in ids : new[id] \in Seq(Names)
    BY <1>2 DEF Placed, Renders
  <1>4. Nameable(ids, new) = ids
    BY <1>2 DEF Placed, Nameable
  <1>5. Lost(s.nodes, emptied, ids)
    <2>1. start.nodes = s.nodes
      OBVIOUS
    <2> HIDE DEF start, ids
    <2> QED
      BY <1>3, <2>1, RemoveAllOK DEF StateOK
  <1>6. e.nodes = emptied /\ e.alloc = s.alloc
    OBVIOUS
  <1> HIDE DEF emptied, ids, e
  <1>7. StateOK(e) /\ NoEmptyDirs(e.nodes, ROOT)
    BY <1>5, <1>6, InternedPart DEF Lost, StateOK
  <1>8. \A id \in ids : id \notin TrackIds(e.nodes)
    BY <1>5, <1>6 DEF Lost
  <1>9. Gained(e, r, ids, new)
    BY <1>3, <1>7, <1>8, InsertAllOK
  <1> HIDE DEF r
  <1>10. TrackIds(r.nodes) = TrackIds(s.nodes)
    BY <1>2, <1>4, <1>5, <1>6, <1>9 DEF Gained, Lost
  <1> QED
    BY <1>1, <1>6, <1>9, <1>10 DEF Gained, Grown, Rebuilt

LEMMA RebuildDirtyOK ==
  ASSUME NEW s, StateOK(s), NoEmptyDirs(s.nodes, ROOT), NEW new, Renders(new),
         TrackIds(s.nodes) \subseteq Placed(new), NEW T
  PROVE  Rebuilt(s, RebuildDirty(s, T, new))
  <1>1. Extends(s.alloc, s.alloc)
    BY ExtendsTrans DEF StateOK
  <1> DEFINE t == RebuildDirty(s, T, new)
             d == Shallowest(T, s.live)
             r == rebuild_subtree(s, d, new)
  <1>2. \/ t.nodes = s.nodes /\ t.alloc = s.alloc
        \/ t.nodes = r.nodes /\ t.alloc = r.alloc
    BY DEF RebuildDirty
  <1>3. Rebuilt(s, r)
    BY RebuildSubtreeOK
  <1> HIDE DEF t, r
  <1>4. Rebuilt(s, t)
    BY <1>1, <1>2, <1>3 DEF Rebuilt, StateOK
  <1> QED
    BY <1>4 DEF t

LEMMA RebuildAllOK ==
  ASSUME NEW s, StateOK(s), NoEmptyDirs(s.nodes, ROOT), NEW new, Renders(new),
         TrackIds(s.nodes) \subseteq Placed(new), IsFiniteSet(s.live)
  PROVE  Rebuilt(s, RebuildAll(s, new))
  <1> DEFINE N == Cardinality(s.live)
  <1>1. N \in Nat
    BY FS_CardinalityType
  <1>2. PICK g : RebuildRuns(g, s, new)
    <2>1. ASSUME N \in Nat PROVE \E g : RebuildRuns(g, s, new)
      BY <2>1, RebuildUnfolds, Zenon
    <2> QED
      BY <1>1, <2>1
  <1>3. /\ RebuildAll(s, new) = g[N] /\ g[0] = s
        /\ \A n \in 1..N : g[n] = RebuildDirty(g[n-1], s.nodes, new)
    BY <1>2 DEF RebuildRuns, RebuildStart, RebuildRound
  <1> HIDE DEF N
  <1> DEFINE S == {n \in Nat : n <= N => Rebuilt(s, g[n])}
  <1>4. 0 \in S
    BY <1>3, ExtendsTrans DEF Rebuilt, StateOK
  <1>5. ASSUME NEW n \in Nat, n \in S PROVE n + 1 \in S
    <2> SUFFICES ASSUME n + 1 <= N PROVE Rebuilt(s, g[n + 1])
      OBVIOUS
    <2>1. Rebuilt(s, g[n]) /\ n + 1 \in 1..N /\ (n + 1) - 1 = n
      BY <1>1, <1>5
    <2>2. g[n + 1] = RebuildDirty(g[n], s.nodes, new)
      BY <1>3, <2>1
    <2>3. Rebuilt(g[n], g[n + 1])
      BY <2>1, <2>2, RebuildDirtyOK DEF Rebuilt
    <2>4. Extends(s.alloc, g[n + 1].alloc)
      BY <2>1, <2>3, ExtendsTrans DEF Rebuilt, StateOK
    <2> QED
      BY <2>1, <2>3, <2>4 DEF Rebuilt
  <1>6. \A n \in Nat : n \in S
    <2> HIDE DEF S
    <2> QED
      BY <1>4, <1>5, Climb
  <1> QED
    BY <1>1, <1>3, <1>6

\* r is a tree of exactly the tracks new places, numbered by a or after it.
Refreshed(a, new, r) ==
    /\ StateOK(r) /\ NoEmptyDirs(r.nodes, ROOT)
    /\ TrackIds(r.nodes) = Placed(new) /\ Extends(a, r.alloc)

\* A full build, from an empty tree, puts every file where its path leads.
LEMMA BuildOK ==
  ASSUME NEW a, Allocated(a), NEW new, Renders(new)
  PROVE  /\ Refreshed(a, new, build_with_ci(a, new))
         /\ AtHome(build_with_ci(a, new).nodes, new)
  <1> DEFINE e == [nodes |-> EmptyTree, alloc |-> a, at |-> ROOT]
             r == InsertAll(e, Shown(new), new)
  <1>1. build_with_ci(a, new) = r
    BY DEF build_with_ci
  <1>2. e.nodes = EmptyTree /\ e.alloc = a
    OBVIOUS
  <1>3. /\ DOMAIN EmptyTree = {ROOT} /\ EmptyTree = [i \in DOMAIN EmptyTree |-> EmptyTree[i]]
        /\ EmptyTree[ROOT].parent = ROOT /\ EmptyTree[ROOT].track = Dir
    BY DEF EmptyTree
  <1> HIDE DEF e
  <1>4. WellFormed(e.nodes)
    <2>1. IsFiniteSet({ROOT}) /\ {ROOT} \subseteq Nat
      BY FS_Singleton DEF ROOT
    <2> QED
      BY <1>2, <1>3, <2>1 DEF WellFormed, IsDir
  <1>5. Sound(e.nodes) /\ NoEmptyDirs(e.nodes, ROOT)
    BY <1>2, <1>3, <1>4
    DEF Sound, UniqueNames, OneDirPerRendering, OneFilePerTrack, NoEmptyDirs, IsDir
  <1>6. StateOK(e)
    BY <1>2, <1>3, <1>5 DEF StateOK, Interned
  <1>7. TrackIds(e.nodes) = {} /\ AtHome(e.nodes, new)
    BY <1>2, <1>3 DEF TrackIds, AtHome, IsDir
  <1>8. Shown(new) \in SUBSET Tracks /\ \A id \in Shown(new) : new[id] \in Seq(Names)
    BY DEF Shown, Renders
  <1>9. Gained(e, r, Shown(new), new)
    BY <1>5, <1>6, <1>7, <1>8, InsertAllOK
  <1>10. Nameable(Shown(new), new) = Placed(new)
    BY DEF Nameable, Shown, Placed
  <1> HIDE DEF r
  <1> QED
    BY <1>1, <1>2, <1>7, <1>9, <1>10 DEF Gained, Grown, Refreshed

\* apply_changes, as a refresh that touched ids calls it.
ApplyTo(T, a, old, new, ids) ==
    apply_changes(T, a, new, {id \in ids : old[id] # None /\ new[id] # None},
                             {id \in ids : old[id] = None /\ new[id] # None},
                             {id \in ids : old[id] # None /\ new[id] = None})

\* ApplyChanges: apply_changes, told which tracks changed, gives a sound tree
\* of exactly the tracks as they are now.  Every track it takes out, to move
\* or to rebuild a directory, has a path to go back to: MissingRenderedPath
\* and the full rebuild it falls back to never happen.
THEOREM ApplyChanges ==
  ASSUME NEW T, NEW a, Sound(T), Allocated(a), Interned(T, a), NoEmptyDirs(T, ROOT),
         NEW old, NEW new, Renders(old), Renders(new), TrackIds(T) = Placed(old),
         NEW ids \in SUBSET Tracks, \A id \in Tracks \ ids : new[id] = old[id]
  PROVE  Refreshed(a, new, ApplyTo(T, a, old, new, ids))
  <1> DEFINE changed == {id \in ids : old[id] # None /\ new[id] # None}
             added == {id \in ids : old[id] = None /\ new[id] # None}
             removed == {id \in ids : old[id] # None /\ new[id] = None}
             moved_in == {id \in changed : ~Stays(T, id, new)}
             moved_out == {id \in moved_in : inode_of_track(T, id) # {}}
             leaving == removed \cup moved_out
             entering == added \cup moved_in
             dirty == UNION {UNION {dirty_removed_ancestors(T, i, id) : i \in inode_of_track(T, id)}
                               : id \in leaving}
                      \cup UNION {DirtyAdded(T, new[id], id) : id \in entering}
             start == [nodes |-> T, dirty |-> dirty]
             mid == RemoveAll(start, removed)
             cut == RemoveAll(mid, moved_out)
             e == [nodes |-> cut.nodes, alloc |-> a, at |-> ROOT]
             grown == InsertAll(e, entering, new)
             before == [nodes |-> grown.nodes, alloc |-> grown.alloc,
                        live |-> cut.dirty \cap DOMAIN grown.nodes, done |-> {}]
             r == RebuildAll(before, new)
  <1>1. ApplyTo(T, a, old, new, ids) = r
    BY DEF ApplyTo, apply_changes
  <1>2. start.nodes = T /\ e.nodes = cut.nodes /\ e.alloc = a
    OBVIOUS
  <1>3. /\ before.nodes = grown.nodes /\ before.alloc = grown.alloc
        /\ before.live = cut.dirty \cap DOMAIN grown.nodes
    OBVIOUS
  <1> HIDE DEF start, e, before
  <1>4. removed \in SUBSET Tracks /\ moved_out \in SUBSET Tracks /\ entering \in SUBSET Tracks
    OBVIOUS
  <1>5. \A id \in entering : new[id] \in Seq(Names)
    BY DEF Renders
  <1>6. \A id \in Tracks : (inode_of_track(T, id) # {}) <=> id \in TrackIds(T)
    BY DEF inode_of_track, TrackIds, Tracks, Dir
  <1>7. \A id \in changed \ moved_in : id \in Placed(old) /\ id \in Placed(new)
    <2> SUFFICES ASSUME NEW id \in changed, Stays(T, id, new)
                 PROVE  id \in Placed(old) /\ id \in Placed(new)
      OBVIOUS
    <2>1. PICK i \in inode_of_track(T, id) : path_of(T, i) = new[id]
      BY DEF Stays
    <2>2. id \in Placed(old) /\ id \in Tracks /\ id # Dir
      BY <1>6, <2>1 DEF TrackIds
    <2>3. i \in DOMAIN T \ {ROOT}
      BY <2>1, <2>2 DEF inode_of_track, Sound, WellFormed, IsDir
    <2> DEFINE up == path_of(T, T[i].parent)
               n == T[i].name
    <2>4. T[i].parent \in DOMAIN T /\ n \in Names \ Dots
      BY <2>3 DEF Sound, WellFormed
    <2>5. new[id] = Append(up, n) /\ up \in Seq(Names)
      BY <2>1, <2>3, <2>4, PathUnfolds, NumberOfPath DEF Sound
    <2> DEFINE p == new[id]
    <2>6. p \in Seq(Names) /\ p # <<>> /\ p[Len(p)] \notin Dots
      <3> HIDE DEF p, up, n
      <3>1. p = Append(up, n)
        BY <2>5 DEF p
      <3>2. p \in Seq(Names) /\ p # <<>> /\ p[Len(p)] = n
        BY <2>4, <2>5, <3>1
      <3> QED
        BY <2>4, <3>2
    <2>7. path_components(p) # <<>>
      <3> HIDE DEF p
      <3> QED
        BY <2>6, ComponentsType
    <2> QED
      BY <2>2, <2>7 DEF Placed
  <1> HIDE DEF changed, added, removed, moved_in, moved_out, entering
  <1>8. Lost(T, mid.nodes, removed)
    BY <1>2, <1>4, RemoveAllOK
  <1> HIDE DEF mid
  <1>9. Lost(mid.nodes, cut.nodes, moved_out)
    BY <1>4, <1>8, RemoveAllOK DEF Lost
  <1> HIDE DEF cut
  <1>10. Within(cut.nodes, T) /\ TrackIds(cut.nodes) = TrackIds(T) \ (removed \cup moved_out)
    BY <1>8, <1>9, WithinTrans DEF Lost
  <1>11. StateOK(e) /\ NoEmptyDirs(e.nodes, ROOT)
    BY <1>2, <1>9, <1>10, InternedPart DEF StateOK, Lost
  <1>12. \A id \in entering : id \notin TrackIds(e.nodes)
    BY <1>2, <1>4, <1>6, <1>10 DEF added, moved_in, moved_out, entering, Placed
  <1>13. Gained(e, grown, entering, new)
    BY <1>4, <1>5, <1>11, <1>12, InsertAllOK
  <1> HIDE DEF grown
  <1>14. TrackIds(grown.nodes) = (Placed(old) \ (removed \cup moved_out)) \cup Nameable(entering, new)
    BY <1>2, <1>10, <1>13 DEF Gained
  <1>15. (Placed(old) \ (removed \cup moved_out)) \cup Nameable(entering, new) = Placed(new)
    <2> SUFFICES ASSUME NEW id \in Tracks
                 PROVE  (id \in Placed(old) /\ id \notin removed \cup moved_out) \/ id \in Nameable(entering, new)
                        <=> id \in Placed(new)
      BY <1>4 DEF Placed, Nameable
    <2>1. CASE id \notin ids
      BY <2>1 DEF Placed, Nameable, removed, moved_out, moved_in, changed, entering, added
    <2>2. CASE id \in removed
      BY <2>2 DEF Placed, Nameable, removed, moved_in, changed, entering, added
    <2>3. CASE id \in added
      BY <2>3 DEF Placed, Nameable, removed, moved_out, moved_in, changed, entering, added
    <2>4. CASE id \in moved_in
      BY <1>6, <2>4 DEF Placed, Nameable, removed, moved_out, moved_in, changed, entering, added
    <2>5. CASE id \in changed \ moved_in
      BY <1>7, <2>5 DEF removed, moved_out, changed
    <2>6. CASE id \in ids /\ old[id] = None /\ new[id] = None
      BY <2>6 DEF Placed, Nameable, removed, moved_out, moved_in, changed, entering, added
    <2> QED
      BY <2>1, <2>2, <2>3, <2>4, <2>5, <2>6 DEF removed, added, changed
  <1>16. StateOK(before) /\ NoEmptyDirs(before.nodes, ROOT) /\ TrackIds(before.nodes) = Placed(new)
         /\ Extends(a, before.alloc)
    BY <1>2, <1>3, <1>13, <1>14, <1>15 DEF Gained, Grown, StateOK
  <1>17. IsFiniteSet(before.live)
    BY <1>3, <1>13, FS_Subset DEF Gained, Grown, StateOK, Sound, WellFormed
  <1>18. Rebuilt(before, r)
    BY <1>16, <1>17, RebuildAllOK
  <1> HIDE DEF r
  <1>19. Refreshed(a, new, r)
    BY <1>16, <1>18, ExtendsTrans DEF Rebuilt, Refreshed, StateOK
  <1> QED
    BY <1>1, <1>19

(***************************************************************************)
(* Publishing.                                                             *)
(***************************************************************************)

\* prune_retired forgets only paths no node is at.
LEMMA PruneRetiredOK ==
  ASSUME NEW T, WellFormed(T), NEW a, Allocated(a), Interned(T, a)
  PROVE  LET b == prune_retired(a, T) IN
         /\ Allocated(b) /\ Interned(T, b) /\ b.next = a.next
         /\ DOMAIN b.paths \subseteq DOMAIN a.paths
         /\ \A p \in DOMAIN b.paths : b.paths[p] = a.paths[p]
  <1> DEFINE live == {q \in DOMAIN a.paths : a.paths[q] \in DOMAIN T}
             b == prune_retired(a, T)
  <1>1. CASE Cardinality(DOMAIN a.paths) <= 2 * Cardinality(DOMAIN T)
    <2>1. b = a
      BY <1>1 DEF prune_retired
    <2> QED
      BY <2>1
  <1>2. CASE ~(Cardinality(DOMAIN a.paths) <= 2 * Cardinality(DOMAIN T))
    <2>1. b = [paths |-> [p \in live |-> a.paths[p]], next |-> a.next]
      BY <1>2 DEF prune_retired
    <2>2. b.next = a.next /\ DOMAIN b.paths = live /\ \A p \in live : b.paths[p] = a.paths[p]
      BY <2>1
    <2> HIDE DEF b
    <2>3. ASSUME NEW p \in live, p # <<>>
          PROVE  Front(p) \in live /\ a.paths[Front(p)] < a.paths[p]
      <3>1. a.paths[p] \in DOMAIN T /\ a.paths[p] # ROOT
        BY <2>3 DEF Allocated
      <3>2. PICK q \in DOMAIN a.paths \ {<<>>} :
               a.paths[q] = a.paths[p] /\ a.paths[Front(q)] = T[a.paths[p]].parent
        BY <3>1 DEF Interned
      <3>3. q = p
        BY <3>2 DEF Allocated
      <3>4. T[a.paths[p]].parent \in DOMAIN T
        BY <3>1 DEF WellFormed
      <3>5. Front(p) \in DOMAIN a.paths /\ a.paths[Front(p)] < a.paths[p]
        BY <2>3 DEF Allocated
      <3> QED
        BY <3>2, <3>3, <3>4, <3>5
    <2>4. <<>> \in live
      BY DEF Allocated, WellFormed
    <2>5. ASSUME NEW i \in DOMAIN T \ {ROOT}
          PROVE  \E p \in live \ {<<>>} :
                    /\ a.paths[p] = i /\ p[Len(p)] = Key(T[i].name)
                    /\ a.paths[Front(p)] = T[i].parent
      <3>1. PICK p \in DOMAIN a.paths \ {<<>>} :
               /\ a.paths[p] = i /\ p[Len(p)] = Key(T[i].name)
               /\ a.paths[Front(p)] = T[i].parent
        BY <2>5 DEF Interned
      <3> QED
        BY <3>1
    <2>6. live \subseteq DOMAIN a.paths
      OBVIOUS
    <2> HIDE DEF live
    <2>7. Allocated(b)
      BY <2>2, <2>3, <2>4, <2>6 DEF Allocated
    <2>8. Interned(T, b)
      BY <2>2, <2>3, <2>5 DEF Interned
    <2> QED
      BY <2>2, <2>6, <2>7, <2>8 DEF b
  <1> QED
    BY <1>1, <1>2

\* What is issued once T is published.
Issues(new, old, T) ==
    new = [i \in DOMAIN old \cup DOMAIN T |->
             IF i \in DOMAIN old THEN old[i] ELSE AllocKey(path_of(T, i))]

\* The numbers of a tree that was numbered by a, or after it, mean what they
\* meant before.
LEMMA IssueOK ==
  ASSUME NEW a, Allocated(a), NEW old, Issued(old, a),
         NEW r, StateOK(r), Extends(a, r.alloc),
         NEW new, Issues(new, old, r.nodes),
         NEW b, b.next = r.alloc.next, DOMAIN b.paths \subseteq DOMAIN r.alloc.paths,
         \A p \in DOMAIN b.paths : b.paths[p] = r.alloc.paths[p]
  PROVE  DOMAIN r.nodes \subseteq DOMAIN new /\ Issued(new, b)
  <1> DEFINE c == r.alloc
  <1>1. WellFormed(r.nodes) /\ Allocated(c) /\ Interned(r.nodes, c)
    BY DEF StateOK, Sound
  <1>2. \A i \in DOMAIN r.nodes :
           AllocKey(path_of(r.nodes, i)) \in DOMAIN c.paths /\ c.paths[AllocKey(path_of(r.nodes, i))] = i
    BY <1>1, NumberOfPath
  <1>3. /\ DOMAIN new = DOMAIN old \cup DOMAIN r.nodes
        /\ \A i \in DOMAIN old : new[i] = old[i]
        /\ \A i \in DOMAIN r.nodes \ DOMAIN old : new[i] = AllocKey(path_of(r.nodes, i))
    BY DEF Issues
  <1> HIDE DEF c
  <1>4. ASSUME NEW i \in DOMAIN new PROVE i \in Nat /\ i < c.next
    <2>1. CASE i \in DOMAIN old
      <3>1. i \in Nat /\ i < a.next /\ a.next <= c.next /\ a.next \in Nat /\ c.next \in Nat
        BY <1>1, <2>1 DEF Issued, Extends, Allocated, c
      <3> QED
        BY <3>1
    <2>2. CASE i \notin DOMAIN old
      <3>1. i \in 1..(c.next - 1) /\ c.next \in Nat
        BY <1>1, <1>2, <1>3, <1>4, <2>2 DEF Allocated
      <3> QED
        BY <3>1
    <2> QED
      BY <2>1, <2>2
  <1>5. ASSUME NEW p \in DOMAIN c.paths, c.paths[p] \in DOMAIN new
        PROVE  new[c.paths[p]] = p
    <2> DEFINE i == c.paths[p]
    <2>1. CASE i \in DOMAIN old
      <3>1. i \in Nat /\ i < a.next /\ a.next \in Nat
        BY <2>1 DEF Issued, Allocated
      <3>2. p \in DOMAIN a.paths /\ a.paths[p] = i
        BY <3>1 DEF Extends, c
      <3> QED
        BY <1>3, <2>1, <3>2 DEF Issued
    <2>2. CASE i \notin DOMAIN old
      <3>1. i \in DOMAIN r.nodes
        BY <1>3, <1>5, <2>2
      <3>2. c.paths[AllocKey(path_of(r.nodes, i))] = c.paths[p]
            /\ AllocKey(path_of(r.nodes, i)) \in DOMAIN c.paths
        BY <1>2, <3>1
      <3>3. AllocKey(path_of(r.nodes, i)) = p
        BY <1>1, <3>2 DEF Allocated
      <3> QED
        BY <1>3, <2>2, <3>1, <3>3
    <2> QED
      BY <2>1, <2>2
  <1> QED
    BY <1>3, <1>4, <1>5 DEF Issued, c

(***************************************************************************)
(* Directories and tags.                                                   *)
(***************************************************************************)

\* The first N components of a path, as this mount compares names.
Turns(comps, N) == [n \in 1..N |-> Key(truncate_component(comps[n]))]

\* The same turns lead to the same directory.
LEMMA SameTurnsMeet ==
  ASSUME NEW T, Sound(T), NEW N \in Nat, NEW c, NEW d, NEW v, NEW w,
         Leads(T, c, N, v), Leads(T, d, N, w), Turns(c, N) = Turns(d, N)
  PROVE  v[N] = w[N]
  <1>1. \A n \in 1..N : Key(truncate_component(c[n])) = Key(truncate_component(d[n]))
    <2>1. \A n \in 1..N : Turns(c, N)[n] = Turns(d, N)[n]
      OBVIOUS
    <2> QED
      BY <2>1 DEF Turns
  <1> DEFINE S == {n \in Nat : n <= N => v[n] = w[n]}
  <1>2. 0 \in S
    BY DEF Leads
  <1>3. ASSUME NEW n \in Nat, n \in S PROVE n + 1 \in S
    <2> SUFFICES ASSUME n + 1 <= N PROVE v[n + 1] = w[n + 1]
      OBVIOUS
    <2>1. v[n] = w[n] /\ n + 1 \in 1..N /\ (n + 1) - 1 = n
      BY <1>3
    <2>2. StepsTo(T, c[n + 1], v[n], v[n + 1]) /\ StepsTo(T, d[n + 1], w[n], w[n + 1])
      BY <2>1 DEF Leads
    <2>3. Key(truncate_component(c[n + 1])) = Key(truncate_component(d[n + 1]))
      BY <1>1, <2>1
    <2> QED
      BY <2>1, <2>2, <2>3 DEF StepsTo, Sound, OneDirPerRendering
  <1>4. \A n \in Nat : n \in S
    <2> HIDE DEF S
    <2> QED
      BY <1>2, <1>3, Climb
  <1> QED
    BY <1>4

\* Two walks that end in one directory are one walk: a directory has one
\* parent and one rendered name.
LEMMA MeetSameTurns ==
  ASSUME NEW T, NEW N \in Nat, NEW M \in Nat, NEW c, NEW d, NEW v, NEW w,
         Leads(T, c, N, v), Leads(T, d, M, w), v[N] = w[M]
  PROVE  Turns(c, N) = Turns(d, M)
  <1> DEFINE S == {n \in Nat : n <= N /\ n <= M => v[N - n] = w[M - n]}
  <1>1. /\ v[0] = ROOT /\ w[0] = ROOT
        /\ \A n \in 1..N : StepsTo(T, c[n], v[n-1], v[n])
        /\ \A n \in 1..M : StepsTo(T, d[n], w[n-1], w[n])
    BY DEF Leads
  <1>2. 0 \in S
    OBVIOUS
  <1>3. ASSUME NEW n \in Nat, n \in S PROVE n + 1 \in S
    <2> SUFFICES ASSUME n + 1 <= N, n + 1 <= M PROVE v[N - (n + 1)] = w[M - (n + 1)]
      OBVIOUS
    <2> DEFINE i == N - n
               j == M - n
    <2>1. i \in 1..N /\ j \in 1..M /\ i - 1 = N - (n + 1) /\ j - 1 = M - (n + 1)
      OBVIOUS
    <2>2. v[i] = w[j]
      BY <1>3
    <2> HIDE DEF i, j
    <2>3. StepsTo(T, c[i], v[i-1], v[i]) /\ StepsTo(T, d[j], w[j-1], w[j])
      BY <1>1, <2>1
    <2>4. v[i-1] = w[j-1]
      BY <2>2, <2>3 DEF StepsTo
    <2> QED
      BY <2>1, <2>4
  <1>4. \A n \in Nat : n <= N /\ n <= M => v[N - n] = w[M - n]
    <2>1. \A n \in Nat : n \in S
      <3> HIDE DEF S
      <3> QED
        BY <1>2, <1>3, Climb
    <2> QED
      BY <2>1
  <1>5. ~(N < M)
    <2> SUFFICES ASSUME N < M PROVE FALSE
      OBVIOUS
    <2>1. v[0] = w[M - N] /\ M - N \in 1..M
      <3>1. v[N - N] = w[M - N] /\ N - N = 0
        BY <1>4
      <3> QED
        BY <3>1
    <2>2. w[M - N] # ROOT
      BY <1>1, <2>1 DEF StepsTo
    <2> QED
      BY <1>1, <2>1, <2>2
  <1>6. ~(M < N)
    <2> SUFFICES ASSUME M < N PROVE FALSE
      OBVIOUS
    <2>1. v[N - M] = w[0] /\ N - M \in 1..N
      <3>1. v[N - M] = w[M - M] /\ M - M = 0
        BY <1>4
      <3> QED
        BY <3>1
    <2>2. v[N - M] # ROOT
      BY <1>1, <2>1 DEF StepsTo
    <2> QED
      BY <1>1, <2>1, <2>2
  <1>7. N = M
    BY <1>5, <1>6
  <1>8. ASSUME NEW n \in 1..N PROVE Key(truncate_component(c[n])) = Key(truncate_component(d[n]))
    <2>1. v[n] = w[n]
      <3>1. N - n \in Nat /\ N - n <= N /\ N - (N - n) = n
        OBVIOUS
      <3> QED
        BY <1>4, <1>7, <3>1
    <2>2. StepsTo(T, c[n], v[n-1], v[n]) /\ StepsTo(T, d[n], w[n-1], w[n])
      BY <1>1, <1>7
    <2> QED
      BY <2>1, <2>2 DEF StepsTo
  <1> QED
    BY <1>7, <1>8 DEF Turns

\* In a tree whose files are where their paths lead, two files are in one
\* directory exactly when their paths turn the same way.
LEMMA HomesAgree ==
  ASSUME NEW T, Sound(T), NEW new, AtHome(T, new), Renders(new), TrackIds(T) = Placed(new),
         NEW x \in DOMAIN T, NEW y \in DOMAIN T, ~IsDir(T, x), ~IsDir(T, y)
  PROVE  (T[x].parent = T[y].parent) <=> (Home(new[T[x].track]) = Home(new[T[y].track]))
  <1> DEFINE p(i) == path_components(new[T[i].track])
             L(i) == Len(p(i)) - 1
  <1>1. ASSUME NEW i \in DOMAIN T, ~IsDir(T, i)
        PROVE  /\ L(i) \in Nat /\ Home(new[T[i].track]) = Turns(p(i), L(i))
               /\ \E w : Leads(T, p(i), L(i), w) /\ w[L(i)] = T[i].parent
    <2>1. T[i].track \in Placed(new)
      BY <1>1 DEF TrackIds, IsDir
    <2>2. new[T[i].track] \in Seq(Names) /\ p(i) # <<>>
      BY <2>1 DEF Placed, Renders
    <2>3. p(i) \in Seq(Names \ Dots)
      BY <2>2, ComponentsType
    <2>4. L(i) \in Nat
      <3> DEFINE q == p(i)
      <3>1. q \in Seq(Names \ Dots) /\ q # <<>>
        BY <2>2, <2>3
      <3> HIDE DEF q
      <3>2. Len(q) - 1 \in Nat
        BY <3>1
      <3> QED
        BY <3>2 DEF q
    <2>5. Home(new[T[i].track]) = Turns(p(i), L(i))
      BY DEF Home, Turns
    <2> QED
      BY <1>1, <2>4, <2>5 DEF AtHome
  <1> DEFINE c == p(x)
             d == p(y)
             N == L(x)
             M == L(y)
  <1>2. PICK v : Leads(T, c, N, v) /\ v[N] = T[x].parent
    BY <1>1
  <1>3. PICK w : Leads(T, d, M, w) /\ w[M] = T[y].parent
    BY <1>1
  <1>4. N \in Nat /\ M \in Nat /\ Home(new[T[x].track]) = Turns(c, N) /\ Home(new[T[y].track]) = Turns(d, M)
    BY <1>1
  <1> HIDE DEF c, d, N, M
  <1>5. ASSUME Turns(c, N) = Turns(d, M) PROVE v[N] = w[M]
    <2>1. N = M
      <3>1. DOMAIN Turns(c, N) = 1..N /\ DOMAIN Turns(d, M) = 1..M
        BY DEF Turns
      <3>2. 1..N = 1..M
        BY <1>5, <3>1
      <3> QED
        BY <1>4, <3>2
    <2> QED
      BY <1>2, <1>3, <1>4, <1>5, <2>1, SameTurnsMeet
  <1>6. ASSUME v[N] = w[M] PROVE Turns(c, N) = Turns(d, M)
    BY <1>2, <1>3, <1>4, <1>6, MeetSameTurns
  <1> QED
    BY <1>2, <1>3, <1>4, <1>5, <1>6

(***************************************************************************)
(* The invariant.                                                          *)
(***************************************************************************)

\* Whatever the store has for the tracks, a full load renders paths of it.
LEMMA EntriesRender ==
  ASSUME NEW stored \in [Tracks -> TagRows \cup {None}]
  PROVE  /\ render_entries(stored) = [id \in Tracks |-> render_entries(stored)[id]]
         /\ Renders(render_entries(stored))
  BY PathAssumption DEF render_entries, Renders

\* Musefs::open builds the tree of whatever the store holds.
LEMMA InitInv == Init => IInv
  <1> SUFFICES ASSUME Init PROVE IInv
    OBVIOUS
  <1> DEFINE s == build_with_ci(NewAllocator, paths)
  <1>1. /\ rows \in [Tracks -> TagRows \cup {None}] /\ touched = 0 /\ paths = render_entries(rows)
        /\ nodes = s.nodes /\ alloc = s.alloc
        /\ issued = [i \in DOMAIN s.nodes |-> AllocKey(path_of(s.nodes, i))]
    BY DEF Init
  <1>2. StoreOK
    <2>1. touched \in 0..MaxTouched
      BY <1>1, TreeAssumption
    <2> QED
      BY <1>1, <2>1, EntriesRender DEF StoreOK, Renders
  <1>3. Allocated(NewAllocator)
    <2>1. /\ NewAllocator.next = 2 /\ DOMAIN NewAllocator.paths = {<<>>}
          /\ NewAllocator.paths[<<>>] = ROOT
      BY DEF NewAllocator
    <2>2. <<>> \in Seq(Names)
      OBVIOUS
    <2> QED
      BY <2>1, <2>2 DEF Allocated, ROOT
  <1>4. Refreshed(NewAllocator, paths, s)
    BY <1>1, <1>3, EntriesRender, BuildOK
  <1> DEFINE none == [i \in {} |-> <<>>]
  <1>5. Issued(none, NewAllocator) /\ DOMAIN none = {}
    BY DEF Issued
  <1> HIDE DEF s, none
  <1>6. Issues(issued, none, s.nodes)
    BY <1>1, <1>5 DEF Issues
  <1>7. DOMAIN nodes \subseteq DOMAIN issued /\ Issued(issued, alloc)
    <2>1. DOMAIN s.nodes \subseteq DOMAIN issued /\ Issued(issued, s.alloc)
      BY <1>3, <1>4, <1>5, <1>6, IssueOK DEF Refreshed
    <2> QED
      BY <1>1, <2>1
  <1> QED
    BY <1>1, <1>2, <1>4, <1>7 DEF IInv, Refreshed, StateOK

\* Publishing a refreshed tree restores the invariant.
LEMMA PublishInv ==
  ASSUME IInv, NEW new, new = [id \in Tracks |-> new[id]], Renders(new),
         NEW s, Refreshed(alloc, new, s), Publish(new, s),
         rows' \in [Tracks -> TagRows \cup {None}], touched' \in 0..MaxTouched
  PROVE  IInv'
  <1>1. /\ paths' = new /\ nodes' = s.nodes /\ alloc' = prune_retired(s.alloc, s.nodes)
        /\ Issues(issued', issued, s.nodes)
    BY DEF Publish, Issues
  <1>2. StoreOK'
    BY <1>1 DEF StoreOK, Renders
  <1>3. StateOK(s) /\ NoEmptyDirs(s.nodes, ROOT) /\ TrackIds(s.nodes) = Placed(new)
        /\ Extends(alloc, s.alloc)
    BY DEF Refreshed
  <1> DEFINE b == prune_retired(s.alloc, s.nodes)
             iss == issued'
  <1>4. /\ Allocated(b) /\ Interned(s.nodes, b) /\ b.next = s.alloc.next
        /\ DOMAIN b.paths \subseteq DOMAIN s.alloc.paths
        /\ \A p \in DOMAIN b.paths : b.paths[p] = s.alloc.paths[p]
    BY <1>3, PruneRetiredOK DEF StateOK, Sound
  <1>5. Allocated(alloc) /\ Issued(issued, alloc)
    BY DEF IInv
  <1> HIDE DEF b
  <1>6. DOMAIN s.nodes \subseteq DOMAIN iss /\ Issued(iss, b)
    BY <1>1, <1>3, <1>4, <1>5, IssueOK
  <1>7. alloc' = b
    BY <1>1 DEF b
  <1>8. /\ Sound(nodes') /\ NoEmptyDirs(nodes', ROOT) /\ TrackIds(nodes') = Placed(paths')
        /\ Allocated(alloc') /\ Interned(nodes', alloc')
        /\ DOMAIN nodes' \subseteq DOMAIN issued' /\ Issued(issued', alloc')
    BY <1>1, <1>3, <1>4, <1>6, <1>7 DEF StateOK
  <1> QED
    BY <1>2, <1>8 DEF IInv

\* What a commit may leave in the store.
LEMMA RetaggedType ==
  ASSUME IInv, NEW ids \in SUBSET Tracks, NEW stored \in Retagged(ids)
  PROVE  /\ stored \in [Tracks -> TagRows \cup {None}]
         /\ \A id \in Tracks \ ids : stored[id] = rows[id]
  BY DEF IInv, StoreOK, Retagged

LEMMA TouchedType ==
  ASSUME IInv, NEW ids \in SUBSET Tracks, touched + Cardinality(ids) <= MaxTouched,
         touched' = touched + Cardinality(ids)
  PROVE  touched' \in 0..MaxTouched
  <1>1. IsFiniteSet(ids)
    <2>1. IsFiniteSet(1..MaxTrack)
      BY FS_Interval, TreeAssumption
    <2> QED
      BY <2>1, FS_Subset DEF Tracks
  <1>2. Cardinality(ids) \in Nat
    BY <1>1, FS_CardinalityType
  <1> QED
    BY <1>2, TreeAssumption DEF IInv, StoreOK

\* One refresh, incremental or full.
LEMMA NextInv == IInv /\ [Next]_vars => IInv'
  <1> SUFFICES ASSUME IInv, [Next]_vars PROVE IInv'
    OBVIOUS
  <1>1. CASE UNCHANGED vars
    BY <1>1 DEF vars, IInv, StoreOK
  <1>2. CASE Next
    <2>6. PICK ids \in SUBSET Tracks :
             /\ touched + Cardinality(ids) <= MaxTouched
             /\ touched' = touched + Cardinality(ids)
             /\ \E stored \in Retagged(ids) :
                  rows' = stored /\ (Incremental(stored, ids) \/ FullRebuild(stored))
      BY <1>2 DEF Next
    <2>1. PICK stored \in Retagged(ids) :
             rows' = stored /\ (Incremental(stored, ids) \/ FullRebuild(stored))
      BY <2>6
    <2>2. stored \in [Tracks -> TagRows \cup {None}] /\ \A id \in Tracks \ ids : stored[id] = rows[id]
      BY RetaggedType
    <2>3. rows' \in [Tracks -> TagRows \cup {None}] /\ touched' \in 0..MaxTouched
      BY <2>1, <2>2, <2>6, TouchedType
    <2>4. CASE Incremental(stored, ids)
      <3> DEFINE new == [id \in Tracks |-> IF id \in ids THEN LoadedPaths[stored[id]] ELSE paths[id]]
                 r == ApplyTo(nodes, alloc, paths, new, ids)
      <3>1. Publish(new, r)
        BY <2>4 DEF Incremental, ApplyTo
      <3>2. Renders(paths)
        BY DEF IInv, StoreOK, Renders
      <3>3. Renders(new)
        BY <2>2, <3>2, PathAssumption DEF Renders
      <3>4. (\A id \in Tracks \ ids : new[id] = paths[id]) /\ new = [id \in Tracks |-> new[id]]
        OBVIOUS
      <3> HIDE DEF new
      <3>5. Refreshed(alloc, new, r)
        BY <3>2, <3>3, <3>4, ApplyChanges DEF IInv
      <3> HIDE DEF r
      <3> QED
        BY <2>3, <3>1, <3>3, <3>4, <3>5, PublishInv
    <2>5. CASE FullRebuild(stored)
      <3> DEFINE new == render_entries(stored)
                 r == build_with_ci(alloc, new)
      <3>1. Publish(new, r)
        BY <2>5 DEF FullRebuild
      <3>2. Renders(new) /\ new = [id \in Tracks |-> new[id]]
        BY <2>2, EntriesRender
      <3> HIDE DEF new
      <3>3. Refreshed(alloc, new, r)
        BY <3>2, BuildOK DEF IInv
      <3> HIDE DEF r
      <3> QED
        BY <2>3, <3>1, <3>2, <3>3, PublishInv
    <2> QED
      BY <2>1, <2>4, <2>5
  <1> QED
    BY <1>1, <1>2

(***************************************************************************)
(* The theorems.                                                           *)
(***************************************************************************)

\* TreeInvariant: between refreshes the tree is sound, its files are the
\* tracks that have a path, and every node has the number the allocator keeps
\* for its path, however the refreshes grouped the changes.
THEOREM TreeInvariant == Spec => []IInv
  BY InitInv, NextInv, PTL DEF Spec

\* LookupUnambiguous: lookup in a directory never has two children to choose
\* from, and no name of the library shadows an injected one, whatever the
\* tags, their case folding and the ranks already spelled out in them.
THEOREM LookupUnambiguous == Spec => []LookupIsUnambiguous
  <1>1. IInv => LookupIsUnambiguous
    BY DEF IInv, Sound, UniqueNames, LookupIsUnambiguous
  <1> QED
    BY <1>1, TreeInvariant, PTL

\* NumbersNeverReissued: an inode number the kernel has seen means the path it
\* was issued for, though prune_retired forgets paths that are not in use.
THEOREM NumbersNeverReissued == Spec => []InodesNeverReissued
  <1>1. IInv => InodesNeverReissued
    <2> SUFFICES ASSUME IInv, NEW i \in DOMAIN nodes PROVE issued[i] = AllocKey(path_of(nodes, i))
      BY DEF InodesNeverReissued
    <2>1. AllocKey(path_of(nodes, i)) \in DOMAIN alloc.paths
          /\ alloc.paths[AllocKey(path_of(nodes, i))] = i
      BY NumberOfPath DEF IInv, Sound
    <2>2. i \in DOMAIN issued
      BY DEF IInv
    <2> QED
      BY <2>1, <2>2 DEF IInv, Issued
  <1> QED
    BY <1>1, TreeInvariant, PTL

\* TreeHangsTogether: every node hangs below a directory, every directory but
\* the root leads to a file, and every shown track is exactly one file, after
\* any number of insertions, removals, prunings and subtree rebuilds.
THEOREM TreeHangsTogether == Spec => []TreeOK
  <1>1. IInv => TreeOK
    <2> SUFFICES ASSUME IInv PROVE TreeOK
      OBVIOUS
    <2>1. Sound(nodes) /\ NoEmptyDirs(nodes, ROOT) /\ TrackIds(nodes) = Placed(paths)
      BY DEF IInv
    <2>2. IsDir(nodes, ROOT) /\ ROOT \in DOMAIN nodes /\ nodes[ROOT].parent = ROOT
      BY <2>1 DEF Sound, WellFormed
    <2>3. ASSUME NEW i \in DOMAIN nodes
          PROVE  /\ nodes[i].parent \in DOMAIN nodes /\ IsDir(nodes, nodes[i].parent)
                 /\ (IsDir(nodes, i) /\ i # ROOT) => Kids(nodes, i) # {}
      BY <2>1, <2>2 DEF Sound, WellFormed, NoEmptyDirs
    <2>4. ASSUME NEW id \in Tracks
          PROVE  Cardinality(inode_of_track(nodes, id))
                   = IF paths[id] # None /\ path_components(paths[id]) # <<>> THEN 1 ELSE 0
      <3>1. id # Dir
        BY DEF Tracks, Dir
      <3>2. id \in TrackIds(nodes) <=> id \in Placed(paths)
        BY <2>1
      <3>3. CASE id \in Placed(paths)
        <4>1. PICK i \in DOMAIN nodes : nodes[i].track = id
          BY <3>2, <3>3 DEF TrackIds
        <4>2. inode_of_track(nodes, id) = {i}
          BY <2>1, <3>1, <4>1 DEF inode_of_track, Sound, OneFilePerTrack, IsDir
        <4>3. Cardinality(inode_of_track(nodes, id)) = 1
          BY <4>2, FS_Singleton
        <4> QED
          BY <3>3, <4>3 DEF Placed
      <3>4. CASE id \notin Placed(paths)
        <4>1. inode_of_track(nodes, id) = {}
          BY <3>1, <3>2, <3>4 DEF inode_of_track, TrackIds
        <4>2. Cardinality(inode_of_track(nodes, id)) = 0
          BY <4>1, FS_EmptySet
        <4> QED
          BY <3>4, <4>2 DEF Placed
      <3> QED
        BY <3>3, <3>4
    <2>5. rows \in [Tracks -> TagRows \cup {None}] /\ touched \in 0..MaxTouched
      BY DEF IInv, StoreOK
    <2> QED
      BY <2>2, <2>3, <2>4, <2>5 DEF TreeOK
  <1> QED
    BY <1>1, TreeInvariant, PTL

\* DirectoriesAreTags: whenever the tree is the one a full build gives, two
\* tracks share a directory exactly when their tags render the same one: a
\* collision neither merges two directories nor splits one.
THEOREM DirectoriesAreTags == Spec => []DirectoriesFollowTags
  <1>1. IInv => DirectoriesFollowTags
    <2> SUFFICES ASSUME IInv, MatchesBuild,
                        NEW x \in {i \in DOMAIN nodes : ~IsDir(nodes, i)},
                        NEW y \in {i \in DOMAIN nodes : ~IsDir(nodes, i)}
                 PROVE  (nodes[x].parent = nodes[y].parent)
                          <=> (Home(paths[nodes[x].track]) = Home(paths[nodes[y].track]))
      BY DEF DirectoriesFollowTags
    <2>1. Renders(paths)
      BY DEF IInv, StoreOK, Renders
    <2>2. AtHome(nodes, paths)
      BY <2>1, BuildOK DEF IInv, MatchesBuild
    <2> QED
      BY <2>1, <2>2, HomesAgree DEF IInv
  <1> QED
    BY <1>1, TreeInvariant, PTL

\* Either refresh renders a track's tags to the same path.
LoadsAgree == \A r \in TagRows \cup {None} : KeyedPaths[r] = LoadedPaths[r]

\* PathsAreTags: if a full rebuild and an incremental refresh render the same
\* path from every set of tags, which is what MCVirtualTree checks of
\* Template, a track is where all its tags of the moment put it, whichever
\* refresh last rendered it; and no node is named "", "." or "..".
THEOREM PathsAreTags == ASSUME LoadsAgree PROVE Spec => []PathsFollowTags
  <1> DEFINE Follow == \A id \in Tracks : paths[id] = LoadedPaths[rows[id]]
  <1>1. Init => Follow
    BY DEF Init, render_entries, LoadsAgree
  <1>2. IInv /\ Follow /\ [Next]_vars => Follow'
    <2> SUFFICES ASSUME IInv, Follow, [Next]_vars, NEW id \in Tracks
                 PROVE  paths'[id] = LoadedPaths[rows'[id]]
      OBVIOUS
    <2>1. CASE UNCHANGED vars
      BY <2>1 DEF vars
    <2>2. CASE Next
      <3>5. PICK ids \in SUBSET Tracks :
               \E stored \in Retagged(ids) :
                  rows' = stored /\ (Incremental(stored, ids) \/ FullRebuild(stored))
        BY <2>2 DEF Next
      <3>1. PICK stored \in Retagged(ids) :
               rows' = stored /\ (Incremental(stored, ids) \/ FullRebuild(stored))
        BY <3>5
      <3>2. stored \in [Tracks -> TagRows \cup {None}] /\ \A i \in Tracks \ ids : stored[i] = rows[i]
        BY RetaggedType
      <3>3. CASE Incremental(stored, ids)
        <4>1. paths' = [i \in Tracks |-> IF i \in ids THEN LoadedPaths[stored[i]] ELSE paths[i]]
          BY <3>3 DEF Incremental, Publish
        <4> QED
          BY <3>1, <3>2, <4>1
      <3>4. CASE FullRebuild(stored)
        <4>1. paths' = [i \in Tracks |-> KeyedPaths[stored[i]]]
          BY <3>4 DEF FullRebuild, Publish, render_entries
        <4> QED
          BY <3>1, <3>2, <4>1 DEF LoadsAgree
      <3> QED
        BY <3>1, <3>3, <3>4
    <2> QED
      BY <2>1, <2>2
  <1>3. IInv /\ Follow => PathsFollowTags
    BY DEF IInv, Sound, WellFormed, PathsFollowTags
  <1> QED
    BY <1>1, <1>2, <1>3, TreeInvariant, PTL DEF Spec
=============================================================================
