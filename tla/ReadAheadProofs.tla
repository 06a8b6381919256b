-------------------------- MODULE ReadAheadProofs --------------------------
(***************************************************************************)
(* Proofs about ReadAhead: the type of its state, that the pool's counter  *)
(* is exact at every instant, and that it never leaks.                     *)
(*                                                                         *)
(* A buffer is known through the sum of its windows' lengths only.  A step *)
(* changes one buffer, one thread's or one handle's share and the counter; *)
(* SumChange of SumProofs says what that does to the sums.                 *)
(***************************************************************************)
EXTENDS ReadAhead, SumProofs, SequenceTheorems

(***************************************************************************)
(* Least and greatest.                                                     *)
(***************************************************************************)

\* The smaller of two numbers.
LEMMA MinOfTwo ==
  ASSUME NEW a \in Int, NEW b \in Int
  PROVE  Min({a, b}) = IF a <= b THEN a ELSE b
  <1>1. \E x \in {a, b} : \A y \in {a, b} : x <= y
    OBVIOUS
  <1> QED
    BY <1>1 DEF Min

\* The larger of two numbers.
LEMMA MaxOfTwo ==
  ASSUME NEW a \in Int, NEW b \in Int
  PROVE  Max({a, b}) = IF a >= b THEN a ELSE b
  <1>1. \E x \in {a, b} : \A y \in {a, b} : x >= y
    OBVIOUS
  <1> QED
    BY <1>1 DEF Max

\* A set of numbers below a bound has a least and a greatest member.
LEMMA Extremes ==
  ASSUME NEW N \in Nat, NEW S, S \subseteq 0..N, S # {}
  PROVE  Min(S) \in S /\ Max(S) \in S
  <1>1. PICK n \in S : \A m \in S : n <= m
    BY LeastNumber
  <1> DEFINE Mirror == {k \in 0..N : N - k \in S}
  <1>2. PICK k \in Mirror : \A m \in Mirror : k <= m
    <2>1. Mirror \in SUBSET (0..N) /\ Mirror # {}
      <3>1. PICK x \in S : x \in 0..N
        OBVIOUS
      <3>2. N - x \in 0..N /\ N - (N - x) = x
        BY <3>1
      <3> QED
        BY <3>2
    <2> HIDE DEF Mirror
    <2> QED
      BY <2>1, LeastNumber
  <1>3. N - k \in S /\ \A y \in S : N - k >= y
    <2>1. ASSUME NEW y \in S PROVE N - k >= y
      <3>1. y \in 0..N /\ N - y \in 0..N /\ N - (N - y) = y
        OBVIOUS
      <3>2. N - y \in Mirror
        BY <3>1
      <3> QED
        BY <1>2, <3>1, <3>2
    <2> QED
      BY <1>2, <2>1
  <1> QED
    BY <1>1, <1>3 DEF Min, Max

(***************************************************************************)
(* Windows.                                                                *)
(***************************************************************************)
Spans == [len : Nat, ver : Nat]

WindowMaps == UNION {[D -> Spans] : D \in SUBSET (0..(BackingLen - 1))}

\* No window reaches beyond the backing file.
Fits(ws) == \A s \in DOMAIN ws : End(ws, s) <= BackingLen

Buffers == [windows : WindowMaps, next : Nat, window : Nat, cap : Nat, max : 1..5]

BufferOK(b) == b \in Buffers /\ Fits(b.windows) /\ Cardinality(DOMAIN b.windows) <= 5

\* The parameters are positive.
LEMMA Parameters ==
  /\ BackingLen \in Nat \ {0} /\ Budget \in Nat \ {0} /\ WINDOW_FLOOR \in Nat \ {0}
  /\ WINDOW_ABS_CAP \in Nat \ {0} /\ PER_STREAM_DIVISOR \in Nat \ {0}
  BY WindowsAssumption

\* What a map of windows is.
LEMMA MapFacts ==
  ASSUME NEW ws \in WindowMaps
  PROVE  /\ DOMAIN ws \subseteq 0..(BackingLen - 1) /\ IsFiniteSet(DOMAIN ws)
         /\ Cardinality(DOMAIN ws) \in Nat
         /\ \A s \in DOMAIN ws : ws[s] \in Spans /\ ws[s].len \in Nat /\ s \in Nat
         /\ ws \in [DOMAIN ws -> Spans]
  <1>1. PICK D \in SUBSET (0..(BackingLen - 1)) : ws \in [D -> Spans]
    BY DEF WindowMaps
  <1>2. IsFiniteSet(0..(BackingLen - 1)) /\ BackingLen - 1 \in Nat
    BY Parameters, FS_Interval
  <1>3. IsFiniteSet(D) /\ Cardinality(D) \in Nat
    BY <1>2, FS_Subset, FS_CardinalityType
  <1> QED
    BY <1>1, <1>2, <1>3 DEF Spans

\* Windows that are left out leave a map.
LEMMA PartOfMap ==
  ASSUME NEW ws \in WindowMaps, NEW D \in SUBSET (DOMAIN ws)
  PROVE  /\ Restrict(ws, D) \in WindowMaps /\ DOMAIN Restrict(ws, D) = D
         /\ Fits(ws) => Fits(Restrict(ws, D))
  <1>1. D \in SUBSET (0..(BackingLen - 1)) /\ \A s \in D : ws[s] \in Spans
    BY MapFacts
  <1>2. Restrict(ws, D) \in [D -> Spans] /\ \A s \in D : Restrict(ws, D)[s] = ws[s]
    BY <1>1 DEF Restrict
  <1> QED
    BY <1>1, <1>2 DEF WindowMaps, Fits, End

\* The victim is a window of the buffer.
LEMMA VictimIsWindow ==
  ASSUME NEW ws \in WindowMaps, Fits(ws), DOMAIN ws # {}, NEW frontier
  PROVE  evict_victim(ws, frontier) \in DOMAIN ws
  <1> DEFINE consumed == {s \in DOMAIN ws : End(ws, s) <= frontier}
             ahead == {s \in DOMAIN ws : s > frontier}
             shortest == {s \in DOMAIN ws : \A t \in DOMAIN ws : End(ws, s) <= End(ws, t)}
             ends == {e \in 0..BackingLen : \E s \in DOMAIN ws : e = End(ws, s)}
  <1>1. DOMAIN ws \subseteq 0..BackingLen /\ BackingLen \in Nat
    BY MapFacts, Parameters
  <1>2. shortest # {}
    <2>1. \A s \in DOMAIN ws : End(ws, s) \in ends
      BY MapFacts, Parameters DEF Fits, End
    <2>2. PICK e \in ends : \A m \in ends : e <= m
      <3>1. ends \in SUBSET (0..BackingLen) /\ ends # {}
        BY <2>1
      <3> HIDE DEF ends
      <3> QED
        BY <1>1, <3>1, LeastNumber
    <2>3. PICK s \in DOMAIN ws : e = End(ws, s)
      OBVIOUS
    <2> QED
      BY <2>1, <2>2, <2>3
  <1>3. /\ consumed \subseteq 0..BackingLen /\ ahead \subseteq 0..BackingLen
        /\ shortest \subseteq 0..BackingLen
    BY <1>1
  <1>4. evict_victim(ws, frontier) \in consumed \cup ahead \cup shortest
    <2>1. evict_victim(ws, frontier) =
             IF consumed # {} THEN Min(consumed)
             ELSE IF ahead # {} THEN Max(ahead) ELSE Min(shortest)
      BY DEF evict_victim
    <2> HIDE DEF consumed, ahead, shortest
    <2> QED
      BY <1>1, <1>2, <1>3, <2>1, Extremes
  <1> QED
    BY <1>4

(***************************************************************************)
(* Inserting a window.                                                     *)
(***************************************************************************)

\* The names insert_window gives its parts.
Inserted(b, start, w) ==
    [s \in DOMAIN b.windows \cup {start} |-> IF s = start THEN w ELSE b.windows[s]]

Surplus(b, start, w) == Max({0, Cardinality(DOMAIN Inserted(b, start, w)) - b.max})

TrimStep(left, all, frontier, n) ==
    IF n = 0 THEN all
    ELSE Restrict(left[n - 1], DOMAIN left[n - 1] \ {evict_victim(left[n - 1], frontier)})

Trims(left, all, frontier, N) == left = [n \in 0..N |-> TrimStep(left, all, frontier, n)]

\* The eviction of a window after the other, as a recursive function.
LEMMA InsertTrims ==
  ASSUME NEW b, NEW start, NEW w
  PROVE  insert_window(b, start, w) =
           [b EXCEPT !.windows =
              (CHOOSE left : Trims(left, Inserted(b, start, w), b.next, Surplus(b, start, w)))
                 [Surplus(b, start, w)]]
  BY DEF insert_window, Inserted, Surplus, Trims, TrimStep

\* That function exists.
LEMMA TrimsExists ==
  ASSUME NEW all, NEW frontier, NEW N \in Nat
  PROVE  \E left : Trims(left, all, frontier, N)
  <1> DEFINE UpTo(g, n) == \A m \in 0..n : g[m] = TrimStep(g, all, frontier, m)
             Bad == {n \in 0..N : ~\E g : UpTo(g, n)}
  <1>1. Bad = {}
    <2> SUFFICES ASSUME Bad # {} PROVE FALSE
      OBVIOUS
    <2>1. PICK n \in Bad : \A m \in Bad : n <= m
      <3>1. Bad \in SUBSET (0..N)
        OBVIOUS
      <3> HIDE DEF Bad
      <3> QED
        BY <3>1, LeastNumber
    <2>2. CASE n = 0
      <3> DEFINE g == [m \in {0} |-> all]
      <3>1. g[0] = TrimStep(g, all, frontier, 0) /\ 0..n = {0}
        BY <2>2 DEF TrimStep
      <3>2. UpTo(g, n)
        BY <3>1
      <3> QED
        BY <3>2
    <2>3. CASE n # 0
      <3>1. n - 1 \in 0..N /\ n \in Nat /\ n - 1 \notin Bad
        BY <2>1, <2>3
      <3>2. PICK g : UpTo(g, n - 1)
        BY <3>1
      <3> DEFINE more == [m \in 0..n |-> TrimStep(g, all, frontier, m)]
      <3>3. \A m \in 0..(n - 1) : more[m] = g[m]
        BY <3>1, <3>2
      <3>4. \A m \in 0..n : m # 0 => m - 1 \in 0..(n - 1)
        BY <3>1
      <3>5. \A m \in 0..n : more[m] = TrimStep(g, all, frontier, m)
        OBVIOUS
      <3> HIDE DEF more
      <3>6. \A m \in 0..n : more[m] = TrimStep(more, all, frontier, m)
        BY <3>3, <3>4, <3>5 DEF TrimStep
      <3> QED
        BY <3>6
    <2> QED
      BY <2>2, <2>3
  <1>2. PICK g : UpTo(g, N)
    BY <1>1
  <1> DEFINE left == [m \in 0..N |-> g[m]]
  <1>3. \A m \in 0..N : left[m] = g[m] /\ (m # 0 => m - 1 \in 0..N)
    OBVIOUS
  <1>4. left = [m \in 0..N |-> left[m]]
    OBVIOUS
  <1> HIDE DEF left
  <1>5. \A m \in 0..N : left[m] = TrimStep(left, all, frontier, m)
    <2>1. \A m \in 0..N : TrimStep(left, all, frontier, m) = TrimStep(g, all, frontier, m)
      BY <1>3 DEF TrimStep
    <2> QED
      BY <1>2, <1>3, <2>1
  <1> QED
    BY <1>4, <1>5 DEF Trims

\* Each eviction takes one window away.
LEMMA TrimsOne ==
  ASSUME NEW all \in WindowMaps, Fits(all), NEW frontier, NEW N \in 0..Cardinality(DOMAIN all),
         NEW left, Trims(left, all, frontier, N), NEW n \in 0..N
  PROVE  /\ left[n] \in WindowMaps /\ Fits(left[n])
         /\ Cardinality(DOMAIN left[n]) = Cardinality(DOMAIN all) - n
  <1> DEFINE Good(m) == /\ left[m] \in WindowMaps /\ Fits(left[m])
                        /\ Cardinality(DOMAIN left[m]) = Cardinality(DOMAIN all) - m
             Bad == {m \in 0..N : ~Good(m)}
  <1>1. Cardinality(DOMAIN all) \in Nat /\ N \in Nat
    BY MapFacts
  <1>2. SUFFICES ASSUME Bad # {} PROVE FALSE
    OBVIOUS
  <1>3. PICK m \in Bad : \A k \in Bad : m <= k
    <2>1. Bad \in SUBSET (0..N)
      OBVIOUS
    <2> HIDE DEF Bad
    <2> QED
      BY <1>1, <1>2, <2>1, LeastNumber
  <1>4. m \in 0..N /\ left[m] = TrimStep(left, all, frontier, m) /\ ~Good(m)
    BY DEF Trims
  <1>5. CASE m = 0
    BY <1>1, <1>4, <1>5 DEF TrimStep
  <1>6. CASE m # 0
    <2>1. m - 1 \in 0..N /\ m - 1 \notin Bad
      BY <1>1, <1>3, <1>4, <1>6
    <2>2. Good(m - 1)
      BY <2>1
    <2> HIDE DEF Bad, Good
    <2>3. PICK ws \in WindowMaps : ws = left[m - 1] /\ Fits(ws)
                                   /\ Cardinality(DOMAIN ws) = Cardinality(DOMAIN all) - (m - 1)
      BY <2>2 DEF Good
    <2>4. IsFiniteSet(DOMAIN ws) /\ DOMAIN ws # {}
      <3>1. IsFiniteSet(DOMAIN ws) /\ Cardinality(DOMAIN ws) # 0
        BY <1>1, <1>4, <1>6, <2>3, MapFacts
      <3> QED
        BY <3>1, FS_EmptySet
    <2>5. PICK v \in DOMAIN ws : v = evict_victim(ws, frontier)
      BY <2>3, <2>4, VictimIsWindow
    <2>6. left[m] = Restrict(ws, DOMAIN ws \ {v})
      BY <1>4, <1>6, <2>3, <2>5 DEF TrimStep
    <2>7. /\ left[m] \in WindowMaps /\ Fits(left[m]) /\ DOMAIN left[m] = DOMAIN ws \ {v}
      BY <2>3, <2>6, PartOfMap
    <2>8. Cardinality(DOMAIN left[m]) = Cardinality(DOMAIN ws) - 1
      BY <2>4, <2>7, FS_RemoveElement
    <2> QED
      BY <1>1, <1>4, <2>3, <2>7, <2>8 DEF Good
  <1> QED
    BY <1>5, <1>6

\* An inserted window leaves a buffer that is in order, and changes nothing else.
LEMMA InsertKeeps ==
  ASSUME NEW b, BufferOK(b), NEW start \in 0..(BackingLen - 1), NEW w \in Spans,
         start + w.len <= BackingLen
  PROVE  LET c == insert_window(b, start, w) IN
         /\ BufferOK(c)
         /\ c.next = b.next /\ c.window = b.window /\ c.cap = b.cap /\ c.max = b.max
  <1> DEFINE all == Inserted(b, start, w)
             N == Surplus(b, start, w)
             left == CHOOSE g : Trims(g, all, b.next, N)
             c == insert_window(b, start, w)
  <1>1. /\ b.windows \in WindowMaps /\ Fits(b.windows) /\ b \in Buffers /\ b.max \in 1..5
        /\ Cardinality(DOMAIN b.windows) <= 5
    BY DEF BufferOK, Buffers
  <1>2. all \in WindowMaps /\ Fits(all) /\ DOMAIN all = DOMAIN b.windows \cup {start}
    <2>1. /\ DOMAIN all = DOMAIN b.windows \cup {start} /\ all[start] = w
          /\ \A s \in DOMAIN b.windows : s # start => all[s] = b.windows[s]
          /\ all = [s \in DOMAIN all |-> all[s]]
      BY DEF Inserted
    <2> HIDE DEF all
    <2>2. /\ DOMAIN all \in SUBSET (0..(BackingLen - 1))
          /\ \A s \in DOMAIN all : all[s] \in Spans
      BY <1>1, <2>1, MapFacts
    <2>3. all \in [DOMAIN all -> Spans]
      BY <2>1, <2>2
    <2>4. Fits(all)
      BY <1>1, <2>1 DEF Fits, End
    <2> QED
      BY <2>1, <2>2, <2>3, <2>4 DEF WindowMaps
  <1>3. Cardinality(DOMAIN all) \in Nat
    BY <1>2, MapFacts
  <1>4. N \in 0..Cardinality(DOMAIN all) /\ N \in Nat /\ Cardinality(DOMAIN all) - N <= b.max
    <2>1. Cardinality(DOMAIN all) - b.max \in Int
      BY <1>1, <1>3
    <2>2. N = IF 0 >= Cardinality(DOMAIN all) - b.max THEN 0 ELSE Cardinality(DOMAIN all) - b.max
      BY <2>1, MaxOfTwo DEF Surplus
    <2> HIDE DEF N, all
    <2> QED
      BY <1>1, <1>3, <2>2
  <1>5. Trims(left, all, b.next, N)
    <2> HIDE DEF N, all
    <2> QED
      BY <1>4, TrimsExists
  <1>6. c = [b EXCEPT !.windows = left[N]]
    BY InsertTrims
  <1> HIDE DEF all, N, left, c
  <1>7. /\ left[N] \in WindowMaps /\ Fits(left[N])
        /\ Cardinality(DOMAIN left[N]) = Cardinality(DOMAIN all) - N
    BY <1>2, <1>4, <1>5, TrimsOne
  <1>8. /\ c \in Buffers /\ c.windows = left[N]
        /\ c.next = b.next /\ c.window = b.window /\ c.cap = b.cap /\ c.max = b.max
    BY <1>1, <1>6, <1>7 DEF Buffers
  <1> QED
    BY <1>1, <1>3, <1>4, <1>7, <1>8 DEF BufferOK, c

(***************************************************************************)
(* What a read does to a buffer.                                           *)
(***************************************************************************)

\* The bytes of a buffer depend on its windows only.
LEMMA SizeFacts ==
  ASSUME NEW b, b.windows \in WindowMaps
  PROVE  /\ Size(b) \in Nat
         /\ b.windows = <<>> => Size(b) = 0
         /\ \A c : c.windows = b.windows => Size(c) = Size(b)
  <1> DEFINE len == [s \in DOMAIN b.windows |-> b.windows[s].len]
  <1>1. /\ IsFiniteSet(DOMAIN b.windows) /\ DOMAIN len = DOMAIN b.windows
        /\ \A s \in DOMAIN b.windows : len[s] \in Nat
    BY MapFacts
  <1>2. Size(b) = SumFunctionOnSet(len, DOMAIN b.windows)
    BY <1>1 DEF Size, SumFunction
  <1> HIDE DEF len
  <1>3. Size(b) \in Nat
    BY <1>1, <1>2, SumType
  <1>4. b.windows = <<>> => DOMAIN b.windows = {}
    OBVIOUS
  <1>5. b.windows = <<>> => Size(b) = 0
    BY <1>1, <1>2, <1>4, SumOfZeros
  <1>6. \A c : c.windows = b.windows => Size(c) = Size(b)
    BY DEF Size
  <1> QED
    BY <1>3, <1>5, <1>6

\* Quotients of naturals.
LEMMA Quotients == \A a \in Nat, d \in Nat \ {0} : a \div d \in Nat
  OBVIOUS

\* A clamped number is within the limits.
LEMMA ClampFacts ==
  ASSUME NEW x \in Int, NEW lo \in Int, NEW hi \in Int, lo <= hi
  PROVE  Clamp(x, lo, hi) \in lo..hi
  <1>1. PICK m \in Int : m = Min({x, hi}) /\ m <= hi
    BY MinOfTwo
  <1>2. Max({lo, m}) \in lo..hi
    BY <1>1, MaxOfTwo
  <1> QED
    BY <1>1, <1>2 DEF Clamp

\* A stream's cap and the depth of its prefetch.
LEMMA CapFacts ==
  /\ per_stream_cap \in Nat \ {0}
  /\ \A window \in Nat : prefetch_depth(window) \in 1..4
  <1>1. Budget \div PER_STREAM_DIVISOR \in Nat
    BY Parameters, Quotients
  <1>2. per_stream_cap \in WINDOW_FLOOR..WINDOW_ABS_CAP
    BY <1>1, Parameters, WindowsAssumption, ClampFacts DEF per_stream_cap
  <1>3. per_stream_cap \in Nat \ {0}
    BY <1>2, Parameters
  <1>4. ASSUME NEW window \in Nat PROVE prefetch_depth(window) \in 1..4
    <2>1. Max({window, 1}) \in Nat \ {0}
      BY MaxOfTwo
    <2>2. PICK q \in Nat : q = per_stream_cap \div Max({window, 1})
      BY <1>3, <2>1, Quotients
    <2>3. Clamp(q, 1, 4) \in 1..4
      <3>1. q \in Int /\ 1 \in Int /\ 4 \in Int /\ 1 <= 4
        OBVIOUS
      <3> QED
        BY <3>1, ClampFacts
    <2> QED
      BY <2>2, <2>3 DEF prefetch_depth
  <1> QED
    BY <1>3, <1>4

\* No window at all.
LEMMA EmptyMap ==
  /\ <<>> \in WindowMaps /\ Fits(<<>>) /\ Cardinality(DOMAIN <<>>) = 0
  <1>1. DOMAIN <<>> = {}
    OBVIOUS
  <1>2. <<>> \in [{} -> Spans] /\ {} \in SUBSET (0..(BackingLen - 1))
    OBVIOUS
  <1>3. <<>> \in WindowMaps
    BY <1>2 DEF WindowMaps
  <1> QED
    BY <1>1, <1>3, FS_EmptySet DEF Fits

\* The operations that insert nothing keep a buffer in order.
LEMMA BufferOps ==
  ASSUME NEW b, BufferOK(b), NEW n \in Nat
  PROVE  /\ b \in Buffers /\ b.windows \in WindowMaps
         /\ BufferOK(NewBuffer) /\ NewBuffer.windows = <<>>
         /\ BufferOK(clear(b)) /\ clear(b).windows = <<>>
         /\ BufferOK(set_cap(b, n)) /\ set_cap(b, n).windows = b.windows
         /\ BufferOK(Resized(b)) /\ Resized(b).windows = b.windows
         /\ Resized(b).next = b.next /\ Resized(b).window = b.window
         /\ BufferOK([b EXCEPT !.window = n]) /\ [b EXCEPT !.window = n].windows = b.windows
         /\ BufferOK([b EXCEPT !.next = n]) /\ [b EXCEPT !.next = n].windows = b.windows
         /\ [b EXCEPT !.next = n].next = n /\ [b EXCEPT !.next = n].window = b.window
  <1>1. b \in Buffers /\ b.windows \in WindowMaps /\ b.window \in Nat /\ b.cap \in Nat
    BY DEF BufferOK, Buffers
  <1>2. BufferOK(NewBuffer) /\ NewBuffer.windows = <<>>
    <2>1. NewBuffer \in Buffers
      BY EmptyMap, CapFacts, Parameters DEF NewBuffer, Buffers, Never
    <2>2. NewBuffer.windows = <<>>
      BY DEF NewBuffer
    <2> QED
      BY <2>1, <2>2, EmptyMap DEF BufferOK
  <1>3. BufferOK(clear(b)) /\ clear(b).windows = <<>>
    <2>1. PICK m \in Nat : m = Min({WINDOW_FLOOR, b.cap})
      BY <1>1, Parameters, MinOfTwo
    <2>2. PICK e \in WindowMaps, u \in Nat : e = <<>> /\ u = Never
      BY EmptyMap, Parameters DEF Never
    <2>3. clear(b) = [b EXCEPT !.windows = e, !.next = u, !.window = m]
      BY <2>1, <2>2 DEF clear
    <2>4. clear(b) \in Buffers /\ clear(b).windows = e
      BY <1>1, <2>3 DEF Buffers
    <2> QED
      BY <2>2, <2>4, EmptyMap DEF BufferOK
  <1>4. BufferOK(set_cap(b, n)) /\ set_cap(b, n).windows = b.windows
    <2>1. PICK m \in Nat : m = Min({b.window, n})
      BY <1>1, MinOfTwo
    <2>2. set_cap(b, n) = [b EXCEPT !.cap = n, !.window = m]
      BY <1>1, <2>1 DEF set_cap, Buffers
    <2>3. set_cap(b, n) \in Buffers /\ set_cap(b, n).windows = b.windows
      BY <1>1, <2>2 DEF Buffers
    <2> QED
      BY <2>3 DEF BufferOK
  <1>5. /\ BufferOK(Resized(b)) /\ Resized(b).windows = b.windows
        /\ Resized(b).next = b.next /\ Resized(b).window = b.window
    <2>1. PICK m \in 1..5 : m = prefetch_depth(b.window) + 1
      BY <1>1, CapFacts
    <2>2. Resized(b) = [b EXCEPT !.max = m]
      BY <2>1 DEF Resized
    <2>3. /\ Resized(b) \in Buffers /\ Resized(b).windows = b.windows
          /\ Resized(b).next = b.next /\ Resized(b).window = b.window
      BY <1>1, <2>2 DEF Buffers
    <2> QED
      BY <2>3 DEF BufferOK
  <1>6. BufferOK([b EXCEPT !.window = n]) /\ [b EXCEPT !.window = n].windows = b.windows
    BY <1>1 DEF BufferOK, Buffers
  <1>7. /\ BufferOK([b EXCEPT !.next = n]) /\ [b EXCEPT !.next = n].windows = b.windows
        /\ [b EXCEPT !.next = n].next = n /\ [b EXCEPT !.next = n].window = b.window
    BY <1>1 DEF BufferOK, Buffers
  <1> QED
    BY <1>1, <1>2, <1>3, <1>4, <1>5, <1>6, <1>7

\* The window a miss reads with.
LEMMA GrownWindow ==
  ASSUME NEW b, BufferOK(b), NEW off \in Nat
  PROVE  (IF off = b.next THEN Min({2 * b.window, b.cap}) ELSE Min({WINDOW_FLOOR, b.cap})) \in Nat
  <1>1. b.window \in Nat /\ b.cap \in Nat /\ 2 * b.window \in Nat
    BY DEF BufferOK, Buffers
  <1> QED
    BY <1>1, Parameters, MinOfTwo

\* A miss leaves the buffer in order.
LEMMA RefillKeeps ==
  ASSUME NEW b, BufferOK(b), NEW off \in 0..(BackingLen - 1), NEW ver \in Nat
  PROVE  BufferOK(Refill(b, off, ver))
  <1> DEFINE window == IF off = b.next THEN Min({2 * b.window, b.cap}) ELSE Min({WINDOW_FLOOR, b.cap})
             want == Min({Max({window, 1}), BackingLen - off})
             c == [b EXCEPT !.window = window, !.next = off + 1]
  <1>1. window \in Nat /\ off \in Nat /\ off + 1 \in Nat
    <2>1. off \in Nat /\ off + 1 \in Nat
      BY Parameters
    <2> QED
      BY <2>1, GrownWindow
  <1>2. Refill(b, off, ver) = insert_window(c, off, [len |-> want, ver |-> ver])
    BY DEF Refill
  <1> HIDE DEF window
  <1>3. want \in Nat /\ off + want <= BackingLen
    <2>1. Max({window, 1}) \in Nat /\ BackingLen - off \in Nat
      BY <1>1, Parameters, MaxOfTwo
    <2> QED
      BY <2>1, Parameters, MinOfTwo
  <1> HIDE DEF want
  <1>4. BufferOK(c)
    <2>1. c \in Buffers /\ c.windows = b.windows
      BY <1>1 DEF BufferOK, Buffers
    <2> HIDE DEF c
    <2> QED
      BY <2>1 DEF BufferOK
  <1> HIDE DEF c
  <1>5. [len |-> want, ver |-> ver] \in Spans /\ [len |-> want, ver |-> ver].len = want
    BY <1>3 DEF Spans
  <1> QED
    BY <1>2, <1>3, <1>4, <1>5, InsertKeeps

\* Products of naturals.
LEMMA TimesNat == \A a, b \in Nat : a * b \in Nat
  OBVIOUS

\* The prefetch plan stays within the file.
LEMMA PlanFacts ==
  ASSUME NEW upto \in 0..BackingLen, NEW start \in Nat, NEW window \in Nat, NEW depth \in 1..4
  PROVE  LET p == plan_prefetch(upto, start, window, depth, BackingLen) IN
         /\ p.starts \in Seq(Nat) /\ p.upto \in 0..BackingLen
  <1> DEFINE horizon == Min({start + depth * window, BackingLen})
             from == IF start <= upto /\ upto < horizon + window THEN upto ELSE start
             n == IF from >= horizon THEN 0 ELSE (horizon - from + window - 1) \div window
             starts == [k \in 1..n |-> from + (k - 1) * window]
             top == Min({from + n * window, BackingLen})
             p == plan_prefetch(upto, start, window, depth, BackingLen)
  <1>1. p = IF window = 0 \/ start >= BackingLen THEN [starts |-> <<>>, upto |-> upto]
            ELSE [starts |-> starts, upto |-> top]
    BY DEF plan_prefetch
  <1>2. CASE window = 0 \/ start >= BackingLen
    BY <1>1, <1>2
  <1>3. CASE ~(window = 0 \/ start >= BackingLen)
    <2>1. from \in Nat /\ horizon \in Nat
      <3>1. depth * window \in Nat
        BY TimesNat
      <3>2. horizon \in Nat
        BY <3>1, Parameters, MinOfTwo
      <3> QED
        BY <3>2
    <2>2. n \in Nat
      <3> HIDE DEF from, horizon
      <3>1. from < horizon => horizon - from + window - 1 \in Nat
        BY <1>3, <2>1
      <3> QED
        BY <1>3, <2>1, <3>1, Quotients
    <2>3. starts \in Seq(Nat)
      <3> HIDE DEF from, n
      <3>1. \A k \in 1..n : from + (k - 1) * window \in Nat
        <4>1. ASSUME NEW k \in 1..n PROVE from + (k - 1) * window \in Nat
          <5>1. k - 1 \in Nat
            BY <2>2
          <5>2. (k - 1) * window \in Nat
            BY <5>1, TimesNat
          <5> QED
            BY <2>1, <5>2
        <4> QED
          BY <4>1
      <3> QED
        BY <2>2, <3>1
    <2>4. top \in 0..BackingLen
      <3> HIDE DEF from, n
      <3>1. n * window \in Nat
        BY <2>2, TimesNat
      <3> QED
        BY <2>1, <3>1, Parameters, MinOfTwo
    <2> HIDE DEF starts, top
    <2> QED
      BY <1>1, <1>3, <2>3, <2>4
  <1> QED
    BY <1>2, <1>3

(***************************************************************************)
(* The inductive invariant.                                                *)
(***************************************************************************)
Jobs == [h : Handles, start : Nat, len : Nat, epoch : Nat]

HandleStates == [state : {"closed", "open", "released"}, registered : BOOLEAN, epoch : Nat,
                 upto : 0..BackingLen, layout : Nat]

Reads == [pc : {"idle", "lock", "room", "evict", "uncharge", "fill", "plan", "dispatch"},
          h : Handles \cup {None}, off : Nat, room : Nat, cands : Seq(Handles), freed : Nat,
          plan : Nat, window : Nat, starts : Seq(Nat)]

Stints == [pc : {"idle", "read", "store", "reconcile"}, job : Jobs \cup {None}, ver : Nat,
           delta : Int]

Drops == [pc : {"held", "clear", "uncharge", "dropped"}, freed : Nat]

BuffersOK == ra \in [Handles -> Buffers] /\ \A k \in Handles : BufferOK(ra[k])

ReadersOK ==
    /\ rd \in [Readers -> Reads]
    /\ \A r \in Readers : rd[r].pc # "idle" => rd[r].h \in Handles /\ rd[r].off < BackingLen

WorkersOK ==
    /\ wk \in [Workers -> Stints]
    /\ \A w \in Workers : wk[w].pc # "idle" => wk[w].job \in Jobs /\ Want(wk[w].job) > 0

QueueOK == queue \in Seq(Jobs) /\ Len(queue) <= QueueCap

RestOK ==
    /\ charged \in Int /\ file \in Nat /\ indexed \in Nat /\ reads \in Nat
    /\ owner \in [Handles -> Readers \cup {None}]
    /\ h \in [Handles -> HandleStates] /\ streams \in Seq(Handles)
    /\ drops \in [Handles -> Drops]

ShapeOK == BuffersOK /\ ReadersOK /\ WorkersOK /\ QueueOK /\ RestOK

\* What a thread owes the counter, it owes at one point of its program only.
DebtsAreShort ==
    /\ \A r \in Readers : rd[r].freed # 0 => rd[r].pc = "uncharge"
    /\ \A w \in Workers : wk[w].delta # 0 => wk[w].pc = "reconcile"
    /\ \A k \in Handles : drops[k].freed # 0 => drops[k].pc = "uncharge"

\* A job for handle j.h that was sent at its epoch: once the handle is
\* released, its epoch is past the job's, if the kernel lets reads end first.
JobOK(hs, j) ==
    /\ hs[j.h].registered
    /\ j.epoch <= hs[j.h].epoch
    /\ ReleaseWaits /\ hs[j.h].state = "released" => j.epoch < hs[j.h].epoch

\* A handle that may have bytes.
MayHold(k) ==
    /\ h[k].registered
    /\ ReleaseWaits => drops[k].pc \notin {"uncharge", "dropped"}

\* Only a handle that was opened and read has bytes; and it is in the
\* registry until it is dropped.
HandlesInPlace ==
    \A k \in Handles :
        /\ h[k].registered => h[k].state # "closed"
        /\ ra[k].windows # <<>> => MayHold(k)
        /\ h[k].registered /\ drops[k].pc = "held" => Contains(streams, k)
        /\ drops[k].pc # "held" => h[k].state = "released"

\* A read's handle is registered, and open if the kernel waits.
ReadersInPlace ==
    \A r \in Readers :
        rd[r].pc # "idle" =>
            /\ h[rd[r].h].registered
            /\ ReleaseWaits => h[rd[r].h].state = "open"

JobsInPlace ==
    /\ \A i \in 1..Len(queue) : JobOK(h, queue[i])
    /\ \A w \in Workers : wk[w].pc \in {"read", "store"} => JobOK(h, wk[w].job)

PlaceInv == HandlesInPlace /\ ReadersInPlace /\ JobsInPlace

IInv == ShapeOK /\ DebtsAreShort /\ ChargedIsExact /\ PlaceInv

(***************************************************************************)
(* The balance: what a step does to the sums.                              *)
(***************************************************************************)
Bytes == [k \in Handles |-> Size(ra[k])]
Deltas == [w \in Workers |-> wk[w].delta]
Freed == [r \in Readers |-> rd[r].freed]
Dropped == [k \in Handles |-> drops[k].freed]

\* The constants' sets are finite.
LEMMA Finite ==
  /\ IsFiniteSet(Handles) /\ IsFiniteSet(Readers) /\ IsFiniteSet(Workers)
  /\ None \notin Handles /\ None \notin Readers /\ QueueCap \in Nat /\ MaxReads \in Nat
  BY ReadAheadAssumption

Summands ==
  /\ Bytes \in [Handles -> Int] /\ Deltas \in [Workers -> Int]
  /\ Freed \in [Readers -> Int] /\ Dropped \in [Handles -> Int]
  /\ SumFunction(Bytes) \in Int /\ SumFunction(Deltas) \in Int
  /\ SumFunction(Freed) \in Int /\ SumFunction(Dropped) \in Int

\* What is summed up is a number.
LEMMA SummandTypes == ShapeOK => Summands
  <1> SUFFICES ASSUME ShapeOK PROVE Summands
    OBVIOUS
  <1>1. \A k \in Handles : Size(ra[k]) \in Nat /\ drops[k].freed \in Nat
    BY SizeFacts DEF ShapeOK, BuffersOK, RestOK, Buffers, Drops
  <1>2. Bytes \in [Handles -> Int] /\ Dropped \in [Handles -> Int]
    BY <1>1 DEF Bytes, Dropped
  <1>3. Deltas \in [Workers -> Int] /\ Freed \in [Readers -> Int]
    BY DEF ShapeOK, WorkersOK, ReadersOK, Stints, Reads, Deltas, Freed
  <1> QED
    BY <1>2, <1>3, Finite, FunctionSum DEF Summands

\* And so it is after a step.
LEMMA SummandTypesNext == ShapeOK' => Summands'
  BY SummandTypes, PTL

\* One buffer changes.
LEMMA BytesMove ==
  ASSUME ShapeOK, ShapeOK', NEW k \in Handles, \A i \in Handles : i # k => ra'[i] = ra[i]
  PROVE  /\ SumFunction(Bytes)' = SumFunction(Bytes) - Size(ra[k]) + Size(ra'[k])
         /\ Size(ra[k]) \in Nat /\ Size(ra'[k]) \in Nat
  <1>1. Bytes \in [Handles -> Int] /\ Bytes' \in [Handles -> Int]
    BY SummandTypes, SummandTypesNext DEF Summands
  <1>2. \A i \in Handles : Bytes[i] = Size(ra[i]) /\ Bytes'[i] = Size(ra'[i])
    BY DEF Bytes
  <1>3. Size(ra[k]) \in Nat /\ Size(ra'[k]) \in Nat
    BY SizeFacts DEF ShapeOK, BuffersOK, Buffers
  <1>4. SumFunction(Bytes)' = SumFunction(Bytes) - Bytes[k] + Bytes'[k]
    <2> DEFINE f == Bytes
               g == Bytes'
    <2>1. f \in [Handles -> Int] /\ g \in [Handles -> Int] /\ \A i \in Handles : i # k => f[i] = g[i]
      BY <1>1, <1>2
    <2>2. SumFunction(Bytes)' = SumFunction(g) /\ SumFunction(Bytes) = SumFunction(f)
      OBVIOUS
    <2> HIDE DEF f, g
    <2>3. SumFunction(g) = SumFunction(f) - f[k] + g[k]
      BY <2>1, Finite, FunctionSumChange
    <2> QED
      BY <2>2, <2>3 DEF f, g
  <1> QED
    BY <1>2, <1>3, <1>4

\* One reader moves.
LEMMA FreedMoves ==
  ASSUME ShapeOK, ShapeOK', NEW r \in Readers, \A i \in Readers : i # r => rd'[i] = rd[i]
  PROVE  /\ SumFunction(Freed)' = SumFunction(Freed) - rd[r].freed + rd'[r].freed
         /\ rd[r].freed \in Nat /\ rd'[r].freed \in Nat
  <1>1. Freed \in [Readers -> Int] /\ Freed' \in [Readers -> Int]
    BY SummandTypes, SummandTypesNext DEF Summands
  <1>2. \A i \in Readers : Freed[i] = rd[i].freed /\ Freed'[i] = rd'[i].freed
    BY DEF Freed
  <1>3. rd[r].freed \in Nat /\ rd'[r].freed \in Nat
    BY DEF ShapeOK, ReadersOK, Reads
  <1>4. SumFunction(Freed)' = SumFunction(Freed) - Freed[r] + Freed'[r]
    <2> DEFINE f == Freed
               g == Freed'
    <2>1. f \in [Readers -> Int] /\ g \in [Readers -> Int] /\ \A i \in Readers : i # r => f[i] = g[i]
      BY <1>1, <1>2
    <2>2. SumFunction(Freed)' = SumFunction(g) /\ SumFunction(Freed) = SumFunction(f)
      OBVIOUS
    <2> HIDE DEF f, g
    <2>3. SumFunction(g) = SumFunction(f) - f[r] + g[r]
      BY <2>1, Finite, FunctionSumChange
    <2> QED
      BY <2>2, <2>3 DEF f, g
  <1> QED
    BY <1>2, <1>3, <1>4

\* One worker moves.
LEMMA DeltasMove ==
  ASSUME ShapeOK, ShapeOK', NEW w \in Workers, \A i \in Workers : i # w => wk'[i] = wk[i]
  PROVE  /\ SumFunction(Deltas)' = SumFunction(Deltas) - wk[w].delta + wk'[w].delta
         /\ wk[w].delta \in Int /\ wk'[w].delta \in Int
  <1>1. Deltas \in [Workers -> Int] /\ Deltas' \in [Workers -> Int]
    BY SummandTypes, SummandTypesNext DEF Summands
  <1>2. \A i \in Workers : Deltas[i] = wk[i].delta /\ Deltas'[i] = wk'[i].delta
    BY DEF Deltas
  <1>3. wk[w].delta \in Int /\ wk'[w].delta \in Int
    BY DEF ShapeOK, WorkersOK, Stints
  <1>4. SumFunction(Deltas)' = SumFunction(Deltas) - Deltas[w] + Deltas'[w]
    <2> DEFINE f == Deltas
               g == Deltas'
    <2>1. f \in [Workers -> Int] /\ g \in [Workers -> Int] /\ \A i \in Workers : i # w => f[i] = g[i]
      BY <1>1, <1>2
    <2>2. SumFunction(Deltas)' = SumFunction(g) /\ SumFunction(Deltas) = SumFunction(f)
      OBVIOUS
    <2> HIDE DEF f, g
    <2>3. SumFunction(g) = SumFunction(f) - f[w] + g[w]
      BY <2>1, Finite, FunctionSumChange
    <2> QED
      BY <2>2, <2>3 DEF f, g
  <1> QED
    BY <1>2, <1>3, <1>4

\* The drop of one handle goes on.
LEMMA DroppedMoves ==
  ASSUME ShapeOK, ShapeOK', NEW k \in Handles, \A i \in Handles : i # k => drops'[i] = drops[i]
  PROVE  /\ SumFunction(Dropped)' = SumFunction(Dropped) - drops[k].freed + drops'[k].freed
         /\ drops[k].freed \in Nat /\ drops'[k].freed \in Nat
  <1>1. Dropped \in [Handles -> Int] /\ Dropped' \in [Handles -> Int]
    BY SummandTypes, SummandTypesNext DEF Summands
  <1>2. \A i \in Handles : Dropped[i] = drops[i].freed /\ Dropped'[i] = drops'[i].freed
    BY DEF Dropped
  <1>3. drops[k].freed \in Nat /\ drops'[k].freed \in Nat
    BY DEF ShapeOK, RestOK, Drops
  <1>4. SumFunction(Dropped)' = SumFunction(Dropped) - Dropped[k] + Dropped'[k]
    <2> DEFINE f == Dropped
               g == Dropped'
    <2>1. f \in [Handles -> Int] /\ g \in [Handles -> Int] /\ \A i \in Handles : i # k => f[i] = g[i]
      BY <1>1, <1>2
    <2>2. SumFunction(Dropped)' = SumFunction(g) /\ SumFunction(Dropped) = SumFunction(f)
      OBVIOUS
    <2> HIDE DEF f, g
    <2>3. SumFunction(g) = SumFunction(f) - f[k] + g[k]
      BY <2>1, Finite, FunctionSumChange
    <2> QED
      BY <2>2, <2>3 DEF f, g
  <1> QED
    BY <1>2, <1>3, <1>4

\* The counter is exact, in terms of these sums.
LEMMA ExactSums ==
  ChargedIsExact <=> charged + SumFunction(Deltas)
                       = SumFunction(Bytes) + SumFunction(Freed) + SumFunction(Dropped)
  BY DEF ChargedIsExact, Deltas, Bytes, Freed, Dropped

\* A reader's step: what it stores it charges, what it clears it owes.
LEMMA ReaderBalance ==
  ASSUME ShapeOK, ShapeOK', ChargedIsExact, NEW r \in Readers, NEW k \in Handles,
         \A i \in Readers : i # r => rd'[i] = rd[i],
         \A i \in Handles : i # k => ra'[i] = ra[i], UNCHANGED <<wk, drops>>,
         charged' - charged = (Size(ra'[k]) - Size(ra[k])) + (rd'[r].freed - rd[r].freed)
  PROVE  ChargedIsExact'
  <1>1. SumFunction(Deltas)' = SumFunction(Deltas) /\ SumFunction(Dropped)' = SumFunction(Dropped)
    BY DEF Deltas, Dropped
  <1>2. /\ charged \in Int /\ charged' \in Int
        /\ SumFunction(Bytes) \in Int /\ SumFunction(Deltas) \in Int
        /\ SumFunction(Freed) \in Int /\ SumFunction(Dropped) \in Int
    BY SummandTypes DEF ShapeOK, RestOK, Summands
  <1>3. /\ SumFunction(Bytes)' = SumFunction(Bytes) - Size(ra[k]) + Size(ra'[k])
        /\ Size(ra[k]) \in Nat /\ Size(ra'[k]) \in Nat
    BY BytesMove
  <1>4. /\ SumFunction(Freed)' = SumFunction(Freed) - rd[r].freed + rd'[r].freed
        /\ rd[r].freed \in Nat /\ rd'[r].freed \in Nat
    BY FreedMoves
  <1>5. charged + SumFunction(Deltas)
          = SumFunction(Bytes) + SumFunction(Freed) + SumFunction(Dropped)
    BY ExactSums
  <1>6. charged' + SumFunction(Deltas)'
          = SumFunction(Bytes)' + SumFunction(Freed)' + SumFunction(Dropped)'
    <2>1. /\ SumFunction(Bytes)' \in Int /\ SumFunction(Deltas)' \in Int
          /\ SumFunction(Freed)' \in Int /\ SumFunction(Dropped)' \in Int
      BY SummandTypesNext DEF Summands
    <2>2. (charged' - charged) + (SumFunction(Deltas)' - SumFunction(Deltas))
            = (SumFunction(Bytes)' - SumFunction(Bytes)) + (SumFunction(Freed)' - SumFunction(Freed))
              + (SumFunction(Dropped)' - SumFunction(Dropped))
      <3>1. SumFunction(Bytes)' - SumFunction(Bytes) = Size(ra'[k]) - Size(ra[k])
        BY <1>2, <1>3
      <3>2. SumFunction(Freed)' - SumFunction(Freed) = rd'[r].freed - rd[r].freed
        BY <1>2, <1>4
      <3>3. SumFunction(Deltas)' - SumFunction(Deltas) = 0 /\ SumFunction(Dropped)' - SumFunction(Dropped) = 0
        BY <1>1, <1>2
      <3> QED
        BY <1>2, <1>3, <1>4, <3>1, <3>2, <3>3
    <2> QED
      <3>1. PICK c \in Int, d \in Int, b \in Int, f \in Int, g \in Int :
              /\ c = charged /\ d = SumFunction(Deltas) /\ b = SumFunction(Bytes)
              /\ f = SumFunction(Freed) /\ g = SumFunction(Dropped)
        BY <1>2
      <3>2. PICK c1 \in Int, d1 \in Int, b1 \in Int, f1 \in Int, g1 \in Int :
              /\ c1 = charged' /\ d1 = SumFunction(Deltas)' /\ b1 = SumFunction(Bytes)'
              /\ f1 = SumFunction(Freed)' /\ g1 = SumFunction(Dropped)'
        BY <1>2, <2>1
      <3>3. c + d = b + f + g /\ (c1 - c) + (d1 - d) = (b1 - b) + (f1 - f) + (g1 - g)
        BY <1>5, <2>2, <3>1, <3>2
      <3>4. c1 + d1 = b1 + f1 + g1
        BY <3>3
      <3> QED
        BY <3>2, <3>4
  <1>7. ChargedIsExact' <=> (charged + SumFunction(Deltas)
           = SumFunction(Bytes) + SumFunction(Freed) + SumFunction(Dropped))'
    BY ExactSums, PTL
  <1> QED
    BY <1>6, <1>7

\* A worker's step: what it stores it owes, what it charges it owed.
LEMMA WorkerBalance ==
  ASSUME ShapeOK, ShapeOK', ChargedIsExact, NEW w \in Workers, NEW k \in Handles,
         \A i \in Workers : i # w => wk'[i] = wk[i],
         \A i \in Handles : i # k => ra'[i] = ra[i], UNCHANGED <<rd, drops>>,
         (charged' - charged) + (wk'[w].delta - wk[w].delta) = Size(ra'[k]) - Size(ra[k])
  PROVE  ChargedIsExact'
  <1>1. SumFunction(Freed)' = SumFunction(Freed) /\ SumFunction(Dropped)' = SumFunction(Dropped)
    BY DEF Freed, Dropped
  <1>2. /\ charged \in Int /\ charged' \in Int
        /\ SumFunction(Bytes) \in Int /\ SumFunction(Deltas) \in Int
        /\ SumFunction(Freed) \in Int /\ SumFunction(Dropped) \in Int
    BY SummandTypes DEF ShapeOK, RestOK, Summands
  <1>3. /\ SumFunction(Bytes)' = SumFunction(Bytes) - Size(ra[k]) + Size(ra'[k])
        /\ Size(ra[k]) \in Nat /\ Size(ra'[k]) \in Nat
    BY BytesMove
  <1>4. /\ SumFunction(Deltas)' = SumFunction(Deltas) - wk[w].delta + wk'[w].delta
        /\ wk[w].delta \in Int /\ wk'[w].delta \in Int
    BY DeltasMove
  <1>5. charged + SumFunction(Deltas)
          = SumFunction(Bytes) + SumFunction(Freed) + SumFunction(Dropped)
    BY ExactSums
  <1>6. charged' + SumFunction(Deltas)'
          = SumFunction(Bytes)' + SumFunction(Freed)' + SumFunction(Dropped)'
    <2>1. /\ SumFunction(Bytes)' \in Int /\ SumFunction(Deltas)' \in Int
          /\ SumFunction(Freed)' \in Int /\ SumFunction(Dropped)' \in Int
      BY SummandTypesNext DEF Summands
    <2>2. (charged' - charged) + (SumFunction(Deltas)' - SumFunction(Deltas))
            = (SumFunction(Bytes)' - SumFunction(Bytes)) + (SumFunction(Freed)' - SumFunction(Freed))
              + (SumFunction(Dropped)' - SumFunction(Dropped))
      <3>1. SumFunction(Bytes)' - SumFunction(Bytes) = Size(ra'[k]) - Size(ra[k])
        BY <1>2, <1>3
      <3>2. SumFunction(Deltas)' - SumFunction(Deltas) = wk'[w].delta - wk[w].delta
        BY <1>2, <1>4
      <3>3. SumFunction(Freed)' - SumFunction(Freed) = 0 /\ SumFunction(Dropped)' - SumFunction(Dropped) = 0
        BY <1>1, <1>2
      <3> QED
        BY <1>2, <1>3, <1>4, <3>1, <3>2, <3>3
    <2> QED
      <3>1. PICK c \in Int, d \in Int, b \in Int, f \in Int, g \in Int :
              /\ c = charged /\ d = SumFunction(Deltas) /\ b = SumFunction(Bytes)
              /\ f = SumFunction(Freed) /\ g = SumFunction(Dropped)
        BY <1>2
      <3>2. PICK c1 \in Int, d1 \in Int, b1 \in Int, f1 \in Int, g1 \in Int :
              /\ c1 = charged' /\ d1 = SumFunction(Deltas)' /\ b1 = SumFunction(Bytes)'
              /\ f1 = SumFunction(Freed)' /\ g1 = SumFunction(Dropped)'
        BY <1>2, <2>1
      <3>3. c + d = b + f + g /\ (c1 - c) + (d1 - d) = (b1 - b) + (f1 - f) + (g1 - g)
        BY <1>5, <2>2, <3>1, <3>2
      <3>4. c1 + d1 = b1 + f1 + g1
        BY <3>3
      <3> QED
        BY <3>2, <3>4
  <1>7. ChargedIsExact' <=> (charged + SumFunction(Deltas)
           = SumFunction(Bytes) + SumFunction(Freed) + SumFunction(Dropped))'
    BY ExactSums, PTL
  <1> QED
    BY <1>6, <1>7

\* A drop's step: what it clears it owes, what it uncharges it owed.
LEMMA HandleBalance ==
  ASSUME ShapeOK, ShapeOK', ChargedIsExact, NEW k \in Handles,
         \A i \in Handles : i # k => ra'[i] = ra[i] /\ drops'[i] = drops[i], UNCHANGED <<rd, wk>>,
         charged' - charged = (Size(ra'[k]) - Size(ra[k])) + (drops'[k].freed - drops[k].freed)
  PROVE  ChargedIsExact'
  <1>1. SumFunction(Freed)' = SumFunction(Freed) /\ SumFunction(Deltas)' = SumFunction(Deltas)
    BY DEF Freed, Deltas
  <1>2. /\ charged \in Int /\ charged' \in Int
        /\ SumFunction(Bytes) \in Int /\ SumFunction(Deltas) \in Int
        /\ SumFunction(Freed) \in Int /\ SumFunction(Dropped) \in Int
    BY SummandTypes DEF ShapeOK, RestOK, Summands
  <1>3. /\ SumFunction(Bytes)' = SumFunction(Bytes) - Size(ra[k]) + Size(ra'[k])
        /\ Size(ra[k]) \in Nat /\ Size(ra'[k]) \in Nat
    BY BytesMove
  <1>4. /\ SumFunction(Dropped)' = SumFunction(Dropped) - drops[k].freed + drops'[k].freed
        /\ drops[k].freed \in Nat /\ drops'[k].freed \in Nat
    BY DroppedMoves
  <1>5. charged + SumFunction(Deltas)
          = SumFunction(Bytes) + SumFunction(Freed) + SumFunction(Dropped)
    BY ExactSums
  <1>6. charged' + SumFunction(Deltas)'
          = SumFunction(Bytes)' + SumFunction(Freed)' + SumFunction(Dropped)'
    <2>1. /\ SumFunction(Bytes)' \in Int /\ SumFunction(Deltas)' \in Int
          /\ SumFunction(Freed)' \in Int /\ SumFunction(Dropped)' \in Int
      BY SummandTypesNext DEF Summands
    <2>2. (charged' - charged) + (SumFunction(Deltas)' - SumFunction(Deltas))
            = (SumFunction(Bytes)' - SumFunction(Bytes)) + (SumFunction(Freed)' - SumFunction(Freed))
              + (SumFunction(Dropped)' - SumFunction(Dropped))
      <3>1. SumFunction(Bytes)' - SumFunction(Bytes) = Size(ra'[k]) - Size(ra[k])
        BY <1>2, <1>3
      <3>2. SumFunction(Dropped)' - SumFunction(Dropped) = drops'[k].freed - drops[k].freed
        BY <1>2, <1>4
      <3>3. SumFunction(Freed)' - SumFunction(Freed) = 0 /\ SumFunction(Deltas)' - SumFunction(Deltas) = 0
        BY <1>1, <1>2
      <3> QED
        BY <1>2, <1>3, <1>4, <3>1, <3>2, <3>3
    <2> QED
      <3>1. PICK c \in Int, d \in Int, b \in Int, f \in Int, g \in Int :
              /\ c = charged /\ d = SumFunction(Deltas) /\ b = SumFunction(Bytes)
              /\ f = SumFunction(Freed) /\ g = SumFunction(Dropped)
        BY <1>2
      <3>2. PICK c1 \in Int, d1 \in Int, b1 \in Int, f1 \in Int, g1 \in Int :
              /\ c1 = charged' /\ d1 = SumFunction(Deltas)' /\ b1 = SumFunction(Bytes)'
              /\ f1 = SumFunction(Freed)' /\ g1 = SumFunction(Dropped)'
        BY <1>2, <2>1
      <3>3. c + d = b + f + g /\ (c1 - c) + (d1 - d) = (b1 - b) + (f1 - f) + (g1 - g)
        BY <1>5, <2>2, <3>1, <3>2
      <3>4. c1 + d1 = b1 + f1 + g1
        BY <3>3
      <3> QED
        BY <3>2, <3>4
  <1>7. ChargedIsExact' <=> (charged + SumFunction(Deltas)
           = SumFunction(Bytes) + SumFunction(Freed) + SumFunction(Dropped))'
    BY ExactSums, PTL
  <1> QED
    BY <1>6, <1>7

(***************************************************************************)
(* A reader's step, a worker's step and a drop's step.                     *)
(***************************************************************************)

\* The front of a sequence.
LEMMA FrontPart ==
  ASSUME NEW S, NEW s \in Seq(S), NEW m \in Nat, m <= Len(s)
  PROVE  /\ SubSeq(s, 1, m) \in Seq(S) /\ Len(SubSeq(s, 1, m)) = m
         /\ \A i \in 1..m : SubSeq(s, 1, m)[i] = s[i]
  <1>1. Len(s) \in Nat /\ \A i \in 1..m : s[i] \in S
    OBVIOUS
  <1>2. /\ SubSeq(s, 1, m) \in Seq(S)
        /\ Len(SubSeq(s, 1, m)) = IF 1 <= m THEN m - 1 + 1 ELSE 0
        /\ \A i \in 1..(m - 1 + 1) : SubSeq(s, 1, m)[i] = s[1 + i - 1]
    BY <1>1, SubSeqProperties
  <1>3. PICK f \in Seq(S) : f = SubSeq(s, 1, m)
    BY <1>2
  <1>4. Len(f) = m
    BY <1>1, <1>2, <1>3
  <1>5. \A i \in 1..m : f[i] = s[i]
    <2>1. m - 1 + 1 = m
      OBVIOUS
    <2>2. \A i \in 1..m : f[i] = s[1 + i - 1] /\ 1 + i - 1 = i
      BY <1>2, <1>3, <2>1
    <2> QED
      BY <2>2
  <1> QED
    BY <1>3, <1>4, <1>5

\* What follows a place in a sequence.
LEMMA BackPart ==
  ASSUME NEW S, NEW s \in Seq(S), NEW n \in 1..Len(s)
  PROVE  /\ SubSeq(s, n + 1, Len(s)) \in Seq(S) /\ Len(SubSeq(s, n + 1, Len(s))) = Len(s) - n
         /\ \A i \in 1..(Len(s) - n) : SubSeq(s, n + 1, Len(s))[i] = s[n + i]
  <1>0. n \in Int /\ n >= 1 /\ Len(s) \in Nat /\ n <= Len(s)
    OBVIOUS
  <1>1. PICK m \in Int, l \in Int : m = n + 1 /\ l = Len(s)
    BY <1>0
  <1>2. \A i \in m..l : s[i] \in S
    BY <1>0, <1>1
  <1>3. /\ SubSeq(s, m, l) \in Seq(S)
        /\ Len(SubSeq(s, m, l)) = IF m <= l THEN l - m + 1 ELSE 0
        /\ \A i \in 1..(l - m + 1) : SubSeq(s, m, l)[i] = s[m + i - 1]
    BY <1>2, SubSeqProperties
  <1>4. PICK f \in Seq(S) : f = SubSeq(s, m, l)
    BY <1>3
  <1>5. Len(f) = l - n
    BY <1>0, <1>1, <1>3, <1>4
  <1>6. \A i \in 1..(l - n) : f[i] = s[n + i]
    <2>1. l - m + 1 = l - n
      BY <1>0, <1>1
    <2>2. \A i \in 1..(l - n) : f[i] = s[m + i - 1] /\ m + i - 1 = n + i
      BY <1>0, <1>1, <1>3, <1>4, <2>1
    <2> QED
      BY <2>2
  <1> QED
    BY <1>1, <1>4, <1>5, <1>6

\* A sequence without one of its places has all the others.
LEMMA RemoveAtFacts ==
  ASSUME NEW S, NEW s \in Seq(S), NEW n \in 1..Len(s)
  PROVE  LET t == SubSeq(s, 1, n - 1) \o SubSeq(s, n + 1, Len(s)) IN
         /\ t \in Seq(S)
         /\ \A i \in 1..Len(s) : i # n => \E j \in 1..Len(t) : t[j] = s[i]
  <1>0. n \in Int /\ n >= 1 /\ Len(s) \in Nat /\ n <= Len(s)
    OBVIOUS
  <1>1. PICK m \in Int, l \in Int : m = n - 1 /\ l = Len(s)
    BY <1>0
  <1>2. PICK f \in Seq(S) : f = SubSeq(s, 1, n - 1) /\ Len(f) = m /\ \A i \in 1..m : f[i] = s[i]
    <2>1. m \in Nat /\ m <= Len(s)
      BY <1>0, <1>1
    <2>2. /\ SubSeq(s, 1, m) \in Seq(S) /\ Len(SubSeq(s, 1, m)) = m
          /\ \A i \in 1..m : SubSeq(s, 1, m)[i] = s[i]
      BY <2>1, FrontPart
    <2> QED
      BY <1>1, <2>2
  <1>3. PICK b \in Seq(S) : b = SubSeq(s, n + 1, Len(s)) /\ Len(b) = l - n
                            /\ \A i \in 1..(l - n) : b[i] = s[n + i]
    <2>1. /\ SubSeq(s, n + 1, Len(s)) \in Seq(S) /\ Len(SubSeq(s, n + 1, Len(s))) = Len(s) - n
          /\ \A i \in 1..(Len(s) - n) : SubSeq(s, n + 1, Len(s))[i] = s[n + i]
      BY BackPart
    <2>2. PICK b \in Seq(S) : b = SubSeq(s, n + 1, Len(s))
      BY <2>1
    <2>3. Len(b) = Len(s) - n /\ \A i \in 1..(Len(s) - n) : b[i] = s[n + i]
      BY <2>1, <2>2, Zenon
    <2> QED
      BY <1>1, <2>2, <2>3
  <1>4. /\ f \o b \in Seq(S) /\ Len(f \o b) = Len(f) + Len(b)
        /\ \A i \in 1..(Len(f) + Len(b)) :
             (f \o b)[i] = IF i <= Len(f) THEN f[i] ELSE b[i - Len(f)]
    BY ConcatProperties
  <1>5. PICK t \in Seq(S) : t = f \o b
    BY <1>4
  <1>6. Len(t) = l - 1 /\ Len(f) + Len(b) = l - 1
    <2>1. Len(f) = m /\ Len(b) = l - n
      BY <1>2, <1>3
    <2>2. Len(t) = Len(f) + Len(b)
      BY <1>4, <1>5
    <2>3. Len(f) + Len(b) = m + (l - n)
      BY <2>1
    <2> QED
      BY <1>0, <1>1, <2>2, <2>3
  <1>7. \A i \in 1..(l - 1) : t[i] = IF i <= m THEN f[i] ELSE b[i - m]
    BY <1>2, <1>4, <1>5, <1>6
  <1>8. ASSUME NEW i \in 1..Len(s), i # n
        PROVE  \E j \in 1..Len(t) : t[j] = s[i]
    <2>1. CASE i < n
      <3>1. i \in 1..Len(t) /\ i \in 1..(l - 1) /\ i \in 1..m /\ i <= m
        BY <1>0, <1>1, <1>6, <2>1
      <3>2. t[i] = s[i]
        BY <1>2, <1>7, <3>1
      <3> QED
        BY <3>1, <3>2
    <2>2. CASE i > n
      <3>1. PICK j \in Int : j = i - 1
        OBVIOUS
      <3>2. j \in 1..Len(t) /\ j \in 1..(l - 1) /\ ~(j <= m) /\ j - m \in 1..(l - n) /\ n + (j - m) = i
        BY <1>0, <1>1, <1>6, <2>2, <3>1
      <3>3. t[j] = b[j - m] /\ b[j - m] = s[n + (j - m)]
        BY <1>3, <1>7, <3>2
      <3> QED
        BY <3>2, <3>3
    <2> QED
      BY <1>0, <1>8, <2>1, <2>2
  <1> QED
    BY <1>2, <1>3, <1>5, <1>8

\* A stream taken out of the registry leaves the others there.
LEMMA RemoveFirstFacts ==
  ASSUME NEW S, NEW s \in Seq(S), NEW e
  PROVE  /\ RemoveFirst(s, e) \in Seq(S)
         /\ \A x \in S : x # e /\ Contains(s, x) => Contains(RemoveFirst(s, e), x)
  <1>1. CASE ~ \E i \in 1..Len(s) : s[i] = e
    BY <1>1 DEF RemoveFirst
  <1>2. CASE \E i \in 1..Len(s) : s[i] = e
    <2> DEFINE I == {i \in 1..Len(s) : s[i] = e}
    <2>1. PICK n \in I : n = Min(I)
      <3>1. I \subseteq 0..Len(s) /\ I # {} /\ Len(s) \in Nat
        BY <1>2
      <3> HIDE DEF I
      <3> QED
        BY <3>1, Extremes
    <2>2. RemoveFirst(s, e) = SubSeq(s, 1, n - 1) \o SubSeq(s, n + 1, Len(s))
      BY <1>2, <2>1 DEF RemoveFirst, SelectInSeq, RemoveAt
    <2>3. n \in 1..Len(s) /\ s[n] = e
      BY <2>1
    <2> HIDE DEF I
    <2>4. PICK t \in Seq(S) : /\ t = SubSeq(s, 1, n - 1) \o SubSeq(s, n + 1, Len(s))
                              /\ \A i \in 1..Len(s) : i # n => \E j \in 1..Len(t) : t[j] = s[i]
      <3> DEFINE t == SubSeq(s, 1, n - 1) \o SubSeq(s, n + 1, Len(s))
      <3>1. t \in Seq(S) /\ \A i \in 1..Len(s) : i # n => \E j \in 1..Len(t) : t[j] = s[i]
        BY <2>3, RemoveAtFacts
      <3> HIDE DEF t
      <3>2. t = SubSeq(s, 1, n - 1) \o SubSeq(s, n + 1, Len(s))
        BY DEF t
      <3> QED
        BY <3>1, <3>2
    <2>5. \A x \in S : x # e /\ Contains(s, x) => Contains(t, x)
      BY <2>3, <2>4 DEF Contains
    <2> QED
      BY <2>2, <2>4, <2>5
  <1> QED
    BY <1>1, <1>2

\* One buffer is replaced by another that is in order.
LEMMA BuffersChange ==
  ASSUME BuffersOK, NEW k \in Handles, ra' = [ra EXCEPT ![k] = ra'[k]], BufferOK(ra'[k])
  PROVE  BuffersOK' /\ \A i \in Handles : i # k => ra'[i] = ra[i]
  BY DEF BuffersOK, BufferOK

\* The handles are as they were, but for epochs and marks.
HandlesKept ==
    /\ h' \in [Handles -> HandleStates]
    /\ \A k \in Handles : /\ h'[k].state = h[k].state /\ h'[k].registered = h[k].registered
                          /\ h[k].epoch <= h'[k].epoch

StreamsKept ==
    streams' \in Seq(Handles) /\ \A k \in Handles : Contains(streams, k) => Contains(streams', k)

QueueGood(q) == q \in Seq(Jobs) /\ Len(q) <= QueueCap /\ \A i \in 1..Len(q) : JobOK(h, q[i])

ReaderMove(r, k) ==
    /\ rd' = [rd EXCEPT ![r] = rd'[r]] /\ rd'[r] \in Reads
    /\ rd'[r].pc # "idle" => rd[r].pc # "idle" /\ rd'[r].h = rd[r].h /\ rd'[r].off = rd[r].off
    /\ rd'[r].freed # 0 => rd'[r].pc = "uncharge"
    /\ ra' = [ra EXCEPT ![k] = ra'[k]] /\ BufferOK(ra'[k])
    /\ ra'[k].windows # <<>> => MayHold(k)
    /\ charged' - charged = (Size(ra'[k]) - Size(ra[k])) + (rd'[r].freed - rd[r].freed)
    /\ charged' \in Int /\ HandlesKept /\ StreamsKept /\ QueueGood(queue')
    /\ owner' \in [Handles -> Readers \cup {None}]
    /\ UNCHANGED <<wk, drops, file, indexed, reads>>

WorkerMove(w, k) ==
    /\ wk' = [wk EXCEPT ![w] = wk'[w]] /\ wk'[w] \in Stints
    /\ wk'[w].pc # "idle" => wk'[w].job \in Jobs /\ Want(wk'[w].job) > 0
    /\ wk'[w].pc \in {"read", "store"} => JobOK(h, wk'[w].job)
    /\ wk'[w].delta # 0 => wk'[w].pc = "reconcile"
    /\ ra' = [ra EXCEPT ![k] = ra'[k]] /\ BufferOK(ra'[k])
    /\ ra'[k].windows # <<>> => MayHold(k)
    /\ (charged' - charged) + (wk'[w].delta - wk[w].delta) = Size(ra'[k]) - Size(ra[k])
    /\ charged' \in Int /\ QueueGood(queue')
    /\ UNCHANGED <<owner, h, streams, rd, drops, file, indexed, reads>>

DropMove(k) ==
    /\ drops' = [drops EXCEPT ![k] = drops'[k]] /\ drops'[k] \in Drops
    /\ drops'[k].freed # 0 => drops'[k].pc = "uncharge"
    /\ drops'[k].pc # "held" /\ h[k].state = "released"
    /\ ra' = [ra EXCEPT ![k] = ra'[k]] /\ BufferOK(ra'[k])
    /\ ra'[k].windows # <<>> => MayHold(k)'
    /\ charged' - charged = (Size(ra'[k]) - Size(ra[k])) + (drops'[k].freed - drops[k].freed)
    /\ charged' \in Int /\ streams' \in Seq(Handles)
    /\ \A i \in Handles : i # k /\ Contains(streams, i) => Contains(streams', i)
    /\ UNCHANGED <<owner, h, rd, wk, queue, file, indexed, reads>>

\* Jobs stay good while the handles are kept.
LEMMA JobsKept ==
  ASSUME h \in [Handles -> HandleStates], HandlesKept, NEW j \in Jobs, JobOK(h, j)
  PROVE  JobOK(h', j)
  <1>1. j.h \in Handles /\ j.epoch \in Nat
    BY DEF Jobs
  <1>2. h[j.h].epoch \in Nat /\ h'[j.h].epoch \in Nat
    BY <1>1 DEF HandlesKept, HandleStates
  <1>3. /\ h'[j.h].state = h[j.h].state /\ h'[j.h].registered = h[j.h].registered
        /\ h[j.h].epoch <= h'[j.h].epoch
    BY <1>1 DEF HandlesKept
  <1> QED
    BY <1>1, <1>2, <1>3 DEF JobOK

\* A reader's move keeps the invariant.
LEMMA ReaderMoves ==
  ASSUME IInv, NEW r \in Readers, NEW k \in Handles, ReaderMove(r, k)
  PROVE  IInv'
  <1>1. ShapeOK /\ DebtsAreShort /\ ChargedIsExact /\ HandlesInPlace /\ ReadersInPlace /\ JobsInPlace
    BY DEF IInv, PlaceInv
  <1>2. BuffersOK' /\ \A i \in Handles : i # k => ra'[i] = ra[i]
    BY <1>1, BuffersChange DEF ShapeOK, ReaderMove
  <1>3. \A i \in Readers : i # r => rd'[i] = rd[i]
    BY <1>1 DEF ShapeOK, ReadersOK, ReaderMove
  <1>4. ShapeOK'
    <2>1. ReadersOK'
      BY <1>1, <1>3 DEF ShapeOK, ReadersOK, ReaderMove
    <2>2. WorkersOK' /\ QueueOK'
      BY <1>1 DEF ShapeOK, WorkersOK, QueueOK, QueueGood, ReaderMove
    <2>3. RestOK'
      BY <1>1 DEF ShapeOK, RestOK, ReaderMove, HandlesKept, StreamsKept
    <2> QED
      BY <1>2, <2>1, <2>2, <2>3 DEF ShapeOK
  <1>5. DebtsAreShort'
    BY <1>1, <1>3 DEF DebtsAreShort, ReaderMove
  <1>6. ChargedIsExact'
    BY <1>1, <1>2, <1>3, <1>4, ReaderBalance DEF ReaderMove
  <1>7. HandlesInPlace'
    BY <1>1, <1>2 DEF HandlesInPlace, MayHold, ReaderMove, HandlesKept, StreamsKept
  <1>8. ReadersInPlace'
    <2>1. \A i \in Readers : rd'[i].pc # "idle" => rd[i].pc # "idle" /\ rd'[i].h = rd[i].h
      BY <1>3 DEF ReaderMove
    <2>2. \A i \in Readers : rd[i].pc # "idle" => rd[i].h \in Handles
      BY <1>1 DEF ShapeOK, ReadersOK
    <2> QED
      BY <1>1, <2>1, <2>2 DEF ReadersInPlace, ReaderMove, HandlesKept
  <1>9. JobsInPlace'
    <2>1. h \in [Handles -> HandleStates] /\ HandlesKept /\ QueueGood(queue') /\ wk' = wk
      BY <1>1 DEF ShapeOK, RestOK, ReaderMove
    <2>2. \A i \in 1..Len(queue') : JobOK(h', queue'[i])
      BY <2>1, JobsKept DEF QueueGood
    <2>3. \A w \in Workers : wk[w].pc \in {"read", "store"} => wk[w].job \in Jobs /\ JobOK(h, wk[w].job)
      BY <1>1 DEF ShapeOK, WorkersOK, JobsInPlace
    <2>4. \A w \in Workers : wk[w].pc \in {"read", "store"} => JobOK(h', wk[w].job)
      BY <2>1, <2>3, JobsKept
    <2> QED
      BY <2>1, <2>2, <2>4 DEF JobsInPlace
  <1> QED
    BY <1>4, <1>5, <1>6, <1>7, <1>8, <1>9 DEF IInv, PlaceInv

\* A worker's move keeps the invariant.
LEMMA WorkerMoves ==
  ASSUME IInv, NEW w \in Workers, NEW k \in Handles, WorkerMove(w, k)
  PROVE  IInv'
  <1>1. ShapeOK /\ DebtsAreShort /\ ChargedIsExact /\ HandlesInPlace /\ ReadersInPlace /\ JobsInPlace
    BY DEF IInv, PlaceInv
  <1>2. BuffersOK' /\ \A i \in Handles : i # k => ra'[i] = ra[i]
    BY <1>1, BuffersChange DEF ShapeOK, WorkerMove
  <1>3. \A i \in Workers : i # w => wk'[i] = wk[i]
    BY <1>1 DEF ShapeOK, WorkersOK, WorkerMove
  <1>4. ShapeOK'
    <2>1. WorkersOK'
      BY <1>1, <1>3 DEF ShapeOK, WorkersOK, WorkerMove
    <2>2. ReadersOK' /\ QueueOK'
      BY <1>1 DEF ShapeOK, ReadersOK, QueueOK, QueueGood, WorkerMove
    <2>3. RestOK'
      BY <1>1 DEF ShapeOK, RestOK, WorkerMove
    <2> QED
      BY <1>2, <2>1, <2>2, <2>3 DEF ShapeOK
  <1>5. DebtsAreShort'
    BY <1>1, <1>3 DEF DebtsAreShort, WorkerMove
  <1>6. ChargedIsExact'
    BY <1>1, <1>2, <1>3, <1>4, WorkerBalance DEF WorkerMove
  <1>7. HandlesInPlace'
    BY <1>1, <1>2 DEF HandlesInPlace, MayHold, WorkerMove
  <1>8. ReadersInPlace'
    BY <1>1 DEF ReadersInPlace, WorkerMove
  <1>9. JobsInPlace'
    <2>1. h' = h /\ \A i \in 1..Len(queue') : JobOK(h, queue'[i])
      BY DEF WorkerMove, QueueGood
    <2>2. \A i \in Workers : wk'[i].pc \in {"read", "store"} => JobOK(h, wk'[i].job)
      BY <1>1, <1>3 DEF JobsInPlace, WorkerMove
    <2> QED
      BY <2>1, <2>2 DEF JobsInPlace
  <1> QED
    BY <1>4, <1>5, <1>6, <1>7, <1>8, <1>9 DEF IInv, PlaceInv

\* A drop's move keeps the invariant.
LEMMA DropMoves ==
  ASSUME IInv, NEW k \in Handles, DropMove(k)
  PROVE  IInv'
  <1>1. ShapeOK /\ DebtsAreShort /\ ChargedIsExact /\ HandlesInPlace /\ ReadersInPlace /\ JobsInPlace
    BY DEF IInv, PlaceInv
  <1>2. BuffersOK' /\ \A i \in Handles : i # k => ra'[i] = ra[i]
    BY <1>1, BuffersChange DEF ShapeOK, DropMove
  <1>3. \A i \in Handles : i # k => drops'[i] = drops[i]
    BY <1>1 DEF ShapeOK, RestOK, DropMove
  <1>4. ShapeOK'
    <2>1. ReadersOK' /\ WorkersOK' /\ QueueOK'
      BY <1>1 DEF ShapeOK, ReadersOK, WorkersOK, QueueOK, DropMove
    <2>2. drops' \in [Handles -> Drops]
      BY <1>1 DEF ShapeOK, RestOK, DropMove
    <2>3. RestOK'
      BY <1>1, <2>2 DEF ShapeOK, RestOK, DropMove
    <2> QED
      BY <1>2, <2>1, <2>3 DEF ShapeOK
  <1>5. DebtsAreShort'
    BY <1>1, <1>3 DEF DebtsAreShort, DropMove
  <1>6. ChargedIsExact'
    <2>1. \A i \in Handles : i # k => ra'[i] = ra[i] /\ drops'[i] = drops[i]
      BY <1>2, <1>3
    <2> QED
      BY <1>1, <1>4, <2>1, HandleBalance DEF DropMove
  <1>7. HandlesInPlace'
    BY <1>1, <1>2, <1>3 DEF HandlesInPlace, MayHold, DropMove
  <1>8. ReadersInPlace' /\ JobsInPlace'
    BY <1>1 DEF ReadersInPlace, JobsInPlace, DropMove
  <1> QED
    BY <1>4, <1>5, <1>6, <1>7, <1>8 DEF IInv, PlaceInv

(***************************************************************************)
(* The steps of a reader.                                                  *)
(***************************************************************************)

\* What is known of a read that is under way.
LEMMA UnderWay ==
  ASSUME IInv, NEW r \in Readers, rd[r].pc # "idle"
  PROVE  /\ rd[r].h \in Handles /\ rd[r] \in Reads /\ rd[r].off \in 0..(BackingLen - 1)
         /\ rd \in [Readers -> Reads] /\ ra \in [Handles -> Buffers]
         /\ ra[rd[r].h] \in Buffers /\ BufferOK(ra[rd[r].h]) /\ ra[rd[r].h].windows \in WindowMaps
         /\ MayHold(rd[r].h) /\ (rd[r].pc # "uncharge" => rd[r].freed = 0)
         /\ h[rd[r].h] \in HandleStates /\ h \in [Handles -> HandleStates]
         /\ charged \in Int /\ owner \in [Handles -> Readers \cup {None}]
         /\ streams \in Seq(Handles) /\ QueueGood(queue)
  <1>1. ReadersOK /\ BuffersOK /\ RestOK /\ QueueOK
    BY DEF IInv, ShapeOK
  <1>2. rd[r].h \in Handles /\ rd[r] \in Reads /\ rd[r].off < BackingLen
    BY <1>1 DEF ReadersOK
  <1>3. rd[r].off \in 0..(BackingLen - 1)
    BY <1>2, Parameters DEF Reads
  <1>4. ra[rd[r].h] \in Buffers /\ BufferOK(ra[rd[r].h]) /\ ra[rd[r].h].windows \in WindowMaps
    BY <1>1, <1>2 DEF BuffersOK, Buffers
  <1>5. MayHold(rd[r].h)
    <2>1. h[rd[r].h].registered /\ (ReleaseWaits => h[rd[r].h].state = "open")
      BY DEF IInv, PlaceInv, ReadersInPlace
    <2>2. h[rd[r].h].state = "open" => drops[rd[r].h].pc = "held"
      BY <1>2 DEF IInv, PlaceInv, HandlesInPlace
    <2> QED
      BY <2>1, <2>2 DEF MayHold
  <1>6. rd[r].pc # "uncharge" => rd[r].freed = 0
    BY DEF IInv, DebtsAreShort
  <1>7. QueueGood(queue)
    BY <1>1 DEF QueueOK, QueueGood, IInv, PlaceInv, JobsInPlace
  <1> QED
    BY <1>1, <1>2, <1>3, <1>4, <1>5, <1>6, <1>7 DEF ReadersOK, BuffersOK, RestOK

\* What is not touched is kept.
LEMMA KeptAsIs ==
  ASSUME IInv
  PROVE  /\ h' = h => HandlesKept
         /\ streams' = streams => StreamsKept
         /\ queue' = queue => QueueGood(queue')
         /\ UNCHANGED owner => owner' \in [Handles -> Readers \cup {None}]
  <1>1. RestOK /\ QueueOK
    BY DEF IInv, ShapeOK
  <1>2. h' = h => HandlesKept
    <2>1. \A k \in Handles : h[k].epoch \in Nat
      BY <1>1 DEF RestOK, HandleStates
    <2> QED
      BY <1>1, <2>1 DEF RestOK, HandlesKept
  <1>3. streams' = streams => StreamsKept
    BY <1>1 DEF RestOK, StreamsKept
  <1>4. queue' = queue => QueueGood(queue')
    BY <1>1 DEF QueueOK, QueueGood, IInv, PlaceInv, JobsInPlace
  <1> QED
    BY <1>1, <1>2, <1>3, <1>4 DEF RestOK

\* A touched stream stays in the registry, and so do the others.
LEMMA TouchKeeps ==
  ASSUME IInv, NEW k \in Handles, Touch(k)
  PROVE  StreamsKept
  <1>1. streams \in Seq(Handles)
    BY DEF IInv, ShapeOK, RestOK
  <1>2. CASE streams' = streams
    BY <1>2, KeptAsIs
  <1>3. CASE streams' = Append(Coldest(k), k)
    <2>1. PICK rest \in Seq(Handles) : /\ rest = Coldest(k)
                                       /\ \A x \in Handles : x # k /\ Contains(streams, x) => Contains(rest, x)
      BY <1>1, RemoveFirstFacts DEF Coldest
    <2>2. /\ Append(rest, k) \in Seq(Handles) /\ Len(Append(rest, k)) = Len(rest) + 1
          /\ \A i \in 1..Len(rest) : Append(rest, k)[i] = rest[i]
          /\ Append(rest, k)[Len(rest) + 1] = k
      BY AppendProperties
    <2>3. \A x \in Handles : Contains(rest, x) \/ x = k => Contains(Append(rest, k), x)
      BY <2>2 DEF Contains
    <2> QED
      BY <1>3, <2>1, <2>2, <2>3 DEF StreamsKept
  <1> QED
    BY <1>2, <1>3 DEF Touch

\* A hit.
LEMMA ReadHitStep ==
  ASSUME IInv, NEW r \in Readers, ReadHit(r)
  PROVE  IInv'
  <1> DEFINE k == rd[r].h
             b == Resized([ra[k] EXCEPT !.next = rd[r].off + 1])
  <1>1. rd[r].pc = "lock" /\ ra' = [ra EXCEPT ![k] = b] /\ rd' = Planned(r, b) /\ Touch(k)
        /\ UNCHANGED <<owner, h, charged, wk, queue, drops, file, indexed, reads>>
    BY DEF ReadHit
  <1>2. /\ k \in Handles /\ rd[r] \in Reads /\ rd \in [Readers -> Reads] /\ ra \in [Handles -> Buffers]
        /\ BufferOK(ra[k]) /\ ra[k].windows \in WindowMaps /\ MayHold(k) /\ rd[r].freed = 0
        /\ charged \in Int /\ rd[r].off \in 0..(BackingLen - 1)
    BY <1>1, UnderWay
  <1>3. /\ BufferOK(b) /\ b.windows = ra[k].windows /\ b.next \in Nat /\ b.window \in Nat
        /\ Size(b) = Size(ra[k]) /\ Size(b) \in Nat
    <2>1. PICK n \in Nat : n = rd[r].off + 1
      BY <1>2, Parameters
    <2>2. PICK c : c = [ra[k] EXCEPT !.next = n] /\ BufferOK(c) /\ c.windows = ra[k].windows
      BY <1>2, BufferOps
    <2>3. BufferOK(Resized(c)) /\ Resized(c).windows = c.windows
      BY <2>2, BufferOps
    <2>4. b = Resized(c)
      BY <2>1, <2>2
    <2>5. b.next \in Nat /\ b.window \in Nat
      BY <2>3, <2>4 DEF BufferOK, Buffers
    <2> QED
      BY <1>2, <2>2, <2>3, <2>4, <2>5, SizeFacts
  <1> HIDE DEF b, k
  <1>4. ra'[k] = b /\ ra' = [ra EXCEPT ![k] = ra'[k]]
    BY <1>1, <1>2
  <1>5. rd'[r] = [rd[r] EXCEPT !.pc = "plan", !.plan = b.next, !.window = b.window]
        /\ rd' = [rd EXCEPT ![r] = rd'[r]]
    BY <1>1, <1>2 DEF Planned
  <1>6. /\ rd'[r] \in Reads /\ rd'[r].pc = "plan" /\ rd'[r].h = rd[r].h /\ rd'[r].off = rd[r].off
        /\ rd'[r].freed = 0
    BY <1>2, <1>3, <1>5 DEF Reads
  <1>7. HandlesKept /\ StreamsKept /\ QueueGood(queue') /\ owner' \in [Handles -> Readers \cup {None}]
    BY <1>1, <1>2, KeptAsIs, TouchKeeps
  <1>8. charged' - charged = (Size(ra'[k]) - Size(ra[k])) + (rd'[r].freed - rd[r].freed)
    BY <1>1, <1>2, <1>3, <1>4, <1>6
  <1>9. ReaderMove(r, k)
    BY <1>1, <1>2, <1>3, <1>4, <1>5, <1>6, <1>7, <1>8 DEF ReaderMove
  <1> QED
    BY <1>2, <1>9, ReaderMoves

\* A step that leaves every window where it is and owes nothing.
LEMMA BytesKept ==
  ASSUME IInv, NEW r \in Readers, rd[r].pc # "idle", rd[r].pc # "uncharge",
         ra' = [ra EXCEPT ![rd[r].h] = ra'[rd[r].h]], BufferOK(ra'[rd[r].h]),
         ra'[rd[r].h].windows = ra[rd[r].h].windows,
         rd' = [rd EXCEPT ![r] = rd'[r]], rd'[r] \in Reads, rd'[r].freed = 0,
         rd'[r].pc # "idle" => rd'[r].h = rd[r].h /\ rd'[r].off = rd[r].off,
         HandlesKept, StreamsKept, QueueGood(queue'), owner' \in [Handles -> Readers \cup {None}],
         UNCHANGED <<charged, wk, drops, file, indexed, reads>>
  PROVE  IInv'
  <1> DEFINE k == rd[r].h
  <1>1. /\ k \in Handles /\ ra[k].windows \in WindowMaps /\ MayHold(k) /\ rd[r].freed = 0
        /\ charged \in Int
    BY UnderWay
  <1>2. Size(ra'[k]) = Size(ra[k]) /\ Size(ra[k]) \in Nat
    BY <1>1, SizeFacts
  <1>3. charged' - charged = (Size(ra'[k]) - Size(ra[k])) + (rd'[r].freed - rd[r].freed)
    BY <1>1, <1>2
  <1>4. ReaderMove(r, k)
    BY <1>1, <1>3 DEF ReaderMove
  <1> QED
    BY <1>1, <1>4, ReaderMoves

\* The same when no buffer is touched.
LEMMA BuffersKept ==
  ASSUME IInv, NEW r \in Readers, rd[r].pc # "idle", rd[r].pc # "uncharge",
         rd' = [rd EXCEPT ![r] = rd'[r]], rd'[r] \in Reads, rd'[r].freed = 0,
         rd'[r].pc # "idle" => rd'[r].h = rd[r].h /\ rd'[r].off = rd[r].off,
         HandlesKept, StreamsKept, QueueGood(queue'), owner' \in [Handles -> Readers \cup {None}],
         UNCHANGED <<ra, charged, wk, drops, file, indexed, reads>>
  PROVE  IInv'
  <1>1. rd[r].h \in Handles /\ ra \in [Handles -> Buffers] /\ BufferOK(ra[rd[r].h])
    BY UnderWay
  <1>2. ra' = [ra EXCEPT ![rd[r].h] = ra'[rd[r].h]]
    BY <1>1
  <1> QED
    BY <1>1, <1>2, BytesKept

\* A miss.
LEMMA ReadMissStep ==
  ASSUME IInv, NEW r \in Readers, ReadMiss(r)
  PROVE  IInv'
  <1> DEFINE k == rd[r].h
  <1>1. /\ rd[r].pc = "lock" /\ owner' = [owner EXCEPT ![k] = r]
        /\ h' = [h EXCEPT ![k].epoch = IF rd[r].off = ra[k].next THEN @ ELSE @ + 1]
        /\ rd' = [rd EXCEPT ![r].pc = "room"]
        /\ UNCHANGED <<ra, streams, charged, wk, queue, drops, file, indexed, stale, reads>>
    BY DEF ReadMiss
  <1>2. /\ k \in Handles /\ rd[r] \in Reads /\ rd \in [Readers -> Reads] /\ rd[r].freed = 0
        /\ h \in [Handles -> HandleStates] /\ owner \in [Handles -> Readers \cup {None}]
    BY <1>1, UnderWay
  <1> HIDE DEF k
  <1>3. /\ rd' = [rd EXCEPT ![r] = rd'[r]] /\ rd'[r] \in Reads /\ rd'[r].freed = 0
        /\ rd'[r].h = rd[r].h /\ rd'[r].off = rd[r].off
    BY <1>1, <1>2 DEF Reads
  <1>4. HandlesKept
    <2>1. PICK e \in Nat : h' = [h EXCEPT ![k].epoch = e] /\ h[k].epoch <= e
      <3>1. h[k].epoch \in Nat
        BY <1>2 DEF HandleStates
      <3>2. h' = [h EXCEPT ![k].epoch = IF rd[r].off = ra[k].next THEN h[k].epoch ELSE h[k].epoch + 1]
        BY <1>1, <1>2
      <3>3. PICK e \in Nat : /\ e = IF rd[r].off = ra[k].next THEN h[k].epoch ELSE h[k].epoch + 1
                             /\ h[k].epoch <= e
        BY <3>1
      <3> QED
        BY <3>2, <3>3
    <2>2. \A i \in Handles : h[i].epoch \in Nat
      BY <1>2 DEF HandleStates
    <2>3. h'[k] = [h[k] EXCEPT !.epoch = e] /\ h'[k] \in HandleStates
      BY <1>2, <2>1 DEF HandleStates
    <2>4. \A i \in Handles : i # k => h'[i] = h[i]
      BY <1>2, <2>1
    <2>5. h' \in [Handles -> HandleStates]
      BY <1>2, <2>1, <2>3
    <2> QED
      BY <1>2, <2>1, <2>2, <2>3, <2>4, <2>5 DEF HandlesKept, HandleStates
  <1>5. StreamsKept /\ QueueGood(queue') /\ owner' \in [Handles -> Readers \cup {None}]
    BY <1>1, <1>2, KeptAsIs
  <1> QED
    BY <1>1, <1>3, <1>4, <1>5, BuffersKept

\* The room another reader may take is a number.
LEMMA RoomType ==
  ASSUME IInv
  PROVE  Room \in Nat
  <1>1. charged \in Int /\ Budget \in Nat
    BY Parameters DEF IInv, ShapeOK, RestOK
  <1>2. Max({0, Budget - charged}) \in Nat
    BY <1>1, MaxOfTwo
  <1> QED
    BY <1>1, <1>2 DEF Room

\* The search for room: the cap is set, or the candidates are listed.
LEMMA FindRoomStep ==
  ASSUME IInv, NEW r \in Readers, FindRoom(r)
  PROVE  IInv'
  <1> DEFINE k == rd[r].h
             old == Size(ra[k])
             desired == Max({per_stream_cap, old})
  <1>1. /\ k \in Handles /\ rd[r] \in Reads /\ rd \in [Readers -> Reads] /\ ra \in [Handles -> Buffers]
        /\ rd[r].pc = "room" /\ rd[r].freed = 0 /\ BufferOK(ra[k]) /\ ra[k].windows \in WindowMaps
        /\ streams \in Seq(Handles)
    BY UnderWay DEF FindRoom
  <1>2. UNCHANGED <<owner, h, streams, charged, wk, queue, drops, file, indexed, stale, reads>>
    BY DEF FindRoom
  <1>3. /\ HandlesKept /\ StreamsKept /\ QueueGood(queue')
        /\ owner' \in [Handles -> Readers \cup {None}]
    BY <1>2, KeptAsIs
  <1>4. CASE ra' = [ra EXCEPT ![k] = set_cap(@, desired)] /\ rd' = [rd EXCEPT ![r].pc = "fill"]
    <2>1. desired \in Nat
      <3>1. old \in Nat
        BY <1>1, SizeFacts
      <3> QED
        BY <3>1, CapFacts, MaxOfTwo
    <2>2. BufferOK(set_cap(ra[k], desired)) /\ set_cap(ra[k], desired).windows = ra[k].windows
      BY <1>1, <2>1, BufferOps
    <2> HIDE DEF desired, k
    <2>3. ra'[k] = set_cap(ra[k], desired) /\ ra' = [ra EXCEPT ![k] = ra'[k]]
      BY <1>1, <1>4
    <2>4. /\ rd' = [rd EXCEPT ![r] = rd'[r]] /\ rd'[r] \in Reads /\ rd'[r].freed = 0
          /\ rd'[r].h = rd[r].h /\ rd'[r].off = rd[r].off
      BY <1>1, <1>4 DEF Reads
    <2> QED
      BY <1>1, <1>2, <1>3, <2>2, <2>3, <2>4, BytesKept DEF k
  <1>5. CASE /\ rd' = [rd EXCEPT ![r].pc = "evict", ![r].room = Room, ![r].cands = Coldest(k)]
             /\ UNCHANGED ra
    <2>1. PICK m \in Nat, c \in Seq(Handles) : m = Room /\ c = Coldest(k)
      BY <1>1, RoomType, RemoveFirstFacts DEF Coldest
    <2>2. rd'[r] = [rd[r] EXCEPT !.pc = "evict", !.room = m, !.cands = c]
      BY <1>1, <1>5, <2>1
    <2>3. /\ rd' = [rd EXCEPT ![r] = rd'[r]] /\ rd'[r] \in Reads /\ rd'[r].freed = 0
          /\ rd'[r].h = rd[r].h /\ rd'[r].off = rd[r].off
      BY <1>1, <1>5, <2>2 DEF Reads
    <2> QED
      BY <1>1, <1>2, <1>3, <1>5, <2>3, BuffersKept
  <1> QED
    BY <1>4, <1>5 DEF FindRoom

\* Nothing left to evict.
LEMMA NoVictimStep ==
  ASSUME IInv, NEW r \in Readers, NoVictim(r)
  PROVE  IInv'
  <1> DEFINE k == rd[r].h
  <1>1. /\ k \in Handles /\ rd[r] \in Reads /\ rd \in [Readers -> Reads] /\ ra \in [Handles -> Buffers]
        /\ rd[r].pc = "evict" /\ rd[r].freed = 0 /\ BufferOK(ra[k]) /\ ra[k].windows \in WindowMaps
    BY UnderWay DEF NoVictim
  <1>2. /\ UNCHANGED <<owner, h, streams, charged, wk, queue, drops, file, indexed, reads>>
        /\ ra' = [ra EXCEPT ![k] = set_cap(@, Size(@) + rd[r].room)]
        /\ rd' = [rd EXCEPT ![r].pc = "fill"]
    BY DEF NoVictim
  <1>3. /\ HandlesKept /\ StreamsKept /\ QueueGood(queue')
        /\ owner' \in [Handles -> Readers \cup {None}]
    BY <1>2, KeptAsIs
  <1>4. PICK n \in Nat : n = Size(ra[k]) + rd[r].room
    <2>1. Size(ra[k]) \in Nat /\ rd[r].room \in Nat
      BY <1>1, SizeFacts DEF Reads
    <2> QED
      BY <2>1
  <1>5. BufferOK(set_cap(ra[k], n)) /\ set_cap(ra[k], n).windows = ra[k].windows
    BY <1>1, BufferOps
  <1> HIDE DEF k
  <1>6. ra'[k] = set_cap(ra[k], n) /\ ra' = [ra EXCEPT ![k] = ra'[k]]
    BY <1>1, <1>2, <1>4
  <1>7. /\ rd' = [rd EXCEPT ![r] = rd'[r]] /\ rd'[r] \in Reads /\ rd'[r].freed = 0
        /\ rd'[r].h = rd[r].h /\ rd'[r].off = rd[r].off
    BY <1>1, <1>2 DEF Reads
  <1> QED
    BY <1>1, <1>2, <1>3, <1>5, <1>6, <1>7, BytesKept DEF k

\* A read after a turn of its search.
Turned(x, c, f, p) == [x EXCEPT !.cands = c, !.freed = f, !.pc = p]

\* It is a read of the same handle and place.
LEMMA TurnedFacts ==
  \A x \in Reads, c \in Seq(Handles), f \in Nat, p \in {"room", "evict", "uncharge"} :
     /\ Turned(x, c, f, p) \in Reads /\ Turned(x, c, f, p).freed = f
     /\ Turned(x, c, f, p).pc = p /\ Turned(x, c, f, p).h = x.h
     /\ Turned(x, c, f, p).off = x.off
  <1> SUFFICES ASSUME NEW x \in Reads, NEW c \in Seq(Handles), NEW f \in Nat,
                      NEW p \in {"room", "evict", "uncharge"}
               PROVE  /\ Turned(x, c, f, p) \in Reads /\ Turned(x, c, f, p).freed = f
                      /\ Turned(x, c, f, p).pc = p /\ Turned(x, c, f, p).h = x.h
                      /\ Turned(x, c, f, p).off = x.off
    OBVIOUS
  <1> DEFINE y == Turned(x, c, f, p)
  <1>1. y \in Reads
    BY DEF Reads, Turned
  <1>2. y.freed = f /\ y.pc = p /\ y.h = x.h /\ y.off = x.off
    BY DEF Reads, Turned
  <1> QED
    BY <1>1, <1>2

\* An eviction: the candidate is passed over, or its bytes are owed.
LEMMA EvictStep ==
  ASSUME IInv, NEW r \in Readers, Evict(r)
  PROVE  IInv'
  <1> DEFINE v == Head(rd[r].cands)
             freed == IF owner[v] = None THEN Size(ra[v]) ELSE 0
             b == IF owner[v] = None THEN clear(ra[v]) ELSE ra[v]
  <1>1. /\ rd[r] \in Reads /\ rd \in [Readers -> Reads] /\ ra \in [Handles -> Buffers]
        /\ rd[r].pc = "evict" /\ rd[r].freed = 0 /\ charged \in Int /\ rd[r].cands # <<>>
    BY UnderWay DEF Evict
  <1>2. /\ UNCHANGED <<owner, h, streams, charged, wk, queue, drops, file, indexed, reads>>
        /\ ra' = [ra EXCEPT ![v] = b]
        /\ rd' = [rd EXCEPT ![r].cands = Tail(@), ![r].freed = freed,
                            ![r].pc = IF freed > 0 THEN "uncharge" ELSE @]
    BY DEF Evict
  <1>3. /\ HandlesKept /\ StreamsKept /\ QueueGood(queue')
        /\ owner' \in [Handles -> Readers \cup {None}]
    BY <1>2, KeptAsIs
  <1>4. v \in Handles /\ Tail(rd[r].cands) \in Seq(Handles)
    BY <1>1, HeadTailProperties DEF Reads
  <1>5. BufferOK(ra[v]) /\ ra[v].windows \in WindowMaps /\ (ra[v].windows # <<>> => MayHold(v))
    BY <1>4 DEF IInv, ShapeOK, BuffersOK, BufferOK, Buffers, PlaceInv, HandlesInPlace
  <1>6. /\ BufferOK(b) /\ (b.windows # <<>> => MayHold(v))
        /\ freed \in Nat /\ Size(b) \in Nat /\ Size(ra[v]) \in Nat /\ Size(b) = Size(ra[v]) - freed
    <2>1. Size(ra[v]) \in Nat
      BY <1>5, SizeFacts
    <2>2. CASE owner[v] = None
      <3>1. BufferOK(clear(ra[v])) /\ clear(ra[v]).windows = <<>> /\ clear(ra[v]).windows \in WindowMaps
        BY <1>5, BufferOps, EmptyMap
      <3>2. Size(clear(ra[v])) = 0
        BY <3>1, SizeFacts
      <3> QED
        BY <2>1, <2>2, <3>1, <3>2
    <2>3. CASE owner[v] # None
      BY <1>5, <2>1, <2>3
    <2> QED
      BY <2>2, <2>3
  <1> HIDE DEF v, freed, b
  <1>7. ra'[v] = b /\ ra' = [ra EXCEPT ![v] = ra'[v]]
    BY <1>1, <1>2, <1>4
  <1>8. PICK c \in Seq(Handles), pc \in {"evict", "uncharge"} :
          /\ rd' = [rd EXCEPT ![r].cands = c, ![r].freed = freed, ![r].pc = pc]
          /\ freed # 0 => pc = "uncharge"
    <2>1. PICK c \in Seq(Handles), pc \in {"evict", "uncharge"} :
            /\ c = Tail(rd[r].cands) /\ pc = IF freed > 0 THEN "uncharge" ELSE "evict"
            /\ freed # 0 => pc = "uncharge"
      <3>1. freed > 0 \/ freed = 0
        BY <1>6
      <3>2. CASE freed > 0
        BY <1>4, <3>2
      <3>3. CASE freed = 0
        BY <1>4, <3>3
      <3> QED
        BY <3>1, <3>2, <3>3
    <2>2. rd' = [rd EXCEPT ![r].cands = c, ![r].freed = freed, ![r].pc = pc]
      BY <1>1, <1>2, <2>1
    <2> QED
      BY <2>1, <2>2
  <1>9. /\ rd'[r] \in Reads /\ rd'[r].freed = freed /\ (freed # 0 => rd'[r].pc = "uncharge")
        /\ rd'[r].h = rd[r].h /\ rd'[r].off = rd[r].off /\ rd' = [rd EXCEPT ![r] = rd'[r]]
    <2>1. rd'[r] = Turned(rd[r], c, freed, pc)
      BY <1>1, <1>8 DEF Turned
    <2>2. rd' = [rd EXCEPT ![r] = rd'[r]]
      BY <1>1, <1>8
    <2>3. rd[r] \in Reads /\ freed \in Nat /\ (freed # 0 => pc = "uncharge")
      BY <1>1, <1>6, <1>8
    <2>4. /\ Turned(rd[r], c, freed, pc) \in Reads /\ Turned(rd[r], c, freed, pc).freed = freed
          /\ Turned(rd[r], c, freed, pc).pc = pc /\ Turned(rd[r], c, freed, pc).h = rd[r].h
          /\ Turned(rd[r], c, freed, pc).off = rd[r].off
      <3>1. PICK x \in Reads : x = rd[r]
        BY <2>3
      <3>2. PICK f \in Nat : f = freed
        BY <2>3
      <3> HIDE DEF freed
      <3>3. /\ Turned(x, c, f, "evict") \in Reads /\ Turned(x, c, f, "evict").freed = f
            /\ Turned(x, c, f, "evict").pc = "evict" /\ Turned(x, c, f, "evict").h = x.h
            /\ Turned(x, c, f, "evict").off = x.off
        BY TurnedFacts
      <3>4. /\ Turned(x, c, f, "uncharge") \in Reads /\ Turned(x, c, f, "uncharge").freed = f
            /\ Turned(x, c, f, "uncharge").pc = "uncharge" /\ Turned(x, c, f, "uncharge").h = x.h
            /\ Turned(x, c, f, "uncharge").off = x.off
        BY TurnedFacts
      <3>5. pc = "evict" \/ pc = "uncharge"
        OBVIOUS
      <3> QED
        BY <3>1, <3>2, <3>3, <3>4, <3>5
    <2> QED
      BY <2>1, <2>2, <2>3, <2>4
  <1>10. charged' \in Int /\ charged' - charged = (Size(ra'[v]) - Size(ra[v])) + (rd'[r].freed - rd[r].freed)
    BY <1>1, <1>2, <1>6, <1>7, <1>9
  <1>11. ReaderMove(r, v)
    BY <1>1, <1>2, <1>3, <1>6, <1>7, <1>8, <1>9, <1>10 DEF ReaderMove
  <1> QED
    BY <1>4, <1>11, ReaderMoves

\* What was owed is uncharged.
LEMMA EvictUnchargeStep ==
  ASSUME IInv, NEW r \in Readers, EvictUncharge(r)
  PROVE  IInv'
  <1> DEFINE k == rd[r].h
  <1>1. /\ k \in Handles /\ rd[r] \in Reads /\ rd \in [Readers -> Reads] /\ ra \in [Handles -> Buffers]
        /\ rd[r].pc = "uncharge" /\ BufferOK(ra[k]) /\ ra[k].windows \in WindowMaps /\ MayHold(k)
        /\ charged \in Int
    BY UnderWay DEF EvictUncharge
  <1>2. /\ UNCHANGED <<ra, owner, h, streams, wk, queue, drops, file, indexed, reads>>
        /\ charged' = charged - rd[r].freed
        /\ rd' = [rd EXCEPT ![r].pc = "room", ![r].freed = 0, ![r].cands = <<>>]
    BY DEF EvictUncharge
  <1>3. /\ HandlesKept /\ StreamsKept /\ QueueGood(queue')
        /\ owner' \in [Handles -> Readers \cup {None}]
    BY <1>2, KeptAsIs
  <1>4. rd[r].freed \in Nat /\ Size(ra[k]) \in Nat
    BY <1>1, SizeFacts DEF Reads
  <1> HIDE DEF k
  <1>5. ra'[k] = ra[k] /\ ra' = [ra EXCEPT ![k] = ra'[k]]
    BY <1>1, <1>2
  <1>6. /\ rd' = [rd EXCEPT ![r] = rd'[r]] /\ rd'[r] \in Reads /\ rd'[r].freed = 0
        /\ rd'[r].h = rd[r].h /\ rd'[r].off = rd[r].off
    <2>1. PICK c \in Seq(Handles) : c = <<>>
      BY EmptySeq
    <2>2. rd'[r] = Turned(rd[r], c, 0, "room")
      BY <1>1, <1>2, <2>1 DEF Reads, Turned
    <2>3. rd' = [rd EXCEPT ![r] = rd'[r]]
      BY <1>1, <1>2
    <2>4. rd[r] \in Reads
      BY <1>1
    <2>5. /\ Turned(rd[r], c, 0, "room") \in Reads /\ Turned(rd[r], c, 0, "room").freed = 0
          /\ Turned(rd[r], c, 0, "room").h = rd[r].h /\ Turned(rd[r], c, 0, "room").off = rd[r].off
      <3>1. PICK x \in Reads : x = rd[r]
        BY <2>4
      <3>2. /\ Turned(x, c, 0, "room") \in Reads /\ Turned(x, c, 0, "room").freed = 0
            /\ Turned(x, c, 0, "room").h = x.h /\ Turned(x, c, 0, "room").off = x.off
        BY TurnedFacts
      <3> QED
        BY <3>1, <3>2
    <2> QED
      BY <2>2, <2>3, <2>5
  <1>7. charged' \in Int /\ charged' - charged = (Size(ra'[k]) - Size(ra[k])) + (rd'[r].freed - rd[r].freed)
    BY <1>1, <1>2, <1>4, <1>5, <1>6
  <1>8. ReaderMove(r, k)
    BY <1>1, <1>2, <1>3, <1>5, <1>6, <1>7 DEF ReaderMove
  <1> QED
    BY <1>1, <1>8, ReaderMoves

\* A read that is over.
LEMMA IdleIsRead == Idle \in Reads /\ Idle.pc = "idle" /\ Idle.freed = 0
  <1>1. PICK c \in Seq(Handles), s \in Seq(Nat) : c = <<>> /\ s = <<>>
    BY EmptySeq
  <1>2. Idle = [pc |-> "idle", h |-> None, off |-> 0, room |-> 0, cands |-> c, freed |-> 0,
                plan |-> 0, window |-> 0, starts |-> s]
    BY <1>1 DEF Idle
  <1> QED
    BY <1>2 DEF Reads

\* The read after a served piece.
LEMMA PlannedFacts ==
  ASSUME rd \in [Readers -> Reads], NEW r \in Readers, NEW b, b.next \in Nat, b.window \in Nat,
         rd' = Planned(r, b)
  PROVE  /\ rd' = [rd EXCEPT ![r] = rd'[r]] /\ rd'[r] \in Reads /\ rd'[r].pc = "plan"
         /\ rd'[r].h = rd[r].h /\ rd'[r].off = rd[r].off /\ rd'[r].freed = rd[r].freed
  <1>1. rd'[r] = [rd[r] EXCEPT !.pc = "plan", !.plan = b.next, !.window = b.window]
        /\ rd' = [rd EXCEPT ![r] = rd'[r]]
    BY DEF Planned
  <1>2. PICK n \in Nat, w \in Nat : n = b.next /\ w = b.window
    OBVIOUS
  <1>3. rd[r] \in Reads /\ rd'[r] = [rd[r] EXCEPT !.pc = "plan", !.plan = n, !.window = w]
    BY <1>1, <1>2
  <1>4. rd'[r] \in Reads
    BY <1>3 DEF Reads
  <1>5. /\ rd'[r].pc = "plan" /\ rd'[r].h = rd[r].h /\ rd'[r].off = rd[r].off
        /\ rd'[r].freed = rd[r].freed
    BY <1>3 DEF Reads
  <1> QED
    BY <1>1, <1>4, <1>5

\* The pread, the insertion and its charge.
LEMMA FillStep ==
  ASSUME IInv, NEW r \in Readers, Fill(r)
  PROVE  IInv'
  <1> DEFINE k == rd[r].h
             b == Refill(ra[k], rd[r].off, file)
  <1>1. /\ rd[r].pc = "fill" /\ ra' = [ra EXCEPT ![k] = Resized(b)]
        /\ charged' = charged + Size(b) - Size(ra[k])
        /\ owner' = [owner EXCEPT ![k] = None] /\ rd' = Planned(r, b) /\ Touch(k)
        /\ UNCHANGED <<h, wk, queue, drops, file, indexed, reads>>
    BY DEF Fill
  <1>2. /\ k \in Handles /\ rd[r] \in Reads /\ rd \in [Readers -> Reads] /\ ra \in [Handles -> Buffers]
        /\ BufferOK(ra[k]) /\ ra[k].windows \in WindowMaps /\ MayHold(k) /\ rd[r].freed = 0
        /\ charged \in Int /\ rd[r].off \in 0..(BackingLen - 1)
        /\ owner \in [Handles -> Readers \cup {None}]
    BY <1>1, UnderWay
  <1>3. file \in Nat
    BY DEF IInv, ShapeOK, RestOK
  <1>4. BufferOK(b)
    BY <1>2, <1>3, RefillKeeps
  <1> HIDE DEF b, k
  <1>5. b.next \in Nat /\ b.window \in Nat /\ b.windows \in WindowMaps
    BY <1>4 DEF BufferOK, Buffers
  <1>6. BufferOK(Resized(b)) /\ Resized(b).windows = b.windows
    BY <1>4, BufferOps
  <1>7. Size(Resized(b)) = Size(b) /\ Size(b) \in Nat /\ Size(ra[k]) \in Nat
    BY <1>2, <1>5, <1>6, SizeFacts
  <1>8. ra'[k] = Resized(b) /\ ra' = [ra EXCEPT ![k] = ra'[k]]
    BY <1>1, <1>2
  <1>9. /\ rd' = [rd EXCEPT ![r] = rd'[r]] /\ rd'[r] \in Reads /\ rd'[r].pc = "plan"
        /\ rd'[r].h = rd[r].h /\ rd'[r].off = rd[r].off /\ rd'[r].freed = 0
    BY <1>1, <1>2, <1>5, PlannedFacts
  <1>10. HandlesKept /\ StreamsKept /\ QueueGood(queue') /\ owner' \in [Handles -> Readers \cup {None}]
    BY <1>1, <1>2, KeptAsIs, TouchKeeps
  <1>11. charged' \in Int /\ charged' - charged = (Size(ra'[k]) - Size(ra[k])) + (rd'[r].freed - rd[r].freed)
    BY <1>1, <1>2, <1>7, <1>8, <1>9
  <1>12. ReaderMove(r, k)
    BY <1>1, <1>2, <1>6, <1>8, <1>9, <1>10, <1>11 DEF ReaderMove
  <1> QED
    BY <1>2, <1>12, ReaderMoves

\* A failed pread.
LEMMA FillFailsStep ==
  ASSUME IInv, NEW r \in Readers, FillFails(r)
  PROVE  IInv'
  <1> DEFINE k == rd[r].h
             n == IF rd[r].off = ra[k].next THEN Min({2 * ra[k].window, ra[k].cap})
                  ELSE Min({WINDOW_FLOOR, ra[k].cap})
  <1>1. /\ k \in Handles /\ rd \in [Readers -> Reads] /\ ra \in [Handles -> Buffers]
        /\ BufferOK(ra[k]) /\ rd[r].off \in 0..(BackingLen - 1)
        /\ owner \in [Handles -> Readers \cup {None}] /\ rd[r].pc = "fill"
    BY UnderWay DEF FillFails
  <1>2. /\ ra' = [ra EXCEPT ![k].window = n] /\ owner' = [owner EXCEPT ![k] = None]
        /\ rd' = [rd EXCEPT ![r] = Idle]
        /\ UNCHANGED <<h, streams, charged, wk, queue, drops, file, indexed, reads>>
    <2>1. ra' = [ra EXCEPT ![k].window = n]
      BY DEF FillFails
    <2> QED
      BY <2>1 DEF FillFails
  <1>3. n \in Nat
    <2>1. rd[r].off \in Nat /\ BufferOK(ra[k])
      BY <1>1, Parameters
    <2> HIDE DEF k
    <2> QED
      BY <2>1, GrownWindow
  <1> HIDE DEF n
  <1>4. BufferOK([ra[k] EXCEPT !.window = n]) /\ [ra[k] EXCEPT !.window = n].windows = ra[k].windows
    BY <1>1, <1>3, BufferOps
  <1> HIDE DEF k
  <1>5. ra'[k] = [ra[k] EXCEPT !.window = n] /\ ra' = [ra EXCEPT ![k] = ra'[k]]
    BY <1>1, <1>2
  <1>6. rd'[r] = Idle /\ rd' = [rd EXCEPT ![r] = rd'[r]]
    BY <1>1, <1>2
  <1>7. HandlesKept /\ StreamsKept /\ QueueGood(queue') /\ owner' \in [Handles -> Readers \cup {None}]
    BY <1>1, <1>2, KeptAsIs
  <1> QED
    BY <1>1, <1>2, <1>4, <1>5, <1>6, <1>7, IdleIsRead, BytesKept DEF k

\* The plan: the winner claims the tail.
LEMMA PlanStep ==
  ASSUME IInv, NEW r \in Readers, Plan(r)
  PROVE  IInv'
  <1> DEFINE k == rd[r].h
             p == plan_prefetch(h[k].upto, rd[r].plan, rd[r].window,
                                prefetch_depth(rd[r].window), BackingLen)
  <1>1. /\ k \in Handles /\ rd[r] \in Reads /\ rd \in [Readers -> Reads] /\ rd[r].freed = 0
        /\ h \in [Handles -> HandleStates] /\ h[k] \in HandleStates /\ rd[r].pc = "plan"
    BY UnderWay DEF Plan
  <1>2. /\ h' = [h EXCEPT ![k].upto = p.upto]
        /\ rd' = [rd EXCEPT ![r] = IF p.starts = <<>> THEN Idle
                                   ELSE [@ EXCEPT !.pc = "dispatch", !.starts = p.starts]]
        /\ UNCHANGED <<ra, owner, streams, charged, wk, queue, drops, file, indexed, reads>>
    BY DEF Plan
  <1>3. PICK s \in Seq(Nat), u \in 0..BackingLen : s = p.starts /\ u = p.upto
    <2>1. h[k].upto \in 0..BackingLen /\ rd[r].plan \in Nat /\ rd[r].window \in Nat
      BY <1>1 DEF HandleStates, Reads
    <2>2. prefetch_depth(rd[r].window) \in 1..4
      BY <2>1, CapFacts
    <2>3. p.starts \in Seq(Nat) /\ p.upto \in 0..BackingLen
      BY <2>1, <2>2, PlanFacts
    <2> HIDE DEF p
    <2> QED
      BY <2>3
  <1> HIDE DEF p, k
  <1>4. HandlesKept
    <2>1. h'[k] = [h[k] EXCEPT !.upto = u] /\ \A i \in Handles : i # k => h'[i] = h[i]
      BY <1>1, <1>2, <1>3
    <2>2. /\ h'[k] \in HandleStates /\ h'[k].state = h[k].state /\ h'[k].registered = h[k].registered
          /\ h'[k].epoch = h[k].epoch
      BY <1>1, <2>1 DEF HandleStates
    <2>3. h' \in [Handles -> HandleStates]
      BY <1>1, <1>2, <2>2
    <2>4. \A i \in Handles : h[i].epoch \in Nat
      BY <1>1 DEF HandleStates
    <2>5. ASSUME NEW i \in Handles
          PROVE  /\ h'[i].state = h[i].state /\ h'[i].registered = h[i].registered
                 /\ h[i].epoch <= h'[i].epoch
      <3>1. h'[i].epoch = h[i].epoch
        BY <2>1, <2>2
      <3>2. h'[i].state = h[i].state /\ h'[i].registered = h[i].registered
        BY <2>1, <2>2
      <3>3. h[i].epoch \in Nat
        BY <2>4
      <3> QED
        BY <3>1, <3>2, <3>3
    <2> QED
      BY <2>3, <2>5 DEF HandlesKept
  <1>5. /\ rd' = [rd EXCEPT ![r] = rd'[r]] /\ rd'[r] \in Reads /\ rd'[r].freed = 0
        /\ rd'[r].pc # "idle" => rd'[r].h = rd[r].h /\ rd'[r].off = rd[r].off
    <2>1. rd' = [rd EXCEPT ![r] = rd'[r]]
      BY <1>1, <1>2
    <2>2. CASE rd'[r] = Idle
      BY <2>1, <2>2, IdleIsRead
    <2>3. CASE rd'[r] = [rd[r] EXCEPT !.pc = "dispatch", !.starts = s]
      BY <1>1, <2>1, <2>3 DEF Reads
    <2> QED
      BY <1>1, <1>2, <1>3, <2>2, <2>3
  <1>6. StreamsKept /\ QueueGood(queue') /\ owner' \in [Handles -> Readers \cup {None}]
    BY <1>2, KeptAsIs
  <1> QED
    BY <1>1, <1>2, <1>4, <1>5, <1>6, BuffersKept

\* Jobs are added to the channel as far as it has slots.
LEMMA QueueFilled ==
  ASSUME QueueGood(queue), NEW more \in Seq(Jobs), \A i \in 1..Len(more) : JobOK(h, more[i]),
         NEW all, all = queue \o more
  PROVE  QueueGood(SubSeq(all, 1, Min({Len(all), QueueCap})))
  <1>1. queue \in Seq(Jobs) /\ \A i \in 1..Len(queue) : JobOK(h, queue[i])
    BY DEF QueueGood
  <1>2. /\ all \in Seq(Jobs) /\ Len(all) = Len(queue) + Len(more)
        /\ \A i \in 1..(Len(queue) + Len(more)) :
             all[i] = IF i <= Len(queue) THEN queue[i] ELSE more[i - Len(queue)]
    BY <1>1, ConcatProperties
  <1>3. \A i \in 1..Len(all) : JobOK(h, all[i])
    <2>1. Len(queue) \in Nat /\ Len(more) \in Nat
      BY <1>1
    <2>2. ASSUME NEW i \in 1..Len(all)
          PROVE  JobOK(h, all[i])
      <3>1. CASE i <= Len(queue)
        BY <1>1, <1>2, <2>1, <3>1
      <3>2. CASE i > Len(queue)
        <4>1. i - Len(queue) \in 1..Len(more) /\ all[i] = more[i - Len(queue)]
          BY <1>2, <2>1, <3>2
        <4> QED
          BY <4>1
      <3> QED
        BY <1>2, <2>1, <3>1, <3>2
    <2> QED
      BY <2>2
  <1>4. PICK n \in Nat : n = Min({Len(all), QueueCap}) /\ n <= Len(all) /\ n <= QueueCap
    <2>1. PICK l \in Nat : l = Len(all)
      BY <1>2
    <2>2. Min({l, QueueCap}) = IF l <= QueueCap THEN l ELSE QueueCap
      BY Finite, MinOfTwo, SMTT(30)
    <2> QED
      BY <2>1, <2>2, Finite
  <1>5. /\ SubSeq(all, 1, n) \in Seq(Jobs) /\ Len(SubSeq(all, 1, n)) = n
        /\ \A i \in 1..n : SubSeq(all, 1, n)[i] = all[i]
    BY <1>2, <1>4, FrontPart
  <1>6. \A i \in 1..n : i \in 1..Len(all)
    BY <1>2, <1>4
  <1> QED
    BY <1>3, <1>4, <1>5, <1>6 DEF QueueGood

\* The planned windows are sent.
LEMMA DispatchStep ==
  ASSUME IInv, NEW r \in Readers, Dispatch(r)
  PROVE  IInv'
  <1> DEFINE k == rd[r].h
             Job(s) == [h |-> k, start |-> s, len |-> rd[r].window, epoch |-> h[k].epoch]
             more == [i \in DOMAIN rd[r].starts |-> Job(rd[r].starts[i])]
             all == queue \o more
  <1>1. /\ k \in Handles /\ rd[r] \in Reads /\ rd \in [Readers -> Reads] /\ rd[r].freed = 0
        /\ h[k] \in HandleStates /\ MayHold(k) /\ QueueGood(queue) /\ rd[r].pc = "dispatch"
    BY UnderWay DEF Dispatch
  <1>2. /\ queue' = SubSeq(all, 1, Min({Len(all), QueueCap})) /\ rd' = [rd EXCEPT ![r] = Idle]
        /\ UNCHANGED <<ra, owner, h, streams, charged, wk, drops, file, indexed, reads>>
    BY DEF Dispatch
  <1>3. ReleaseWaits => h[k].state = "open"
    BY <1>1 DEF IInv, PlaceInv, ReadersInPlace
  <1>4. rd[r].starts \in Seq(Nat) /\ rd[r].window \in Nat /\ h[k].epoch \in Nat
    BY <1>1 DEF Reads, HandleStates
  <1>5. \A s \in Nat : Job(s) \in Jobs /\ JobOK(h, Job(s))
    BY <1>1, <1>3, <1>4 DEF Jobs, JobOK, MayHold
  <1> HIDE DEF Job, k
  <1>6. more \in Seq(Jobs) /\ \A i \in 1..Len(more) : JobOK(h, more[i])
    <2>1. DOMAIN rd[r].starts = 1..Len(rd[r].starts) /\ Len(rd[r].starts) \in Nat
          /\ \A i \in 1..Len(rd[r].starts) : rd[r].starts[i] \in Nat
      BY <1>4
    <2>2. more \in [1..Len(rd[r].starts) -> Jobs]
      BY <1>5, <2>1
    <2>3. more \in Seq(Jobs) /\ Len(more) = Len(rd[r].starts)
      BY <2>1, <2>2
    <2>4. \A i \in 1..Len(more) : more[i] = Job(rd[r].starts[i]) /\ rd[r].starts[i] \in Nat
      BY <2>1, <2>3
    <2> QED
      BY <1>5, <2>3, <2>4
  <1> HIDE DEF more
  <1>7. QueueGood(queue')
    BY <1>1, <1>2, <1>6, QueueFilled
  <1>8. rd'[r] = Idle /\ rd' = [rd EXCEPT ![r] = rd'[r]]
    BY <1>1, <1>2
  <1>9. HandlesKept /\ StreamsKept /\ owner' \in [Handles -> Readers \cup {None}]
    BY <1>2, KeptAsIs
  <1> QED
    BY <1>1, <1>2, <1>7, <1>8, <1>9, IdleIsRead, BuffersKept

\* A read starts: its handle is registered.
LEMMA ReadStartStep ==
  ASSUME IInv, NEW r \in Readers, NEW k \in Handles, NEW off \in 0..(BackingLen - 1),
         ReadStart(r, k, off)
  PROVE  IInv'
  <1>1. /\ rd[r].pc = "idle" /\ h[k].state = "open" /\ reads' = reads + 1
        /\ h' = [h EXCEPT ![k].layout = indexed, ![k].registered = TRUE]
        /\ streams' = IF h[k].registered THEN streams ELSE Append(streams, k)
        /\ rd' = [rd EXCEPT ![r] = [Idle EXCEPT !.pc = "lock", !.h = k, !.off = off]]
        /\ UNCHANGED <<ra, owner, charged, wk, queue, drops, file, indexed>>
    BY DEF ReadStart
  <1>2. /\ ShapeOK /\ DebtsAreShort /\ ChargedIsExact /\ HandlesInPlace /\ ReadersInPlace /\ JobsInPlace
        /\ BuffersOK /\ ReadersOK /\ WorkersOK /\ QueueOK /\ RestOK
    BY DEF IInv, PlaceInv, ShapeOK
  <1>3. rd'[r] = [Idle EXCEPT !.pc = "lock", !.h = k, !.off = off] /\ \A i \in Readers : i # r => rd'[i] = rd[i]
    BY <1>1, <1>2 DEF ReadersOK
  <1>4. /\ rd'[r] \in Reads /\ rd'[r].pc = "lock" /\ rd'[r].h = k /\ rd'[r].off = off /\ rd'[r].freed = 0
    <2>1. off \in Nat /\ off < BackingLen /\ Idle \in Reads /\ Idle.freed = 0
      BY Parameters, IdleIsRead
    <2> QED
      BY <1>3, <2>1 DEF Reads
  <1>5. /\ h'[k] \in HandleStates /\ h'[k].state = h[k].state /\ h'[k].registered = TRUE
        /\ h'[k].epoch = h[k].epoch
        /\ h' \in [Handles -> HandleStates] /\ \A i \in Handles : i # k => h'[i] = h[i]
    <2>1. h \in [Handles -> HandleStates] /\ indexed \in Nat
      BY <1>2 DEF RestOK
    <2>2. h'[k] = [h[k] EXCEPT !.layout = indexed, !.registered = TRUE]
          /\ \A i \in Handles : i # k => h'[i] = h[i]
      BY <1>1, <2>1
    <2>3. h'[k] \in HandleStates
      BY <2>1, <2>2 DEF HandleStates
    <2>4. h'[k].state = h[k].state /\ h'[k].registered = TRUE /\ h'[k].epoch = h[k].epoch
      BY <2>1, <2>2 DEF HandleStates
    <2>5. h' \in [Handles -> HandleStates]
      BY <1>1, <2>1, <2>3
    <2> QED
      BY <2>2, <2>3, <2>4, <2>5
  <1>6. /\ streams' \in Seq(Handles) /\ \A i \in Handles : Contains(streams, i) => Contains(streams', i)
        /\ ~h[k].registered => Contains(streams', k)
    <2>1. streams \in Seq(Handles)
      BY <1>2 DEF RestOK
    <2>2. CASE h[k].registered
      BY <1>1, <2>1, <2>2
    <2>3. CASE ~h[k].registered
      <3>1. /\ Append(streams, k) \in Seq(Handles) /\ Len(Append(streams, k)) = Len(streams) + 1
            /\ \A i \in 1..Len(streams) : Append(streams, k)[i] = streams[i]
            /\ Append(streams, k)[Len(streams) + 1] = k
        BY <2>1, AppendProperties
      <3> QED
        BY <1>1, <2>1, <2>3, <3>1 DEF Contains
    <2> QED
      BY <2>2, <2>3
  <1>7. ShapeOK'
    <2>1. ReadersOK'
      <3>1. rd' \in [Readers -> Reads]
        BY <1>1, <1>2, <1>3, <1>4 DEF ReadersOK
      <3>2. off < BackingLen
        BY Parameters
      <3> QED
        BY <1>2, <1>3, <1>4, <3>1, <3>2 DEF ReadersOK
    <2>2. BuffersOK' /\ WorkersOK' /\ QueueOK'
      BY <1>1, <1>2 DEF BuffersOK, WorkersOK, QueueOK
    <2>3. RestOK'
      BY <1>1, <1>2, <1>5, <1>6 DEF RestOK
    <2> QED
      BY <2>1, <2>2, <2>3 DEF ShapeOK
  <1>8. DebtsAreShort'
    BY <1>1, <1>2, <1>3, <1>4 DEF DebtsAreShort
  <1>9. ChargedIsExact'
    <2>1. rd[r].freed = 0
      BY <1>1, <1>2 DEF DebtsAreShort
    <2>2. charged \in Int /\ Size(ra[k]) \in Nat
      BY <1>2, SizeFacts DEF RestOK, BuffersOK, Buffers
    <2>3. charged' - charged = (Size(ra'[k]) - Size(ra[k])) + (rd'[r].freed - rd[r].freed)
      BY <1>1, <1>4, <2>1, <2>2
    <2> QED
      BY <1>1, <1>2, <1>3, <1>7, <2>3, ReaderBalance
  <1>10. HandlesInPlace'
    <2>1. drops[k].pc = "held"
      BY <1>1, <1>2 DEF HandlesInPlace
    <2>2. Contains(streams', k)
      BY <1>2, <1>6, <2>1 DEF HandlesInPlace
    <2> QED
      BY <1>1, <1>2, <1>5, <1>6, <2>1, <2>2 DEF HandlesInPlace, MayHold
  <1>11. ReadersInPlace'
    <2>1. \A i \in Readers : rd[i].pc # "idle" => rd[i].h \in Handles
      BY <1>2 DEF ReadersOK
    <2> QED
      BY <1>1, <1>2, <1>3, <1>4, <1>5, <2>1 DEF ReadersInPlace
  <1>12. JobsInPlace'
    <2>1. \A j \in Jobs : JobOK(h, j) => JobOK(h', j)
      BY <1>1, <1>5 DEF JobOK, Jobs
    <2>2. \A i \in 1..Len(queue) : queue[i] \in Jobs
      BY <1>2 DEF QueueOK
    <2>3. \A w \in Workers : wk[w].pc \in {"read", "store"} => wk[w].job \in Jobs
      BY <1>2 DEF WorkersOK
    <2> QED
      BY <1>1, <1>2, <2>1, <2>2, <2>3 DEF JobsInPlace
  <1> QED
    BY <1>7, <1>8, <1>9, <1>10, <1>11, <1>12 DEF IInv, PlaceInv

\* A reader's step.
LEMMA ReadStepKeeps ==
  ASSUME IInv, NEW r \in Readers, ReadStep(r)
  PROVE  IInv'
  BY ReadHitStep, ReadMissStep, FindRoomStep, NoVictimStep, EvictStep, EvictUnchargeStep, FillStep,
     FillFailsStep, PlanStep, DispatchStep DEF ReadStep

(***************************************************************************)
(* The steps of a worker and of a drop.                                    *)
(***************************************************************************)

\* What is known of any handle.
LEMMA HandleFacts ==
  ASSUME IInv, NEW k \in Handles
  PROVE  /\ ra \in [Handles -> Buffers] /\ BufferOK(ra[k]) /\ ra[k].windows \in WindowMaps
         /\ Size(ra[k]) \in Nat /\ (ra[k].windows # <<>> => MayHold(k))
         /\ drops \in [Handles -> Drops] /\ drops[k] \in Drops
         /\ (drops[k].pc # "uncharge" => drops[k].freed = 0)
         /\ charged \in Int /\ QueueGood(queue) /\ streams \in Seq(Handles)
  <1>1. BuffersOK /\ RestOK /\ QueueOK
    BY DEF IInv, ShapeOK
  <1>2. BufferOK(ra[k]) /\ ra[k].windows \in WindowMaps
    BY <1>1 DEF BuffersOK, Buffers
  <1>3. Size(ra[k]) \in Nat
    BY <1>2, SizeFacts
  <1>4. ra[k].windows # <<>> => MayHold(k)
    BY DEF IInv, PlaceInv, HandlesInPlace
  <1>5. drops[k].pc # "uncharge" => drops[k].freed = 0
    BY DEF IInv, DebtsAreShort
  <1>6. QueueGood(queue)
    BY <1>1 DEF QueueOK, QueueGood, IInv, PlaceInv, JobsInPlace
  <1> QED
    BY <1>1, <1>2, <1>3, <1>4, <1>5, <1>6 DEF BuffersOK, RestOK

\* What is known of a worker.
LEMMA AtWork ==
  ASSUME IInv, NEW w \in Workers
  PROVE  /\ wk \in [Workers -> Stints] /\ wk[w] \in Stints
         /\ wk[w].pc # "idle" => wk[w].job \in Jobs /\ wk[w].job.h \in Handles /\ Want(wk[w].job) > 0
         /\ wk[w].pc \in {"read", "store"} => JobOK(h, wk[w].job)
         /\ wk[w].pc # "reconcile" => wk[w].delta = 0
  <1>1. WorkersOK
    BY DEF IInv, ShapeOK
  <1>2. wk[w].pc # "idle" => wk[w].job \in Jobs /\ Want(wk[w].job) > 0
    BY <1>1 DEF WorkersOK
  <1>3. \A j \in Jobs : j.h \in Handles
    BY DEF Jobs
  <1>4. wk[w].pc \in {"read", "store"} => JobOK(h, wk[w].job)
    BY DEF IInv, PlaceInv, JobsInPlace
  <1>5. wk[w].pc # "reconcile" => wk[w].delta = 0
    BY DEF IInv, DebtsAreShort
  <1> QED
    BY <1>1, <1>2, <1>3, <1>4, <1>5 DEF WorkersOK

\* A worker at rest.
LEMMA RestingIsStint == Resting \in Stints /\ Resting.pc = "idle" /\ Resting.delta = 0
  BY DEF Resting, Stints

\* A job is taken, or dropped.
LEMMA TakeJobStep ==
  ASSUME IInv, NEW w \in Workers, TakeJob(w)
  PROVE  IInv'
  <1> DEFINE j == Head(queue)
             k == j.h
  <1>1. /\ wk[w].pc = "idle" /\ queue # <<>> /\ queue' = Tail(queue)
        /\ \/ /\ wk' = [wk EXCEPT ![w] = [@ EXCEPT !.pc = "read", !.job = j]]
              /\ Want(j) > 0
           \/ wk' = [wk EXCEPT ![w] = @]
        /\ UNCHANGED <<ra, owner, h, streams, charged, rd, drops, file, indexed, reads>>
    BY DEF TakeJob
  <1>2. QueueOK /\ \A i \in 1..Len(queue) : JobOK(h, queue[i])
    BY DEF IInv, ShapeOK, PlaceInv, JobsInPlace
  <1>3. /\ j \in Jobs /\ j = queue[1] /\ Len(queue) \in Nat \ {0} /\ Tail(queue) \in Seq(Jobs)
        /\ Len(Tail(queue)) = Len(queue) - 1
        /\ \A i \in 1..Len(Tail(queue)) : Tail(queue)[i] = queue[i + 1]
    BY <1>1, <1>2, HeadTailProperties, EmptySeq DEF QueueOK
  <1>4. k \in Handles /\ JobOK(h, j)
    BY <1>2, <1>3 DEF Jobs
  <1>5. QueueGood(queue')
    <2>1. Len(Tail(queue)) <= QueueCap
      BY <1>2, <1>3, Finite DEF QueueOK
    <2>2. \A i \in 1..Len(Tail(queue)) : JobOK(h, Tail(queue)[i])
      <3>1. \A i \in 1..Len(Tail(queue)) : i + 1 \in 1..Len(queue)
        BY <1>3
      <3> QED
        BY <1>2, <1>3, <3>1
    <2> QED
      BY <1>1, <1>3, <2>1, <2>2 DEF QueueGood
  <1> HIDE DEF j, k
  <1>6. /\ ra \in [Handles -> Buffers] /\ BufferOK(ra[k]) /\ Size(ra[k]) \in Nat
        /\ (ra[k].windows # <<>> => MayHold(k)) /\ charged \in Int
    BY <1>4, HandleFacts
  <1>7. wk \in [Workers -> Stints] /\ wk[w] \in Stints /\ wk[w].delta = 0
    BY <1>1, AtWork
  <1>8. /\ wk' = [wk EXCEPT ![w] = wk'[w]] /\ wk'[w] \in Stints /\ wk'[w].delta = 0
        /\ wk'[w].pc # "idle" => wk'[w].job \in Jobs /\ Want(wk'[w].job) > 0 /\ JobOK(h, wk'[w].job)
    <2>1. CASE wk' = [wk EXCEPT ![w] = [@ EXCEPT !.pc = "read", !.job = j]] /\ Want(j) > 0
      <3>1. wk'[w] = [wk[w] EXCEPT !.pc = "read", !.job = j] /\ wk' = [wk EXCEPT ![w] = wk'[w]]
        BY <1>7, <2>1
      <3>2. wk'[w] \in Stints
        BY <1>3, <1>7, <3>1 DEF Stints
      <3>3. wk'[w].delta = 0 /\ wk'[w].job = j
        BY <1>7, <3>1 DEF Stints
      <3> QED
        BY <1>3, <1>4, <2>1, <3>1, <3>2, <3>3
    <2>2. CASE wk' = [wk EXCEPT ![w] = @]
      <3>1. wk'[w] = wk[w] /\ wk' = [wk EXCEPT ![w] = wk'[w]]
        BY <1>7, <2>2
      <3> QED
        BY <1>1, <1>7, <3>1
    <2> QED
      BY <1>1, <2>1, <2>2
  <1>9. /\ ra'[k] = ra[k] /\ ra' = [ra EXCEPT ![k] = ra'[k]] /\ charged' \in Int
        /\ (charged' - charged) + (wk'[w].delta - wk[w].delta) = Size(ra'[k]) - Size(ra[k])
    BY <1>1, <1>4, <1>6, <1>7, <1>8
  <1>10. WorkerMove(w, k)
    BY <1>1, <1>5, <1>6, <1>8, <1>9 DEF WorkerMove
  <1> QED
    BY <1>4, <1>10, WorkerMoves

\* The speculative pread.
LEMMA ReadJobStep ==
  ASSUME IInv, NEW w \in Workers, ReadJob(w)
  PROVE  IInv'
  <1> DEFINE k == wk[w].job.h
  <1>1. /\ wk[w].pc = "read"
        /\ \/ wk' = [wk EXCEPT ![w].pc = "store", ![w].ver = file]
           \/ wk' = [wk EXCEPT ![w] = Resting]
        /\ UNCHANGED <<ra, owner, h, streams, charged, rd, queue, drops, file, indexed, reads>>
    BY DEF ReadJob
  <1>2. /\ wk \in [Workers -> Stints] /\ wk[w] \in Stints /\ wk[w].delta = 0 /\ wk[w].job \in Jobs
        /\ k \in Handles /\ Want(wk[w].job) > 0 /\ JobOK(h, wk[w].job)
    BY <1>1, AtWork
  <1> HIDE DEF k
  <1>3. /\ ra \in [Handles -> Buffers] /\ BufferOK(ra[k]) /\ Size(ra[k]) \in Nat
        /\ (ra[k].windows # <<>> => MayHold(k)) /\ charged \in Int
    BY <1>2, HandleFacts
  <1>4. QueueGood(queue')
    BY <1>1, KeptAsIs
  <1>5. /\ wk' = [wk EXCEPT ![w] = wk'[w]] /\ wk'[w] \in Stints /\ wk'[w].delta = 0
        /\ wk'[w].pc # "idle" => wk'[w].job \in Jobs /\ Want(wk'[w].job) > 0 /\ JobOK(h, wk'[w].job)
    <2>1. CASE wk' = [wk EXCEPT ![w].pc = "store", ![w].ver = file]
      <3>1. wk'[w] = [wk[w] EXCEPT !.pc = "store", !.ver = file] /\ wk' = [wk EXCEPT ![w] = wk'[w]]
        BY <1>2, <2>1
      <3>2. file \in Nat
        BY DEF IInv, ShapeOK, RestOK
      <3>3. wk'[w] \in Stints
        BY <1>2, <3>1, <3>2 DEF Stints
      <3>4. wk'[w].delta = 0 /\ wk'[w].job = wk[w].job
        BY <1>2, <3>1 DEF Stints
      <3> QED
        BY <1>2, <3>1, <3>3, <3>4
    <2>2. CASE wk' = [wk EXCEPT ![w] = Resting]
      <3>1. wk'[w] = Resting /\ wk' = [wk EXCEPT ![w] = wk'[w]]
        BY <1>2, <2>2
      <3> QED
        BY <3>1, RestingIsStint
    <2> QED
      BY <1>1, <2>1, <2>2
  <1>6. /\ ra'[k] = ra[k] /\ ra' = [ra EXCEPT ![k] = ra'[k]] /\ charged' \in Int
        /\ (charged' - charged) + (wk'[w].delta - wk[w].delta) = Size(ra'[k]) - Size(ra[k])
    BY <1>1, <1>2, <1>3, <1>5
  <1>7. WorkerMove(w, k)
    BY <1>1, <1>3, <1>4, <1>5, <1>6 DEF WorkerMove
  <1> QED
    BY <1>2, <1>7, WorkerMoves

\* What a job wants is within the file.
LEMMA WantFits ==
  ASSUME NEW j \in Jobs, Want(j) > 0
  PROVE  /\ Want(j) \in Nat /\ j.start \in 0..(BackingLen - 1) /\ j.start + Want(j) <= BackingLen
  <1>1. j.len \in Nat /\ j.start \in Nat /\ BackingLen - j.start \in Int /\ BackingLen \in Nat
    BY Parameters DEF Jobs
  <1>2. Want(j) = IF j.len <= BackingLen - j.start THEN j.len ELSE BackingLen - j.start
    BY <1>1, MinOfTwo DEF Want
  <1> QED
    BY <1>1, <1>2

\* The store under the buffer's mutex.
LEMMA StoreStep ==
  ASSUME IInv, NEW w \in Workers, Store(w)
  PROVE  IInv'
  <1> DEFINE j == wk[w].job
             k == j.h
             b == insert_window(ra[k], j.start, [len |-> Want(j), ver |-> wk[w].ver])
  <1>1. /\ wk[w].pc = "store"
        /\ \/ /\ h[k].epoch = j.epoch /\ ra' = [ra EXCEPT ![k] = b]
              /\ wk' = [wk EXCEPT ![w].pc = "reconcile", ![w].delta = Size(b) - Size(ra[k])]
           \/ wk' = [wk EXCEPT ![w] = Resting] /\ UNCHANGED ra
        /\ UNCHANGED <<owner, h, streams, charged, rd, queue, drops, file, indexed, reads>>
    BY DEF Store
  <1>2. /\ wk \in [Workers -> Stints] /\ wk[w] \in Stints /\ wk[w].delta = 0 /\ j \in Jobs
        /\ k \in Handles /\ Want(j) > 0 /\ JobOK(h, j)
    BY <1>1, AtWork
  <1>3. /\ ra \in [Handles -> Buffers] /\ BufferOK(ra[k]) /\ Size(ra[k]) \in Nat
        /\ (ra[k].windows # <<>> => MayHold(k)) /\ charged \in Int
    BY <1>2, HandleFacts
  <1>4. QueueGood(queue')
    BY <1>1, KeptAsIs
  <1>5. BufferOK(b) /\ Size(b) \in Nat
    <2>1. Want(j) \in Nat /\ j.start \in 0..(BackingLen - 1) /\ j.start + Want(j) <= BackingLen
      BY <1>2, WantFits
    <2>2. [len |-> Want(j), ver |-> wk[w].ver] \in Spans
      BY <1>2, <2>1 DEF Stints, Spans
    <2>3. PICK s \in Spans : s = [len |-> Want(j), ver |-> wk[w].ver] /\ s.len = Want(j)
      BY <2>2
    <2>4. BufferOK(insert_window(ra[k], j.start, s))
      BY <1>3, <2>1, <2>3, InsertKeeps
    <2>5. BufferOK(b)
      BY <2>3, <2>4
    <2> HIDE DEF b
    <2>6. b.windows \in WindowMaps
      BY <2>5 DEF BufferOK, Buffers
    <2> QED
      BY <2>5, <2>6, SizeFacts
  <1> HIDE DEF b, k
  <1>6. CASE /\ h[k].epoch = j.epoch /\ ra' = [ra EXCEPT ![k] = b]
             /\ wk' = [wk EXCEPT ![w].pc = "reconcile", ![w].delta = Size(b) - Size(ra[k])]
    <2>1. MayHold(k)
      <3>1. h[k].registered /\ h[k].epoch \in Nat
            /\ (ReleaseWaits /\ h[k].state = "released" => j.epoch < h[k].epoch)
        BY <1>2 DEF JobOK, k, IInv, ShapeOK, RestOK, HandleStates
      <3>2. ~(ReleaseWaits /\ h[k].state = "released")
        BY <1>6, <3>1
      <3>3. drops[k].pc # "held" => h[k].state = "released"
        BY <1>2 DEF IInv, PlaceInv, HandlesInPlace
      <3> QED
        BY <3>1, <3>2, <3>3 DEF MayHold
    <2>2. PICK d \in Int : d = Size(b) - Size(ra[k])
      BY <1>3, <1>5
    <2>3. wk'[w] = [wk[w] EXCEPT !.pc = "reconcile", !.delta = d] /\ wk' = [wk EXCEPT ![w] = wk'[w]]
      BY <1>2, <1>6, <2>2
    <2>4. wk'[w] \in Stints
      BY <1>2, <2>3 DEF Stints
    <2>5. wk'[w].pc = "reconcile" /\ wk'[w].delta = d /\ wk'[w].job = j
      BY <1>2, <2>3 DEF Stints
    <2>6. ra'[k] = b /\ ra' = [ra EXCEPT ![k] = ra'[k]]
      BY <1>2, <1>3, <1>6
    <2>7. charged' \in Int
          /\ (charged' - charged) + (wk'[w].delta - wk[w].delta) = Size(ra'[k]) - Size(ra[k])
      BY <1>1, <1>2, <1>3, <1>5, <2>2, <2>5, <2>6
    <2>8. WorkerMove(w, k)
      BY <1>1, <1>2, <1>4, <1>5, <2>1, <2>3, <2>4, <2>5, <2>6, <2>7 DEF WorkerMove
    <2> QED
      BY <1>2, <2>8, WorkerMoves
  <1>7. CASE wk' = [wk EXCEPT ![w] = Resting] /\ UNCHANGED ra
    <2>1. wk'[w] = Resting /\ wk' = [wk EXCEPT ![w] = wk'[w]]
      BY <1>2, <1>7
    <2>2. wk'[w] \in Stints /\ wk'[w].pc = "idle" /\ wk'[w].delta = 0
      BY <2>1, RestingIsStint
    <2>3. /\ ra'[k] = ra[k] /\ ra' = [ra EXCEPT ![k] = ra'[k]] /\ charged' \in Int
          /\ (charged' - charged) + (wk'[w].delta - wk[w].delta) = Size(ra'[k]) - Size(ra[k])
      BY <1>1, <1>2, <1>3, <1>7, <2>2
    <2>4. WorkerMove(w, k)
      BY <1>1, <1>3, <1>4, <2>1, <2>2, <2>3 DEF WorkerMove
    <2> QED
      BY <1>2, <2>4, WorkerMoves
  <1> QED
    BY <1>1, <1>6, <1>7

\* The charge for what was stored.
LEMMA ReconcileStep ==
  ASSUME IInv, NEW w \in Workers, Reconcile(w)
  PROVE  IInv'
  <1> DEFINE k == wk[w].job.h
  <1>1. /\ wk[w].pc = "reconcile" /\ charged' = charged + wk[w].delta
        /\ wk' = [wk EXCEPT ![w] = Resting]
        /\ UNCHANGED <<ra, owner, h, streams, rd, queue, drops, file, indexed, reads>>
    BY DEF Reconcile
  <1>2. wk \in [Workers -> Stints] /\ wk[w].delta \in Int /\ k \in Handles
    BY <1>1, AtWork DEF Stints
  <1> HIDE DEF k
  <1>3. /\ ra \in [Handles -> Buffers] /\ BufferOK(ra[k]) /\ Size(ra[k]) \in Nat
        /\ (ra[k].windows # <<>> => MayHold(k)) /\ charged \in Int
    BY <1>2, HandleFacts
  <1>4. QueueGood(queue')
    BY <1>1, KeptAsIs
  <1>5. wk'[w] = Resting /\ wk' = [wk EXCEPT ![w] = wk'[w]]
    BY <1>1, <1>2
  <1>6. wk'[w] \in Stints /\ wk'[w].pc = "idle" /\ wk'[w].delta = 0
    BY <1>5, RestingIsStint
  <1>7. /\ ra'[k] = ra[k] /\ ra' = [ra EXCEPT ![k] = ra'[k]] /\ charged' \in Int
        /\ (charged' - charged) + (wk'[w].delta - wk[w].delta) = Size(ra'[k]) - Size(ra[k])
    BY <1>1, <1>2, <1>3, <1>6
  <1>8. WorkerMove(w, k)
    BY <1>1, <1>3, <1>4, <1>5, <1>6, <1>7 DEF WorkerMove
  <1> QED
    BY <1>2, <1>8, WorkerMoves

\* A worker's step.
LEMMA WorkerStepKeeps ==
  ASSUME IInv, NEW w \in Workers, WorkerStep(w)
  PROVE  IInv'
  BY TakeJobStep, ReadJobStep, StoreStep, ReconcileStep DEF WorkerStep

\* The entry is taken out of the registry.
LEMMA DeregisterStep ==
  ASSUME IInv, NEW k \in Handles, Deregister(k)
  PROVE  IInv'
  <1>1. /\ h[k].state = "released" /\ drops[k].pc = "held" /\ streams' = Coldest(k)
        /\ drops' = [drops EXCEPT ![k].pc = IF Contains(streams, k) THEN "clear" ELSE "dropped"]
        /\ UNCHANGED <<ra, owner, h, charged, rd, wk, queue, file, indexed, reads>>
    BY DEF Deregister
  <1>2. /\ ra \in [Handles -> Buffers] /\ BufferOK(ra[k]) /\ Size(ra[k]) \in Nat
        /\ (ra[k].windows # <<>> => MayHold(k)) /\ charged \in Int /\ streams \in Seq(Handles)
        /\ drops \in [Handles -> Drops] /\ drops[k] \in Drops /\ drops[k].freed = 0
    BY <1>1, HandleFacts
  <1>3. PICK p \in {"clear", "dropped"} : p = IF Contains(streams, k) THEN "clear" ELSE "dropped"
    OBVIOUS
  <1>4. drops'[k] = [drops[k] EXCEPT !.pc = p] /\ drops' = [drops EXCEPT ![k] = drops'[k]]
    BY <1>1, <1>2, <1>3
  <1>5. drops'[k] \in Drops /\ drops'[k].pc = p /\ drops'[k].freed = 0
    BY <1>2, <1>4 DEF Drops
  <1>6. /\ streams' \in Seq(Handles)
        /\ \A i \in Handles : i # k /\ Contains(streams, i) => Contains(streams', i)
    BY <1>1, <1>2, RemoveFirstFacts DEF Coldest
  <1>7. ra'[k].windows # <<>> => MayHold(k)'
    <2>1. h[k].registered => Contains(streams, k)
      BY <1>1 DEF IInv, PlaceInv, HandlesInPlace
    <2>2. ra[k].windows # <<>> => h[k].registered
      BY <1>2 DEF MayHold
    <2> QED
      BY <1>1, <1>3, <1>5, <2>1, <2>2 DEF MayHold
  <1>8. /\ ra'[k] = ra[k] /\ ra' = [ra EXCEPT ![k] = ra'[k]] /\ charged' \in Int
        /\ charged' - charged = (Size(ra'[k]) - Size(ra[k])) + (drops'[k].freed - drops[k].freed)
    BY <1>1, <1>2, <1>5
  <1>9. DropMove(k)
    BY <1>1, <1>2, <1>3, <1>4, <1>5, <1>6, <1>7, <1>8 DEF DropMove
  <1> QED
    BY <1>9, DropMoves

\* The buffer is cleared and its bytes are owed.
LEMMA DeregisterClearStep ==
  ASSUME IInv, NEW k \in Handles, DeregisterClear(k)
  PROVE  IInv'
  <1>1. /\ drops[k].pc = "clear" /\ ra' = [ra EXCEPT ![k] = clear(ra[k])]
        /\ drops' = [drops EXCEPT ![k] = [pc |-> "uncharge", freed |-> Size(ra[k])]]
        /\ UNCHANGED <<owner, h, streams, charged, rd, wk, queue, file, indexed, reads>>
    BY DEF DeregisterClear
  <1>2. /\ ra \in [Handles -> Buffers] /\ BufferOK(ra[k]) /\ Size(ra[k]) \in Nat
        /\ charged \in Int /\ streams \in Seq(Handles)
        /\ drops \in [Handles -> Drops] /\ drops[k].freed = 0
    BY <1>1, HandleFacts
  <1>3. /\ BufferOK(clear(ra[k])) /\ clear(ra[k]).windows = <<>> /\ Size(clear(ra[k])) = 0
    BY <1>2, BufferOps, EmptyMap, SizeFacts
  <1>4. ra'[k] = clear(ra[k]) /\ ra' = [ra EXCEPT ![k] = ra'[k]]
    BY <1>1, <1>2
  <1>5. drops'[k] = [pc |-> "uncharge", freed |-> Size(ra[k])] /\ drops' = [drops EXCEPT ![k] = drops'[k]]
    BY <1>1, <1>2
  <1>6. drops'[k] \in Drops /\ drops'[k].pc = "uncharge" /\ drops'[k].freed = Size(ra[k])
    BY <1>2, <1>5 DEF Drops
  <1>7. h[k].state = "released"
    BY <1>1 DEF IInv, PlaceInv, HandlesInPlace
  <1>8. /\ charged' \in Int
        /\ charged' - charged = (Size(ra'[k]) - Size(ra[k])) + (drops'[k].freed - drops[k].freed)
    BY <1>1, <1>2, <1>3, <1>4, <1>6
  <1>9. ra'[k].windows = <<>> /\ BufferOK(ra'[k])
    BY <1>3, <1>4
  <1>10. DropMove(k)
    BY <1>1, <1>2, <1>4, <1>5, <1>6, <1>7, <1>8, <1>9 DEF DropMove
  <1> QED
    BY <1>10, DropMoves

\* What was cleared is uncharged.
LEMMA DeregisterUnchargeStep ==
  ASSUME IInv, NEW k \in Handles, DeregisterUncharge(k)
  PROVE  IInv'
  <1>1. /\ drops[k].pc = "uncharge" /\ charged' = charged - drops[k].freed
        /\ drops' = [drops EXCEPT ![k] = [pc |-> "dropped", freed |-> 0]]
        /\ UNCHANGED <<ra, owner, h, streams, rd, wk, queue, file, indexed, reads>>
    BY DEF DeregisterUncharge
  <1>2. /\ ra \in [Handles -> Buffers] /\ BufferOK(ra[k]) /\ Size(ra[k]) \in Nat
        /\ charged \in Int /\ streams \in Seq(Handles) /\ (ra[k].windows # <<>> => MayHold(k))
        /\ drops \in [Handles -> Drops] /\ drops[k].freed \in Nat
    BY <1>1, HandleFacts DEF Drops
  <1>3. drops'[k] = [pc |-> "dropped", freed |-> 0] /\ drops' = [drops EXCEPT ![k] = drops'[k]]
    BY <1>1, <1>2
  <1>4. drops'[k] \in Drops /\ drops'[k].pc = "dropped" /\ drops'[k].freed = 0
    BY <1>3 DEF Drops
  <1>5. h[k].state = "released"
    BY <1>1 DEF IInv, PlaceInv, HandlesInPlace
  <1>6. /\ ra'[k] = ra[k] /\ ra' = [ra EXCEPT ![k] = ra'[k]] /\ charged' \in Int
        /\ charged' - charged = (Size(ra'[k]) - Size(ra[k])) + (drops'[k].freed - drops[k].freed)
    BY <1>1, <1>2, <1>4
  <1>7. ra'[k].windows # <<>> => MayHold(k)'
    BY <1>1, <1>2 DEF MayHold
  <1>8. DropMove(k)
    BY <1>1, <1>2, <1>3, <1>4, <1>5, <1>6, <1>7 DEF DropMove
  <1> QED
    BY <1>8, DropMoves

\* A drop's step.
LEMMA DropStepKeeps ==
  ASSUME IInv, NEW k \in Handles, DropStep(k)
  PROVE  IInv'
  BY DeregisterStep, DeregisterClearStep, DeregisterUnchargeStep DEF DropStep

(***************************************************************************)
(* Opening, releasing, the file; the invariant and the theorems.           *)
(***************************************************************************)

\* An opened handle.
LEMMA OpenStep ==
  ASSUME IInv, NEW k \in Handles, open_handle(k)
  PROVE  IInv'
  <1> DEFINE o == [Closed EXCEPT !.state = "open", !.layout = indexed]
  <1>1. /\ h[k].state = "closed" /\ h' = [h EXCEPT ![k] = o] /\ ra' = [ra EXCEPT ![k] = NewBuffer]
        /\ UNCHANGED <<owner, streams, charged, rd, wk, queue, drops, file, indexed, reads>>
    BY DEF open_handle
  <1>2. /\ ShapeOK /\ DebtsAreShort /\ ChargedIsExact /\ HandlesInPlace /\ ReadersInPlace /\ JobsInPlace
        /\ BuffersOK /\ ReadersOK /\ WorkersOK /\ QueueOK /\ RestOK
    BY DEF IInv, PlaceInv, ShapeOK
  <1>3. o \in HandleStates /\ o.state = "open" /\ o.registered = FALSE
    <2>1. indexed \in Nat /\ 0 \in Nat /\ 0 \in 0..BackingLen
      BY <1>2, Parameters DEF RestOK
    <2>2. PICK l \in Nat : l = indexed
      BY <2>1
    <2>3. PICK e \in HandleStates : e = [Closed EXCEPT !.state = "open"]
      BY <2>1 DEF Closed, HandleStates
    <2>4. e.state = "open" /\ e.registered = FALSE
      BY <2>3 DEF Closed
    <2>5. o = [e EXCEPT !.layout = l]
      BY <2>2, <2>3
    <2> QED
      BY <2>4, <2>5 DEF HandleStates
  <1> HIDE DEF o
  <1>4. h'[k] = o /\ (\A i \in Handles : i # k => h'[i] = h[i]) /\ h' \in [Handles -> HandleStates]
    BY <1>1, <1>2, <1>3 DEF RestOK
  <1>5. ~h[k].registered /\ drops[k].pc = "held" /\ ra[k].windows = <<>>
    BY <1>1, <1>2 DEF HandlesInPlace, MayHold
  <1>6. BufferOK(NewBuffer) /\ NewBuffer.windows = <<>> /\ Size(NewBuffer) = 0 /\ Size(ra[k]) = 0
    <2>1. BufferOK(ra[k]) /\ ra[k].windows \in WindowMaps
      BY HandleFacts
    <2>2. BufferOK(NewBuffer) /\ NewBuffer.windows = <<>>
      BY <2>1, BufferOps
    <2> QED
      BY <1>5, <2>1, <2>2, EmptyMap, SizeFacts
  <1>7. ra'[k] = NewBuffer /\ \A i \in Handles : i # k => ra'[i] = ra[i]
    BY <1>1, <1>2 DEF BuffersOK
  <1>8. ShapeOK'
    <2>1. ra' = [ra EXCEPT ![k] = ra'[k]] /\ BufferOK(ra'[k])
      BY <1>1, <1>6, <1>7
    <2>2. BuffersOK'
      BY <1>2, <2>1, BuffersChange
    <2>3. ReadersOK' /\ WorkersOK' /\ QueueOK'
      BY <1>1, <1>2 DEF ReadersOK, WorkersOK, QueueOK
    <2>4. RestOK'
      BY <1>1, <1>2, <1>4 DEF RestOK
    <2> QED
      BY <2>2, <2>3, <2>4 DEF ShapeOK
  <1>9. DebtsAreShort'
    BY <1>1, <1>2 DEF DebtsAreShort
  <1>10. ChargedIsExact'
    <2>1. charged \in Int /\ drops[k].freed \in Nat
      BY <1>2 DEF RestOK, Drops
    <2>2. charged' - charged = (Size(ra'[k]) - Size(ra[k])) + (drops'[k].freed - drops[k].freed)
      BY <1>1, <1>6, <1>7, <2>1
    <2>3. \A i \in Handles : i # k => ra'[i] = ra[i] /\ drops'[i] = drops[i]
      BY <1>1, <1>7
    <2> QED
      BY <1>1, <1>2, <1>8, <2>2, <2>3, HandleBalance
  <1>11. HandlesInPlace'
    BY <1>1, <1>2, <1>3, <1>4, <1>5, <1>6, <1>7 DEF HandlesInPlace, MayHold
  <1>12. ReadersInPlace'
    <2>1. \A i \in Readers : rd[i].pc # "idle" => rd[i].h \in Handles /\ rd[i].h # k
      BY <1>2, <1>5 DEF ReadersOK, ReadersInPlace
    <2> QED
      BY <1>1, <1>2, <1>4, <2>1 DEF ReadersInPlace
  <1>13. JobsInPlace'
    <2>1. \A j \in Jobs : JobOK(h, j) => JobOK(h', j)
      BY <1>4, <1>5 DEF JobOK, Jobs
    <2>2. \A i \in 1..Len(queue) : queue[i] \in Jobs
      BY <1>2 DEF QueueOK
    <2>3. \A w \in Workers : wk[w].pc \in {"read", "store"} => wk[w].job \in Jobs
      BY <1>2 DEF WorkersOK
    <2> QED
      BY <1>1, <1>2, <2>1, <2>2, <2>3 DEF JobsInPlace
  <1> QED
    BY <1>8, <1>9, <1>10, <1>11, <1>12, <1>13 DEF IInv, PlaceInv

\* A released handle: its epoch moves, so that jobs in flight are too old.
LEMMA ReleaseStep ==
  ASSUME IInv, NEW k \in Handles, release_handle(k)
  PROVE  IInv'
  <1>1. /\ h[k].state = "open" /\ (ReleaseWaits => Holding(k) = {})
        /\ h' = [h EXCEPT ![k].state = "released", ![k].epoch = @ + 1]
        /\ UNCHANGED <<ra, owner, streams, charged, rd, wk, queue, drops, file, indexed, reads>>
    BY DEF release_handle
  <1>2. /\ ShapeOK /\ DebtsAreShort /\ ChargedIsExact /\ HandlesInPlace /\ ReadersInPlace /\ JobsInPlace
        /\ BuffersOK /\ ReadersOK /\ WorkersOK /\ QueueOK /\ RestOK
    BY DEF IInv, PlaceInv, ShapeOK
  <1>3. h \in [Handles -> HandleStates] /\ h[k] \in HandleStates /\ h[k].epoch \in Nat
    BY <1>2 DEF RestOK, HandleStates
  <1>4. PICK e \in Nat : e = h[k].epoch + 1
    BY <1>3
  <1>5. h'[k] = [h[k] EXCEPT !.state = "released", !.epoch = e] /\ \A i \in Handles : i # k => h'[i] = h[i]
    BY <1>1, <1>3, <1>4
  <1>6. /\ h'[k] \in HandleStates /\ h'[k].state = "released" /\ h'[k].epoch = e
        /\ h'[k].registered = h[k].registered
    BY <1>3, <1>5 DEF HandleStates
  <1>7. h' \in [Handles -> HandleStates]
    BY <1>1, <1>3, <1>6
  <1>8. ShapeOK'
    <2>1. BuffersOK' /\ ReadersOK' /\ WorkersOK' /\ QueueOK'
      BY <1>1, <1>2 DEF BuffersOK, ReadersOK, WorkersOK, QueueOK
    <2>2. RestOK'
      BY <1>1, <1>2, <1>7 DEF RestOK
    <2> QED
      BY <2>1, <2>2 DEF ShapeOK
  <1>9. DebtsAreShort'
    BY <1>1, <1>2 DEF DebtsAreShort
  <1>10. ChargedIsExact'
    BY <1>1, <1>2 DEF ChargedIsExact
  <1>11. HandlesInPlace'
    <2>1. \A i \in Handles : h'[i].registered = h[i].registered
      BY <1>5, <1>6
    <2>2. \A i \in Handles : h[i].state = h'[i].state \/ (i = k /\ h'[i].state = "released")
      BY <1>5, <1>6
    <2>3. UNCHANGED <<ra, streams, drops>>
      BY <1>1
    <2>4. HandlesInPlace
      BY <1>2
    <2> QED
      BY <2>1, <2>2, <2>3, <2>4 DEF HandlesInPlace, MayHold
  <1>12. ReadersInPlace'
    <2>1. \A i \in Readers : rd[i].pc # "idle" => rd[i].h \in Handles /\ (ReleaseWaits => rd[i].h # k)
      BY <1>1, <1>2 DEF ReadersOK, Holding
    <2>2. ASSUME NEW i \in Readers, rd[i].pc # "idle"
          PROVE  h'[rd[i].h].registered /\ (ReleaseWaits => h'[rd[i].h].state = "open")
      <3>1. h[rd[i].h].registered /\ (ReleaseWaits => h[rd[i].h].state = "open")
        BY <1>2, <2>2 DEF ReadersInPlace
      <3>2. CASE rd[i].h = k
        BY <1>6, <2>1, <2>2, <3>1, <3>2
      <3>3. CASE rd[i].h # k
        BY <1>5, <2>1, <2>2, <3>1, <3>3
      <3> QED
        BY <3>2, <3>3
    <2> QED
      BY <1>1, <2>2 DEF ReadersInPlace
  <1>13. JobsInPlace'
    <2>1. \A j \in Jobs : JobOK(h, j) => JobOK(h', j)
      <3>1. ASSUME NEW j \in Jobs, JobOK(h, j)
            PROVE  JobOK(h', j)
        <4>1. j.h \in Handles /\ j.epoch \in Nat
          BY DEF Jobs
        <4>2. CASE j.h = k
          <5>1. j.epoch < h'[k].epoch /\ j.epoch <= h'[k].epoch
            BY <1>3, <1>4, <1>6, <3>1, <4>1, <4>2 DEF JobOK
          <5> QED
            BY <1>6, <3>1, <4>2, <5>1 DEF JobOK
        <4>3. CASE j.h # k
          BY <1>5, <3>1, <4>1, <4>3 DEF JobOK
        <4> QED
          BY <4>2, <4>3
      <3> QED
        BY <3>1
    <2>2. \A i \in 1..Len(queue) : queue[i] \in Jobs
      BY <1>2 DEF QueueOK
    <2>3. \A w \in Workers : wk[w].pc \in {"read", "store"} => wk[w].job \in Jobs
      BY <1>2 DEF WorkersOK
    <2> QED
      BY <1>1, <1>2, <2>1, <2>2, <2>3 DEF JobsInPlace
  <1> QED
    BY <1>8, <1>9, <1>10, <1>11, <1>12, <1>13 DEF IInv, PlaceInv

\* The file is rewritten or scanned, or nothing happens.
LEMMA OutsideStep ==
  ASSUME IInv, file' \in Nat, indexed' \in Nat,
         UNCHANGED <<ra, owner, h, streams, charged, rd, wk, queue, drops, reads>>
  PROVE  IInv'
  <1>1. ShapeOK'
    BY DEF IInv, ShapeOK, BuffersOK, ReadersOK, WorkersOK, QueueOK, RestOK
  <1>2. DebtsAreShort' /\ ChargedIsExact'
    BY DEF IInv, DebtsAreShort, ChargedIsExact
  <1>3. HandlesInPlace' /\ ReadersInPlace' /\ JobsInPlace'
    BY DEF IInv, PlaceInv, HandlesInPlace, ReadersInPlace, JobsInPlace, MayHold
  <1> QED
    BY <1>1, <1>2, <1>3 DEF IInv, PlaceInv

\* At first every buffer is empty and nothing is charged.
LEMMA InitKeeps == Init => IInv
  <1> SUFFICES ASSUME Init PROVE IInv
    OBVIOUS
  <1>1. /\ BufferOK(NewBuffer) /\ NewBuffer \in Buffers /\ NewBuffer.windows = <<>>
        /\ Size(NewBuffer) = 0
    <2>1. NewBuffer \in Buffers
      BY EmptyMap, CapFacts, Parameters DEF NewBuffer, Buffers, Never
    <2>2. NewBuffer.windows = <<>>
      BY DEF NewBuffer
    <2> QED
      BY <2>1, <2>2, EmptyMap, SizeFacts DEF BufferOK
  <1>2. Closed \in HandleStates /\ Closed.state = "closed" /\ Closed.registered = FALSE
    BY Parameters DEF Closed, HandleStates
  <1>3. [pc |-> "held", freed |-> 0] \in Drops
    BY DEF Drops
  <1>4. BuffersOK
    BY <1>1 DEF Init, BuffersOK
  <1>5. ReadersOK /\ WorkersOK
    BY IdleIsRead, RestingIsStint DEF Init, ReadersOK, WorkersOK
  <1>6. QueueOK
    BY EmptySeq, Finite DEF Init, QueueOK
  <1>7. RestOK
    BY <1>2, <1>3, EmptySeq DEF Init, RestOK
  <1>8. DebtsAreShort
    BY IdleIsRead, RestingIsStint DEF Init, DebtsAreShort
  <1>9. ChargedIsExact
    <2>1. ShapeOK
      BY <1>4, <1>5, <1>6, <1>7 DEF ShapeOK
    <2>2. Summands
      BY <2>1, SummandTypes
    <2>3. /\ \A k \in Handles : Bytes[k] = 0 /\ Dropped[k] = 0
          /\ \A r \in Readers : Freed[r] = 0
          /\ \A w \in Workers : Deltas[w] = 0
      BY <1>1, IdleIsRead, RestingIsStint DEF Init, Bytes, Dropped, Freed, Deltas
    <2>4. SumFunction(Bytes) = 0 /\ SumFunction(Dropped) = 0
      BY <2>2, <2>3, Finite, FunctionSum DEF Summands
    <2>5. SumFunction(Freed) = 0 /\ SumFunction(Deltas) = 0
      BY <2>2, <2>3, Finite, FunctionSum DEF Summands
    <2> QED
      BY <2>4, <2>5, ExactSums DEF Init
  <1>10. PlaceInv
    BY <1>1, <1>2, IdleIsRead, RestingIsStint
       DEF Init, PlaceInv, HandlesInPlace, ReadersInPlace, JobsInPlace, MayHold
  <1> QED
    BY <1>4, <1>5, <1>6, <1>7, <1>8, <1>9, <1>10 DEF IInv, ShapeOK

\* Every step keeps the invariant.
LEMMA NextKeeps == IInv /\ [Next]_vars => IInv'
  <1> SUFFICES ASSUME IInv, [Next]_vars PROVE IInv'
    OBVIOUS
  <1>1. file \in Nat /\ indexed \in Nat
    BY DEF IInv, ShapeOK, RestOK
  <1>2. CASE \E k \in Handles : open_handle(k) \/ release_handle(k) \/ DropStep(k)
    BY <1>2, OpenStep, ReleaseStep, DropStepKeeps
  <1>3. CASE \E r \in Readers, k \in Handles, off \in 0..(BackingLen - 1) : ReadStart(r, k, off)
    BY <1>3, ReadStartStep
  <1>4. CASE \E r \in Readers : ReadStep(r)
    BY <1>4, ReadStepKeeps
  <1>5. CASE \E w \in Workers : WorkerStep(w)
    BY <1>5, WorkerStepKeeps
  <1>6. CASE Rewrite
    BY <1>1, <1>6, OutsideStep DEF Rewrite
  <1>7. CASE Rescan
    BY <1>1, <1>7, OutsideStep DEF Rescan
  <1>8. CASE UNCHANGED vars
    BY <1>1, <1>8, OutsideStep DEF vars
  <1> QED
    BY <1>2, <1>3, <1>4, <1>5, <1>6, <1>7, <1>8 DEF Next

\* The invariant holds of every behaviour.
LEMMA Invariant == Spec => []IInv
  BY InitKeeps, NextKeeps, PTL DEF Spec

\* Every value stays in its range: no window of a buffer reaches past the end
\* of the file, no buffer has more than five, no read-ahead mark leaves the
\* file, and the prefetch channel never holds more than its slots.
THEOREM ReadAheadTypes == Spec => []TypeOK
  <1>1. IInv => TypeOK
    <2> SUFFICES ASSUME IInv PROVE TypeOK
      OBVIOUS
    <2>1. BuffersOK /\ ReadersOK /\ QueueOK /\ RestOK
      BY DEF IInv, ShapeOK
    <2>2. ASSUME NEW k \in Handles
          PROVE  /\ \A s \in DOMAIN ra[k].windows : End(ra[k].windows, s) <= BackingLen
                 /\ Cardinality(DOMAIN ra[k].windows) <= 5 /\ Size(ra[k]) \in Nat
                 /\ h[k].state \in {"closed", "open", "released"} /\ h[k].upto \in 0..BackingLen
                 /\ drops[k].pc \in {"held", "clear", "uncharge", "dropped"}
      <3>1. BufferOK(ra[k]) /\ Size(ra[k]) \in Nat
        BY HandleFacts
      <3> QED
        BY <2>1, <3>1 DEF BufferOK, Fits, RestOK, HandleStates, Drops
    <2>3. \A r \in Readers : rd[r].h \in Handles \cup {None}
      BY <2>1 DEF ReadersOK, Reads
    <2> QED
      BY <2>1, <2>2, <2>3 DEF TypeOK, RestOK, QueueOK
  <1> QED
    BY <1>1, Invariant, PTL

\* The pool's counter is exact at every instant: whatever thread stores,
\* clears, charges or uncharges in whatever order, no byte is counted twice
\* and none is forgotten.
THEOREM CounterIsExact == Spec => []ChargedIsExact
  <1>1. IInv => ChargedIsExact
    BY DEF IInv
  <1> QED
    BY <1>1, Invariant, PTL

\* With nothing in flight, only the buffers of open handles are charged, when
\* the kernel sends RELEASE after a handle's reads.
THEOREM BudgetDoesNotLeak == ReleaseWaits => (Spec => []BudgetNeverLeaks)
  <1> SUFFICES ASSUME ReleaseWaits PROVE Spec => []BudgetNeverLeaks
    OBVIOUS
  <1>1. IInv => BudgetNeverLeaks
    <2> SUFFICES ASSUME IInv, Quiet
                 PROVE  charged = SumFunction([k \in {i \in Handles : h[i].state = "open"} |-> Size(ra[k])])
      BY DEF BudgetNeverLeaks
    <2> DEFINE Open == {i \in Handles : h[i].state = "open"}
               part == [k \in Open |-> Size(ra[k])]
    <2>1. ShapeOK /\ DebtsAreShort /\ ChargedIsExact /\ HandlesInPlace /\ RestOK
      BY DEF IInv, ShapeOK, PlaceInv
    <2>2. Summands
      BY <2>1, SummandTypes
    <2>3. \A k \in Handles : Dropped[k] = 0
      BY <2>1 DEF Quiet, Dropped, DebtsAreShort, HandlesInPlace
    <2>4. \A r \in Readers : Freed[r] = 0
      BY <2>1 DEF Quiet, Freed, DebtsAreShort
    <2>5. \A w \in Workers : Deltas[w] = 0
      BY <2>1 DEF Quiet, Deltas, DebtsAreShort
    <2>6. SumFunction(Freed) = 0 /\ SumFunction(Deltas) = 0 /\ SumFunction(Dropped) = 0
      BY <2>2, <2>3, <2>4, <2>5, Finite, FunctionSum DEF Summands
    <2>7. charged = SumFunction(Bytes)
      BY <2>1, <2>2, <2>6, ExactSums DEF Summands, RestOK
    <2>8. \A k \in Handles \ Open : Bytes[k] = 0
      <3>1. ASSUME NEW k \in Handles, h[k].state # "open"
            PROVE  Size(ra[k]) = 0
        <4>1. h[k].state = "closed" \/ h[k].state = "released"
          BY <2>1, <3>1 DEF RestOK, HandleStates
        <4>2. h[k].state = "closed" => ~h[k].registered
          BY <2>1 DEF HandlesInPlace
        <4>3. h[k].state = "released" => drops[k].pc = "dropped"
          BY DEF Quiet
        <4>4. ra[k].windows = <<>>
          BY <2>1, <4>1, <4>2, <4>3 DEF HandlesInPlace, MayHold
        <4>5. ra[k].windows \in WindowMaps
          BY HandleFacts
        <4> QED
          BY <4>4, <4>5, SizeFacts
      <3> QED
        BY <3>1 DEF Bytes
    <2>9. SumFunction(Bytes) = SumFunction(part)
      <3>1. \A k \in Open : part[k] = Bytes[k]
        BY DEF Bytes
      <3>2. Open \in SUBSET Handles /\ part \in [Open -> Int]
        BY <2>2, <3>1 DEF Summands
      <3> HIDE DEF Open, part
      <3>3. Bytes \in [Handles -> Int] /\ \A k \in Handles : Bytes[k] \in Int
        BY <2>2 DEF Summands
      <3>4. SumFunction(Bytes) = SumFunctionOnSet(Bytes, Handles)
        BY <3>3 DEF SumFunction
      <3>5. SumFunctionOnSet(Bytes, Handles) = SumFunctionOnSet(Bytes, Open)
        BY <2>8, <3>2, <3>3, Finite, SumOfPart
      <3>6. SumFunctionOnSet(Bytes, Open) = SumFunctionOnSet(part, Open)
        BY <3>1, <3>2, <3>3, Finite, FS_Subset, SumSame
      <3>7. SumFunctionOnSet(part, Open) = SumFunction(part)
        BY <3>2 DEF SumFunction
      <3> QED
        BY <3>4, <3>5, <3>6, <3>7
    <2> QED
      BY <2>7, <2>9
  <1> QED
    BY <1>1, Invariant, PTL
=============================================================================
