----------------------------- MODULE FuseProofs -----------------------------
(***************************************************************************)
(* The FUSE adapter, proved for any number of workers, requests, entries,  *)
(* pages and addresses: every request the kernel still waits for has       *)
(* exactly one task or round that will answer it, no page goes out half    *)
(* resolved, and a listing found by a reused address is of the tree that   *)
(* is there now.                                                           *)
(***************************************************************************)
EXTENDS Fuse, FiniteSetTheorems, SequenceTheorems, TLAPS

(***************************************************************************)
(* Types.                                                                  *)
(***************************************************************************)

\* The jobs that answer a request themselves.
Solo == {"getattr", "opendir", "readdir", "plushead", "read", "open"}

Jobs == [kind : Solo \cup {"plus"}, r : Requests, i : Nat] \cup {Job("poll", None, 0)}

Ops == {"getattr", "opendir", "readdir", "readdirplus", "read", "open"}

Fates == {"none", "resolved", "error", "lost"}

ReqStates ==
    [op : Ops \cup {None}, fh : Nat, offset : Nat, page : Nat,
     state : {"unsent", "sent", "answered", "failed"}, replies : Nat,
     listing : Listings \cup {None}, entries : Seq([i : Nat, attr : {"attrs", "stand-in"}]),
     gen : Nat, fate : [1..Len(Entries) -> Fates]]

Fills ==
    [listing : Listings \cup {None}, start : Nat, upto : Nat, slots : SUBSET Nat,
     outstanding : Int, reply : {"none", "held", "sent"}]

ShapeOK ==
    /\ tree \in Trees /\ next \in 1..(MaxRequests + 1) /\ made \in Nat
    /\ req \in [Requests -> ReqStates] /\ fill \in [Requests -> Fills]
    /\ queue \in Seq(Jobs) /\ at \in [Threads -> Tasks \cup {None}]
    /\ \A t \in Threads : at[t] # None /\ at[t].kind # "poll" => at[t].r \in Requests
    /\ open \in [Requests -> OpenDirs \cup {None}] /\ shared \in [Addrs -> SharedDirs \cup {None}]
    /\ inflight \in Int /\ slab \subseteq Requests /\ backing \subseteq Requests
    /\ {due, poll_pending, disabled} \subseteq BOOLEAN

(***************************************************************************)
(* Two integers and the smaller and the larger of them.                    *)
(***************************************************************************)

\* The smaller of two integers.
LEMMA MinOfTwo == \A a, b \in Int : Min({a, b}) = IF a <= b THEN a ELSE b
  <1> SUFFICES ASSUME NEW a \in Int, NEW b \in Int PROVE Min({a, b}) = IF a <= b THEN a ELSE b
    OBVIOUS
  <1> DEFINE m == IF a <= b THEN a ELSE b
  <1>1. m \in {a, b} /\ \A y \in {a, b} : m <= y
    OBVIOUS
  <1>2. \A x \in {a, b} : (\A y \in {a, b} : x <= y) => x = m
    OBVIOUS
  <1> QED
    BY <1>1, <1>2 DEF Min

\* The larger of two integers.
LEMMA MaxOfTwo == \A a, b \in Int : Max({a, b}) = IF a <= b THEN b ELSE a
  <1> SUFFICES ASSUME NEW a \in Int, NEW b \in Int PROVE Max({a, b}) = IF a <= b THEN b ELSE a
    OBVIOUS
  <1> DEFINE m == IF a <= b THEN b ELSE a
  <1>1. m \in {a, b} /\ \A y \in {a, b} : m >= y
    OBVIOUS
  <1>2. \A x \in {a, b} : (\A y \in {a, b} : x >= y) => x = m
    OBVIOUS
  <1> QED
    BY <1>1, <1>2 DEF Max

(***************************************************************************)
(* Counting jobs and tasks.                                                *)
(***************************************************************************)
InQueue(q, J) == Cardinality({k \in 1..Len(q) : q[k] \in J})

InThreads(a, K) == Cardinality({t \in Threads : a[t] \in K})

Live(q, a, J, K) == InQueue(q, J) + InThreads(a, K)

One(b) == IF b THEN 1 ELSE 0

\* The pool and the dispatch thread are finitely many.
LEMMA ThreadsAreFinite == IsFiniteSet(Threads)
  BY FuseAssumption, FS_AddElement DEF Threads

\* Counts are natural numbers.
LEMMA CountTypes ==
  ASSUME NEW q \in Seq(Jobs), NEW a, NEW J, NEW K
  PROVE  InQueue(q, J) \in Nat /\ InThreads(a, K) \in Nat
  <1>1. IsFiniteSet(1..Len(q))
    BY FS_Interval
  <1>2. /\ {k \in 1..Len(q) : q[k] \in J} \in SUBSET (1..Len(q))
        /\ {t \in Threads : a[t] \in K} \in SUBSET Threads
    OBVIOUS
  <1>3. IsFiniteSet({k \in 1..Len(q) : q[k] \in J}) /\ IsFiniteSet({t \in Threads : a[t] \in K})
    BY <1>1, <1>2, ThreadsAreFinite, FS_Subset
  <1> QED
    BY <1>3, FS_CardinalityType DEF InQueue, InThreads

\* A job that is appended is counted once.
LEMMA CountAppend ==
  ASSUME NEW q \in Seq(Jobs), NEW j \in Jobs, NEW J
  PROVE  InQueue(Append(q, j), J) = InQueue(q, J) + One(j \in J)
  <1> DEFINE n == Len(q)
             S == {k \in 1..n : q[k] \in J}
             T == {k \in 1..(n + 1) : Append(q, j)[k] \in J}
  <1>1. n \in Nat /\ Len(Append(q, j)) = n + 1
    OBVIOUS
  <1>2. \A k \in 1..n : Append(q, j)[k] = q[k]
    OBVIOUS
  <1>3. Append(q, j)[n + 1] = j
    OBVIOUS
  <1>4. T = (IF j \in J THEN S \cup {n + 1} ELSE S)
    BY <1>1, <1>2, <1>3
  <1>5. IsFiniteSet(S) /\ n + 1 \notin S
    <2>1. IsFiniteSet(1..n) /\ S \in SUBSET (1..n)
      BY <1>1, FS_Interval
    <2> QED
      BY <1>1, <2>1, FS_Subset
  <1>6. InQueue(q, J) = Cardinality(S) /\ InQueue(Append(q, j), J) = Cardinality(T)
    BY <1>1 DEF InQueue
  <1> HIDE DEF n, S, T
  <1>7. Cardinality(S \cup {n + 1}) = Cardinality(S) + 1 /\ Cardinality(S) \in Nat
    BY <1>5, FS_AddElement, FS_CardinalityType
  <1> QED
    BY <1>4, <1>6, <1>7 DEF One

\* The oldest job is counted until it is taken.
LEMMA CountTail ==
  ASSUME NEW q \in Seq(Jobs), q # <<>>, NEW J
  PROVE  InQueue(q, J) = InQueue(Tail(q), J) + One(Head(q) \in J)
  <1> DEFINE n == Len(q)
             S == {k \in 1..n : q[k] \in J}
             S1 == {k \in 2..n : q[k] \in J}
             T == {k \in 1..(n - 1) : Tail(q)[k] \in J}
             f == [k \in T |-> k + 1]
  <1>1. n \in Nat \ {0} /\ Len(Tail(q)) = n - 1 /\ Head(q) = q[1]
    OBVIOUS
  <1>2. \A k \in 1..(n - 1) : Tail(q)[k] = q[k + 1]
    OBVIOUS
  <1>3. S = (IF q[1] \in J THEN S1 \cup {1} ELSE S1) /\ 1 \notin S1
    BY <1>1
  <1>4. IsFiniteSet(T) /\ IsFiniteSet(S1)
    <2>1. IsFiniteSet(1..n) /\ S1 \in SUBSET (1..n) /\ T \in SUBSET (1..n)
      BY SMTT(30), <1>1, FS_Interval
    <2> QED
      BY <2>1, FS_Subset
  <1>5. f \in Bijection(T, S1)
    <2>1. f \in [T -> S1]
      BY <1>1, <1>2
    <2>2. \A x, y \in T : f[x] = f[y] => x = y
      OBVIOUS
    <2>3. \A s \in S1 : \E k \in T : f[k] = s
      <3> SUFFICES ASSUME NEW s \in S1 PROVE \E k \in T : f[k] = s
        OBVIOUS
      <3>1. s - 1 \in 1..(n - 1) /\ (s - 1) + 1 = s
        BY <1>1
      <3>2. s - 1 \in T
        BY <3>1, <1>2
      <3>3. f[s - 1] = s
        BY <3>1, <3>2
      <3> QED
        BY <3>2, <3>3
    <2> QED
      BY <2>1, <2>2, <2>3 DEF Bijection, Injection, Surjection, IsInjective
  <1>6. InQueue(q, J) = Cardinality(S) /\ InQueue(Tail(q), J) = Cardinality(T)
    BY <1>1 DEF InQueue
  <1>7. Head(q) = q[1]
    BY <1>1
  <1> HIDE DEF n, S, S1, T, f
  <1>8. Cardinality(T) = Cardinality(S1)
    <2>1. ExistsBijection(T, S1)
      BY <1>5 DEF ExistsBijection
    <2> QED
      BY <1>4, <2>1, FS_Bijection
  <1>9. Cardinality(S1 \cup {1}) = Cardinality(S1) + 1 /\ Cardinality(S1) \in Nat
    BY <1>3, <1>4, FS_AddElement, FS_CardinalityType
  <1> QED
    BY <1>3, <1>6, <1>7, <1>8, <1>9 DEF One

\* A thread that goes from one task to another moves both counts by one.
LEMMA CountMove ==
  \A a, b, K : \A t \in Threads : (\A u \in Threads : u # t => b[u] = a[u]) =>
      InThreads(b, K) = InThreads(a, K) - One(a[t] \in K) + One(b[t] \in K)
  <1> SUFFICES ASSUME NEW a, NEW b, NEW K, NEW t \in Threads,
                      \A u \in Threads : u # t => b[u] = a[u]
               PROVE  InThreads(b, K) = InThreads(a, K) - One(a[t] \in K) + One(b[t] \in K)
    OBVIOUS
  <1> DEFINE S == {u \in Threads : a[u] \in K}
             R == {u \in Threads \ {t} : a[u] \in K}
             T == {u \in Threads : b[u] \in K}
  <1>1. \A u \in Threads \ {t} : b[u] = a[u]
    OBVIOUS
  <1>2. S = (IF a[t] \in K THEN R \cup {t} ELSE R) /\ T = (IF b[t] \in K THEN R \cup {t} ELSE R)
    BY <1>1
  <1>3. IsFiniteSet(R) /\ t \notin R
    <2>1. R \in SUBSET Threads
      OBVIOUS
    <2> QED
      BY <2>1, ThreadsAreFinite, FS_Subset
  <1>4. InThreads(a, K) = Cardinality(S) /\ InThreads(b, K) = Cardinality(T)
    BY DEF InThreads
  <1> HIDE DEF S, R, T
  <1>5. Cardinality(R) \in Nat /\ Cardinality(R \cup {t}) = Cardinality(R) + 1
    BY <1>3, FS_AddElement, FS_CardinalityType
  <1> QED
    BY <1>2, <1>4, <1>5 DEF One

(***************************************************************************)
(* The inductive invariant.                                                *)
(***************************************************************************)
OpOf(kind) == IF kind = "plushead" THEN "readdirplus" ELSE kind

\* Entry i belongs to the round in flight of request r.
InRound(r, i) == fill[r].reply = "held" /\ fill[r].start < i /\ i <= fill[r].upto

\* A queued job belongs to a request the kernel has sent.
JobOK(j) ==
    /\ j.kind # "poll" => j.r < next
    /\ j.kind \in Solo => req[j.r].op = OpOf(j.kind)
    /\ j.kind = "plus" => InRound(j.r, j.i)

\* How far a task of each kind may be.
StageOK(x) ==
    /\ x.kind = "getattr" => x.pc = "run"
    /\ x.kind = "open" => x.pc \in {"run", "reply"}
    /\ x.kind = "opendir" => x.pc \in {"probe", "build", "admit"}
    /\ x.kind \in {"readdir", "plushead"} => x.pc \in {"probe", "build"}
    /\ x.kind = "round" => x.pc \in {"dispatch", "guard", "finish"}
    /\ x.kind = "plus" => x.pc \in {"run", "guard", "finish"}
    /\ x.kind \in {"read", "poll"} => x.pc \in {"run", "guard"}

\* A task belongs to a request the kernel has sent, and what it carries is
\* of the generation that the request is to be answered from; the
\* dispatcher of a round has counted no more than it has passed.
TaskOK(x) ==
    /\ StageOK(x)
    /\ x.kind # "poll" => x.r < next
    /\ (x.kind \in Solo /\ x.pc # "guard") => req[x.r].op = OpOf(x.kind)
    /\ IF x.kind \in Listers THEN x.snap # None /\ x.snap.gen = req[x.r].gen ELSE x.snap = None
    /\ IF x.pc = "admit" THEN x.listing # None /\ x.listing.gen = x.snap.gen ELSE x.listing = None
    /\ x.pc = "reply" => x.r \in slab
    /\ (x.kind = "plus" /\ x.pc # "finish") => InRound(x.r, x.i)
    /\ x.pc = "dispatch" =>
          LET f == fill[x.r] IN
          /\ f.reply = "held" /\ f.start < x.i /\ (x.i <= f.start + 1 \/ x.i <= f.upto + 1)
          /\ f.outstanding <= x.i - f.start

TaskInv ==
    /\ \A k \in 1..Len(queue) : JobOK(queue[k])
    /\ \A t \in Threads : at[t] # None => TaskOK(at[t])

\* The page as far as the finished rounds have filled it, and the round in
\* flight: entries it has not reached are untouched, and one that resolved
\* has its slot filled.
PageOK(q, f) ==
    /\ f.listing # None /\ f.listing.gen = q.gen /\ q.op = "readdirplus" /\ q.state = "sent"
    /\ f.upto = Min({f.start + READDIRPLUS_BATCH, Len(Entries)})
    /\ f.start = q.offset + Len(q.entries) /\ Len(q.entries) <= q.page
    /\ f.start <= q.offset \/ f.start <= Len(Entries)
    /\ \A k \in 1..Len(q.entries) :
          /\ q.entries[k].i = q.offset + k
          /\ q.entries[k].attr = "attrs" <=> q.fate[q.offset + k] = "resolved"
    /\ \A i \in 1..Len(Entries) :
          /\ (i > f.start /\ q.fate[i] = "resolved") => i \in f.slots
          /\ i > f.upto => q.fate[i] = "none"
    /\ f.outstanding <= Len(Entries) + 1

\* A page that went out has all its entries.
ExactPage(q) ==
    LET n == Max({0, Min({q.page, Len(Entries) - q.offset})}) IN
    /\ Len(q.entries) = n
    /\ \A k \in 1..n : /\ q.entries[k].i = q.offset + k
                       /\ q.entries[k].attr = "attrs" <=> q.fate[q.offset + k] = "resolved"

RequestOK(r) ==
    LET q == req[r]
        f == fill[r]
    IN  /\ q.state = "unsent" <=> r >= next
        /\ q.replies = IF q.state \in {"answered", "failed"} THEN 1 ELSE 0
        /\ q.listing # None => q.state = "answered" /\ q.listing.gen = q.gen
        /\ open[r] # None => q.state = "answered" /\ open[r].listing.gen = q.gen
        /\ f.reply = "none" => /\ f = NoFill /\ q.entries = <<>>
                               /\ \A i \in 1..Len(Entries) : q.fate[i] = "none"
                               /\ q.op = "readdirplus" => q.state # "answered"
        /\ f.reply = "held" => PageOK(q, f)
        /\ f.reply = "sent" => f = [NoFill EXCEPT !.reply = "sent"] /\ q.state = "answered"
        /\ q.op = "readdirplus" /\ q.state = "answered" => ExactPage(q)

RequestInv == \A r \in Requests : RequestOK(r)

OwnJobs(r) == {j \in Jobs : j.kind \in Solo /\ j.r = r}
OwnTasks(r) == {x \in Tasks : x.kind \in Solo /\ x.r = r /\ x.pc # "guard"}
PlusJobs(r) == {j \in Jobs : j.kind = "plus" /\ j.r = r}
RoundTasks(r) == {x \in Tasks : x.kind \in {"plus", "round"} /\ x.r = r /\ x.pc # "finish"}
DispatchTasks(r) == {x \in Tasks : x.pc = "dispatch" /\ x.r = r}
FinishTasks(r) == {x \in Tasks : x.pc = "finish" /\ x.r = r}

Owners(r) == Live(queue, at, OwnJobs(r), OwnTasks(r))
Uncounted(r) == Live(queue, at, PlusJobs(r), RoundTasks(r))
Dispatchers(r) == InThreads(at, DispatchTasks(r))
Finishers(r) == InThreads(at, FinishTasks(r))

\* A request that waits has one task that answers it, or a round in flight;
\* a round counts its dispatcher and its tasks out, and when they are all
\* out one thread is left to finish it.
CountOK(r) ==
    /\ Owners(r) = One(req[r].state = "sent" /\ fill[r].reply = "none")
    /\ fill[r].outstanding = Uncounted(r)
    /\ Dispatchers(r) <= 1
    /\ Finishers(r) = One(fill[r].reply = "held" /\ fill[r].outstanding = 0)

CountInv == \A r \in Requests : CountOK(r)

ServiceInv == ShapeOK /\ TaskInv /\ RequestInv /\ CountInv

\* The constants, as the proofs use them.
LEMMA Bounds ==
    /\ MAX_DIR_HANDLES \in Nat \ {0} /\ MAX_INFLIGHT_READS \in Nat \ {0}
    /\ READDIRPLUS_BATCH \in Nat \ {0} /\ MaxRequests \in Nat \ {0}
    /\ Len(Entries) \in Nat /\ Entries \in Seq({"dir", "file"})
    /\ Dispatch \in Threads /\ Workers \subseteq Threads
  BY FuseAssumption DEF Threads

\* The jobs a request brings go behind the poll that is due.
LEMMA FiredQueue ==
  ASSUME queue \in Seq(Jobs), NEW jobs, jobs = <<>> \/ (\E j \in Jobs : jobs = <<j>>),
         fire_poll_refresh(jobs)
  PROVE  LET q == IF Fires THEN Append(queue, Job("poll", None, 0)) ELSE queue IN
         /\ q \in Seq(Jobs) /\ queue' \in Seq(Jobs)
         /\ jobs = <<>> => queue' = q
         /\ \A j \in Jobs : jobs = <<j>> => queue' = Append(q, j)
  <1> DEFINE q == IF Fires THEN Append(queue, Job("poll", None, 0)) ELSE queue
  <1>1. q \in Seq(Jobs)
    BY DEF Jobs
  <1>2. queue' = q \o jobs
    BY DEF fire_poll_refresh
  <1> HIDE DEF q
  <1>3. q \o <<>> = q /\ \A j \in Jobs : q \o <<j>> = Append(q, j)
    BY <1>1
  <1>4. \A j \in Jobs : Append(q, j) \in Seq(Jobs)
    BY <1>1
  <1>5. queue' \in Seq(Jobs)
    BY <1>1, <1>2, <1>3, <1>4
  <1> QED
    BY <1>1, <1>2, <1>3, <1>5 DEF q

\* The records a request, a round and a task start from have their types.
LEMMA FreshTypes ==
    /\ NoReq \in ReqStates /\ NoFill \in Fills
    /\ \A l \in Listings, start \in Nat : spawn_plus_round(l, start) \in Fills
    /\ \A r \in Requests, start \in Nat : RoundOf(r, start) \in Tasks
    /\ \A j \in Jobs, pc \in Pcs, snap \in Trees \cup {None} : Doing(j, pc, snap) \in Tasks
  <1>1. NoReq \in ReqStates /\ NoFill \in Fills
    BY DEF NoReq, ReqStates, NoFill, Fills, Fates
  <1>2. \A l \in Listings, start \in Nat : spawn_plus_round(l, start) \in Fills
    BY MinOfTwo, Bounds DEF spawn_plus_round, Fills, DispatcherCount
  <1>3. \A r \in Requests, start \in Nat : RoundOf(r, start) \in Tasks
    BY DEF RoundOf, Doing, Job, Tasks, Kinds, Pcs
  <1>4. \A j \in Jobs, pc \in Pcs, snap \in Trees \cup {None} : Doing(j, pc, snap) \in Tasks
    BY DEF Doing, Job, Jobs, Solo, Tasks, Kinds
  <1> QED
    BY <1>1, <1>2, <1>3, <1>4

\* A reply keeps the type of the request.
LEMMA ReplyTypes ==
  ASSUME ShapeOK
  PROVE  \A r \in Requests :
            /\ \A s \in {"unsent", "sent", "answered", "failed"} :
                  Reply(r, s) \in [Requests -> ReqStates]
            /\ Errno(r) \in [Requests -> ReqStates]
            /\ \A l \in Listings : ReplyListing(r, l) \in [Requests -> ReqStates]
  <1> SUFFICES ASSUME NEW r \in Requests
      PROVE  /\ \A s \in {"unsent", "sent", "answered", "failed"} :
                   Reply(r, s) \in [Requests -> ReqStates]
             /\ Errno(r) \in [Requests -> ReqStates]
             /\ \A l \in Listings : ReplyListing(r, l) \in [Requests -> ReqStates]
    OBVIOUS
  <1>1. req \in [Requests -> ReqStates]
    BY DEF ShapeOK
  <1>2. ASSUME NEW s \in {"unsent", "sent", "answered", "failed"}
        PROVE  Reply(r, s) \in [Requests -> ReqStates]
    <2> DEFINE q == [req[r] EXCEPT !.state = s, !.replies = @ + 1]
    <2>1. q \in ReqStates
      <3>1. PICK p \in ReqStates : p = req[r]
        BY <1>1
      <3>2. p.replies + 1 \in Nat
        BY DEF ReqStates
      <3>3. q = [[p EXCEPT !.state = s] EXCEPT !.replies = p.replies + 1]
        BY <3>1 DEF ReqStates
      <3>4. [p EXCEPT !.state = s] \in ReqStates
        BY DEF ReqStates
      <3> QED
        BY <3>2, <3>3, <3>4 DEF ReqStates
    <2>2. Reply(r, s) = [req EXCEPT ![r] = q]
      BY <1>1 DEF Reply
    <2> QED
      BY <1>1, <2>1, <2>2
  <1>3. ASSUME NEW l \in Listings
        PROVE  ReplyListing(r, l) \in [Requests -> ReqStates]
    <2> DEFINE a == Reply(r, "answered")
               q == [a[r] EXCEPT !.listing = l]
    <2>1. a \in [Requests -> ReqStates]
      BY <1>2
    <2> HIDE DEF a
    <2>2. q \in ReqStates
      <3>1. a[r] \in ReqStates
        BY <2>1
      <3> QED
        BY <3>1 DEF ReqStates
    <2>3. ReplyListing(r, l) = [a EXCEPT ![r] = q]
      BY <2>1 DEF ReplyListing, a
    <2> QED
      BY <2>1, <2>2, <2>3
  <1> QED
    BY <1>2, <1>3 DEF Errno

(***************************************************************************)
(* Types are kept.                                                         *)
(***************************************************************************)

\* A step that only sends a request.
LEMMA RecordTypes ==
  ASSUME ShapeOK, next <= MaxRequests, NEW q \in ReqStates, Record(q)
  PROVE  req' \in [Requests -> ReqStates] /\ next' \in 1..(MaxRequests + 1) /\ next \in Requests
  <1>1. next \in Requests
    BY Bounds DEF ShapeOK, Requests
  <1> QED
    BY <1>1, Bounds DEF ShapeOK, Record

\* A request as it is sent has its type and its parts.
LEMMA SentTypes ==
  ASSUME NEW op \in Ops, NEW fh \in Nat, NEW offset \in Nat, NEW page \in Nat, NEW gen \in Nat
  PROVE  LET q == Sent(op, fh, offset, page, gen) IN
         /\ q \in ReqStates
         /\ q.op = op /\ q.fh = fh /\ q.offset = offset /\ q.page = page /\ q.gen = gen
         /\ q.state = "sent" /\ q.replies = 0 /\ q.listing = None /\ q.entries = <<>>
         /\ \A i \in 1..Len(Entries) : q.fate[i] = "none"
         /\ [q EXCEPT !.state = "failed", !.replies = 1] \in ReqStates
         /\ \A l \in Listings :
               [q EXCEPT !.state = "answered", !.replies = 1, !.listing = l] \in ReqStates
  <1> DEFINE fresh == [i \in 1..Len(Entries) |-> "none"]
             q == [op |-> op, fh |-> fh, offset |-> offset, page |-> page, state |-> "sent",
                   replies |-> 0, listing |-> None, entries |-> <<>>, gen |-> gen, fate |-> fresh]
  <1>1. Sent(op, fh, offset, page, gen) = q
    <2>1. NoReq = [op |-> None, fh |-> 0, offset |-> 0, page |-> 0, state |-> "unsent", replies |-> 0,
                   listing |-> None, entries |-> <<>>, gen |-> 0, fate |-> fresh]
      BY DEF NoReq
    <2> DEFINE R(o, f, off, p, s, g) ==
                 [op |-> o, fh |-> f, offset |-> off, page |-> p, state |-> s, replies |-> 0,
                  listing |-> None, entries |-> <<>>, gen |-> g, fate |-> fresh]
               q1 == [NoReq EXCEPT !.op = op]
               q2 == [q1 EXCEPT !.fh = fh]
               q3 == [q2 EXCEPT !.offset = offset]
               q4 == [q3 EXCEPT !.page = page]
               q5 == [q4 EXCEPT !.gen = gen]
    <2> HIDE DEF fresh
    <2>2. Sent(op, fh, offset, page, gen) = [q5 EXCEPT !.state = "sent"]
      BY DEF Sent
    <2>3. q1 = R(op, 0, 0, 0, "unsent", 0)
      BY <2>1
    <2> HIDE DEF q1
    <2>4. q2 = R(op, fh, 0, 0, "unsent", 0)
      BY <2>3
    <2> HIDE DEF q2
    <2>5. q3 = R(op, fh, offset, 0, "unsent", 0)
      BY <2>4
    <2> HIDE DEF q3
    <2>6. q4 = R(op, fh, offset, page, "unsent", 0)
      BY <2>5
    <2> HIDE DEF q4
    <2>7. q5 = R(op, fh, offset, page, "unsent", gen)
      BY <2>6
    <2> HIDE DEF q5
    <2> QED
      BY <2>2, <2>7
  <1>2. q \in ReqStates
    BY DEF ReqStates, Fates
  <1>3. /\ q.op = op /\ q.fh = fh /\ q.offset = offset /\ q.page = page /\ q.gen = gen
        /\ q.state = "sent" /\ q.replies = 0 /\ q.listing = None /\ q.entries = <<>>
        /\ \A i \in 1..Len(Entries) : q.fate[i] = "none"
    OBVIOUS
  <1> HIDE DEF q
  <1>4. [q EXCEPT !.state = "failed", !.replies = 1] \in ReqStates
    BY <1>2 DEF ReqStates
  <1>5. ASSUME NEW l \in Listings
        PROVE  [q EXCEPT !.state = "answered", !.replies = 1, !.listing = l] \in ReqStates
    BY <1>2 DEF ReqStates
  <1> QED
    BY <1>1, <1>2, <1>3, <1>4, <1>5

\* A directory handle the kernel reads from is a request's, or stateless.
LEMMA DirHandleTypes ==
  ASSUME ShapeOK, NEW f \in DirHandles
  PROVE  /\ f \in Nat
         /\ Held(f) => /\ f \in Requests /\ open[f] # None /\ req[f].state = "answered"
                       /\ open[f] \in OpenDirs /\ open[f].listing \in Listings
  <1>1. Requests \subseteq Nat /\ 0 \notin Requests
    BY Bounds DEF Requests
  <1> QED
    BY <1>1 DEF DirHandles, DIR_FH_STATELESS, Held, ShapeOK, OpenDirs

\* What the kernel's requests change keeps its type.
LEMMA KernelTypes == ShapeOK /\ SharedListingsAreExact /\ KernelStep => ShapeOK'
  <1> SUFFICES ASSUME ShapeOK, SharedListingsAreExact, KernelStep PROVE ShapeOK'
    OBVIOUS
  <1> USE DEF Ops
  <1>1. CASE Getattr
    <2>1. Job("getattr", next, 0) \in Jobs /\ next <= MaxRequests
      BY <1>1, Bounds DEF Getattr, CanSend, Job, Jobs, Solo, ShapeOK, Requests
    <2>2. queue' \in Seq(Jobs) /\ poll_pending' \in BOOLEAN
      <3>1. queue \in Seq(Jobs)
        BY DEF ShapeOK
      <3> QED
        BY <1>1, <2>1, <3>1, FiredQueue DEF Getattr, fire_poll_refresh
    <2>3. Sent("getattr", 0, 0, 0, 0) \in ReqStates
      BY SentTypes
    <2>4. req' \in [Requests -> ReqStates] /\ next' \in 1..(MaxRequests + 1)
      BY <1>1, <2>1, <2>3, RecordTypes DEF Getattr
    <2> QED
      BY <1>1, <2>2, <2>4 DEF Getattr, ShapeOK
  <1>2. CASE Opendir
    <2>1. Job("opendir", next, 0) \in Jobs /\ next <= MaxRequests
      BY <1>2, Bounds DEF Opendir, CanSend, Job, Jobs, Solo, ShapeOK, Requests
    <2>2. queue' \in Seq(Jobs) /\ poll_pending' \in BOOLEAN
      <3>1. queue \in Seq(Jobs)
        BY DEF ShapeOK
      <3> QED
        BY <1>2, <2>1, <3>1, FiredQueue DEF Opendir, fire_poll_refresh
    <2>3. Sent("opendir", 0, 0, 0, 0) \in ReqStates
      BY SentTypes
    <2>4. req' \in [Requests -> ReqStates] /\ next' \in 1..(MaxRequests + 1)
      BY <1>2, <2>1, <2>3, RecordTypes DEF Opendir
    <2> QED
      BY <1>2, <2>2, <2>4 DEF Opendir, ShapeOK
  <1>3. CASE Read
    <2>1. Job("read", next, 0) \in Jobs /\ next <= MaxRequests
      BY <1>3, Bounds DEF Read, CanSend, Job, Jobs, Solo, ShapeOK, Requests
    <2>2. queue' \in Seq(Jobs) /\ inflight' \in Int
      <3>1. CASE SlotsFull
        BY <1>3, <3>1 DEF Read, ShapeOK
      <3>2. CASE ~SlotsFull
        <4>1. queue' = Append(queue, Job("read", next, 0)) /\ inflight' = inflight + 1
          BY <1>3, <3>2 DEF Read
        <4> QED
          BY <2>1, <4>1 DEF ShapeOK
      <3> QED
        BY <3>1, <3>2
    <2>3. /\ Sent("read", 0, 0, 0, 0) \in ReqStates
          /\ [Sent("read", 0, 0, 0, 0) EXCEPT !.state = "failed", !.replies = 1] \in ReqStates
      BY ZenonT(30), SentTypes
    <2>4. req' \in [Requests -> ReqStates] /\ next' \in 1..(MaxRequests + 1)
      BY <1>3, <2>1, <2>3, RecordTypes DEF Read
    <2> QED
      BY <1>3, <2>2, <2>4 DEF Read, ShapeOK
  <1>4. CASE Open
    <2>1. Job("open", next, 0) \in Jobs /\ next <= MaxRequests
      BY <1>4, Bounds DEF Open, CanSend, Job, Jobs, Solo, ShapeOK, Requests
    <2>2. queue' \in Seq(Jobs)
      BY <1>4, <2>1 DEF Open, ShapeOK
    <2>3. Sent("open", 0, 0, 0, 0) \in ReqStates
      BY SentTypes
    <2>4. req' \in [Requests -> ReqStates] /\ next' \in 1..(MaxRequests + 1)
      BY <1>4, <2>1, <2>3, RecordTypes DEF Open
    <2> QED
      BY <1>4, <2>2, <2>4 DEF Open, ShapeOK
  <1>5. ASSUME NEW f \in DirHandles, Readdir(f) PROVE ShapeOK'
    <2> DEFINE gen == IF Held(f) THEN req[f].gen ELSE 0
               q == Sent("readdir", f, 0, 0, gen)
               jobs == IF Held(f) THEN <<>> ELSE <<Job("readdir", next, 0)>>
    <2>1. Job("readdir", next, 0) \in Jobs /\ next <= MaxRequests
      BY <1>5, Bounds DEF Readdir, CanSend, Job, Jobs, Solo, ShapeOK, Requests
    <2>2. f \in Nat /\ gen \in Nat
      BY DirHandleTypes DEF ShapeOK, ReqStates
    <2>3. queue' \in Seq(Jobs) /\ poll_pending' \in BOOLEAN
      <3>1. queue \in Seq(Jobs) /\ fire_poll_refresh(jobs)
        BY <1>5 DEF ShapeOK, Readdir
      <3>2. jobs = <<>> \/ \E j \in Jobs : jobs = <<j>>
        BY <2>1
      <3> HIDE DEF jobs
      <3> QED
        BY <3>1, <3>2, FiredQueue DEF fire_poll_refresh
    <2> HIDE DEF gen
    <2>4. /\ q \in ReqStates
          /\ Held(f) => [q EXCEPT !.state = "answered", !.replies = 1,
                                  !.listing = open[f].listing] \in ReqStates
      <3>1. q \in ReqStates /\ \A l \in Listings :
               [q EXCEPT !.state = "answered", !.replies = 1, !.listing = l] \in ReqStates
        BY ZenonT(30), <2>2, SentTypes
      <3> HIDE DEF q
      <3> QED
        BY <3>1, DirHandleTypes
    <2>5. req' \in [Requests -> ReqStates] /\ next' \in 1..(MaxRequests + 1)
      BY <1>5, <2>1, <2>4, RecordTypes DEF Readdir, gen
    <2> QED
      BY <1>5, <2>3, <2>5 DEF Readdir, ShapeOK
  <1>6. ASSUME NEW f \in DirHandles, NEW p \in Pages, Readdirplus(f, p[1], p[2]) PROVE ShapeOK'
    <2> DEFINE gen == IF Held(f) THEN req[f].gen ELSE 0
               q == Sent("readdirplus", f, p[1], p[2], gen)
               jobs == IF Held(f) THEN <<>> ELSE <<Job("plushead", next, 0)>>
    <2>1. Job("plushead", next, 0) \in Jobs /\ next <= MaxRequests /\ p[1] \in Nat /\ p[2] \in Nat
      BY <1>6, Bounds, FuseAssumption DEF Readdirplus, CanSend, Job, Jobs, Solo, ShapeOK, Requests
    <2>2. f \in Nat /\ gen \in Nat
      BY DirHandleTypes DEF ShapeOK, ReqStates
    <2>3. queue' \in Seq(Jobs) /\ poll_pending' \in BOOLEAN
      <3>1. queue \in Seq(Jobs) /\ fire_poll_refresh(jobs)
        BY <1>6 DEF ShapeOK, Readdirplus
      <3>2. jobs = <<>> \/ \E j \in Jobs : jobs = <<j>>
        BY <2>1
      <3> HIDE DEF jobs
      <3> QED
        BY <3>1, <3>2, FiredQueue DEF fire_poll_refresh
    <2>4. q \in ReqStates
      <3> HIDE DEF gen
      <3> QED
        BY ZenonT(30), <2>1, <2>2, SentTypes
    <2>5. req' \in [Requests -> ReqStates] /\ next' \in 1..(MaxRequests + 1) /\ next \in Requests
      BY <1>6, <2>1, <2>4, RecordTypes DEF Readdirplus
    <2>6. /\ fill' \in [Requests -> Fills] /\ at' \in [Threads -> Tasks \cup {None}]
          /\ \A t \in Threads : at'[t] # None /\ at'[t].kind # "poll" => at'[t].r \in Requests
      <3>1. CASE Held(f)
        <4>1. spawn_plus_round(open[f].listing, p[1]) \in Fills /\ RoundOf(next, p[1]) \in Tasks
          BY <2>1, <2>5, <3>1, FreshTypes, DirHandleTypes
        <4>2. RoundOf(next, p[1]).r = next
          BY DEF RoundOf, Doing, Job
        <4>3. /\ fill' = [fill EXCEPT ![next] = spawn_plus_round(open[f].listing, p[1])]
              /\ at' = [at EXCEPT ![Dispatch] = RoundOf(next, p[1])]
          BY <1>6, <3>1 DEF Readdirplus
        <4> QED
          BY <2>5, <4>1, <4>2, <4>3 DEF ShapeOK
      <3>2. CASE ~Held(f)
        BY <1>6, <3>2 DEF Readdirplus, ShapeOK
      <3> QED
        BY <3>1, <3>2
    <2> QED
      BY <1>6, <2>3, <2>5, <2>6 DEF Readdirplus, ShapeOK
  <1>7. ASSUME NEW f \in DirHandles, Releasedir(f) PROVE ShapeOK'
    <2>1. f \in Requests /\ open[f] \in OpenDirs
      BY <1>7, DirHandleTypes DEF Releasedir
    <2>2. open' \in [Requests -> OpenDirs \cup {None}]
      BY <1>7 DEF Releasedir, release_dir_handle, ShapeOK
    <2>3. shared' \in [Addrs -> SharedDirs \cup {None}]
      <3> DEFINE a == open[f].key
      <3>1. a \in Addrs /\ open[f] # None
        BY <1>7, <2>1, FuseAssumption DEF OpenDirs, Releasedir
      <3>2. f \in HandlesOn(a)
        BY <2>1, <3>1 DEF HandlesOn
      <3>3. PICK d \in SharedDirs : d = shared[a]
        BY <3>1, <3>2 DEF SharedListingsAreExact, ShapeOK
      <3>4. d.handles # 1 => [listing |-> d.listing, handles |-> d.handles - 1] \in SharedDirs
        BY DEF SharedDirs
      <3> DEFINE v == IF d.handles = 1 THEN None
                      ELSE [listing |-> d.listing, handles |-> d.handles - 1]
      <3>5. v \in SharedDirs \cup {None}
        BY <3>4
      <3>6. shared' = [shared EXCEPT ![a] = v]
        BY <1>7, <3>3 DEF Releasedir, release_dir_handle
      <3> HIDE DEF v
      <3> QED
        BY <3>1, <3>5, <3>6 DEF ShapeOK
    <2> QED
      BY <1>7, <2>2, <2>3 DEF Releasedir, ShapeOK
  <1>8. ASSUME NEW f \in Requests, Release(f) PROVE ShapeOK'
    BY <1>8 DEF Release, ShapeOK
  <1> QED
    BY <1>1, <1>2, <1>3, <1>4, <1>5, <1>6, <1>7, <1>8 DEF KernelStep

\* A thread moves on within its task, or ends it.
LEMMA GotoEffect ==
  ASSUME ShapeOK, NEW t \in Threads, at[t] # None, NEW pc \in Pcs, Goto(t, pc)
  PROVE  LET x == [at[t] EXCEPT !.pc = pc] IN
         /\ at' = [at EXCEPT ![t] = x] /\ at' \in [Threads -> Tasks \cup {None}]
         /\ at'[t] = x /\ x \in Tasks /\ x # None
         /\ x.kind = at[t].kind /\ x.r = at[t].r /\ x.i = at[t].i /\ x.pc = pc
         /\ x.snap = at[t].snap /\ x.listing = at[t].listing
         /\ \A u \in Threads : u # t => at'[u] = at[u]
         /\ \A u \in Threads : at'[u] # None /\ at'[u].kind # "poll" => at'[u].r \in Requests
  <1> DEFINE x == [at[t] EXCEPT !.pc = pc]
  <1>1. PICK y \in Tasks : y = at[t]
    BY DEF ShapeOK
  <1>2. at' = [at EXCEPT ![t] = x]
    BY DEF Goto, ShapeOK
  <1>3. x \in Tasks
    BY <1>1 DEF Tasks
  <1>4. /\ x.kind = at[t].kind /\ x.r = at[t].r /\ x.i = at[t].i /\ x.pc = pc
        /\ x.snap = at[t].snap /\ x.listing = at[t].listing
    BY <1>1 DEF Tasks
  <1> HIDE DEF x
  <1>5. x # None
    BY <1>3, FuseAssumption
  <1>6. /\ at' \in [Threads -> Tasks \cup {None}] /\ at'[t] = x
        /\ \A u \in Threads : u # t => at'[u] = at[u]
    BY <1>2, <1>3 DEF ShapeOK
  <1>7. \A u \in Threads : at'[u] # None /\ at'[u].kind # "poll" => at'[u].r \in Requests
    BY <1>4, <1>6 DEF ShapeOK
  <1> QED
    BY <1>2, <1>3, <1>4, <1>5, <1>6, <1>7 DEF x

\* A task that goes on to another stage stays the task it is.
LEMMA GotoTask ==
  ASSUME ShapeOK, NEW t \in Threads, NEW x \in Tasks, x = at[t], NEW pc \in Pcs, Goto(t, pc)
  PROVE  \E y \in Tasks : /\ at' = [at EXCEPT ![t] = y] /\ y # None /\ y.kind = x.kind /\ y.r = x.r
                         /\ y.i = x.i /\ y.pc = pc /\ y.snap = x.snap /\ y.listing = x.listing
  <1> DEFINE y == [x EXCEPT !.pc = pc]
  <1>1. at' = [at EXCEPT ![t] = y]
    BY DEF Goto, ShapeOK
  <1>2. /\ y \in Tasks /\ y.kind = x.kind /\ y.r = x.r /\ y.i = x.i /\ y.pc = pc
        /\ y.snap = x.snap /\ y.listing = x.listing
    BY DEF Tasks
  <1> HIDE DEF y
  <1>3. y # None
    BY <1>2, FuseAssumption
  <1> QED
    BY <1>1, <1>2, <1>3

\* A thread that ends its task has none.
LEMMA LeaveEffect ==
  ASSUME ShapeOK, NEW t \in Threads, Leave(t)
  PROVE  /\ at' = [at EXCEPT ![t] = None] /\ at' \in [Threads -> Tasks \cup {None}]
         /\ at'[t] = None /\ \A u \in Threads : u # t => at'[u] = at[u]
         /\ \A u \in Threads : at'[u] # None /\ at'[u].kind # "poll" => at'[u].r \in Requests
  BY DEF Leave, ShapeOK

\* A thread begins a task.
LEMMA BeginEffect ==
  ASSUME ShapeOK, NEW t \in Threads, NEW x \in Tasks, at' = [at EXCEPT ![t] = x],
         x.kind # "poll" => x.r \in Requests
  PROVE  /\ at' \in [Threads -> Tasks \cup {None}] /\ at'[t] = x /\ x # None
         /\ \A u \in Threads : u # t => at'[u] = at[u]
         /\ \A u \in Threads : at'[u] # None /\ at'[u].kind # "poll" => at'[u].r \in Requests
  BY FuseAssumption DEF ShapeOK

\* A task that is not a poll has a request.
LEMMA TaskTypes ==
  ASSUME ShapeOK, NEW t \in Threads, at[t] # None
  PROVE  /\ at[t] \in Tasks /\ at[t].kind \in Kinds /\ at[t].pc \in Pcs /\ at[t].i \in Nat
         /\ at[t].snap \in Trees \cup {None} /\ at[t].listing \in Listings \cup {None}
         /\ at[t].kind # "poll" => /\ at[t].r \in Requests /\ req[at[t].r] \in ReqStates
                                   /\ fill[at[t].r] \in Fills
  <1>1. at[t] \in Tasks
    BY DEF ShapeOK
  <1>2. at[t].kind # "poll" => /\ at[t].r \in Requests /\ req[at[t].r] \in ReqStates
                               /\ fill[at[t].r] \in Fills
    BY DEF ShapeOK
  <1> QED
    BY <1>1, <1>2 DEF Tasks

\* The listing that is found in the index or built has its type.
LEMMA SharedTypes ==
  ASSUME ShapeOK, NEW a \in Addrs, NEW l \in Listings
  PROVE  shared_listing(a) \in Listings \cup {None} /\ Indexed(a, l) \in Listings
  BY FuseAssumption DEF shared_listing, Indexed, ShapeOK, SharedDirs

\* An operation's answer from a listing.
LEMMA WithListingTypes ==
  ASSUME ShapeOK, TaskInv, NEW w \in Threads, at[w] # None, at[w].pc \in {"probe", "build"},
         NEW l \in Listings, WithListing(w, l)
  PROVE  /\ req' \in [Requests -> ReqStates] /\ fill' \in [Requests -> Fills]
         /\ at' \in [Threads -> Tasks \cup {None}]
         /\ \A u \in Threads : at'[u] # None /\ at'[u].kind # "poll" => at'[u].r \in Requests
  <1>1. at[w].kind \in Listers
    BY DEF TaskInv, TaskOK, StageOK, Listers, ShapeOK, Tasks, Kinds
  <1>2. at[w].r \in Requests /\ at[w].r = at[w].r
    BY <1>1, TaskTypes DEF Listers
  <1>3. CASE at[w].kind = "opendir"
    <2> DEFINE x == [at[w] EXCEPT !.pc = "admit", !.listing = l]
    <2>1. at' = [at EXCEPT ![w] = x] /\ UNCHANGED <<req, fill>>
      BY <1>3 DEF WithListing, ShapeOK
    <2>2. x \in Tasks /\ x.r = at[w].r
      <3>1. PICK y \in Tasks : y = at[w]
        BY DEF ShapeOK
      <3> QED
        BY <3>1 DEF Tasks, Pcs
    <2> HIDE DEF x
    <2>3. /\ at' \in [Threads -> Tasks \cup {None}]
          /\ \A u \in Threads : at'[u] # None /\ at'[u].kind # "poll" => at'[u].r \in Requests
      BY <1>2, <2>1, <2>2, BeginEffect
    <2> QED
      BY <2>1, <2>3 DEF ShapeOK
  <1>4. CASE at[w].kind = "readdir"
    <2>1. req' = ReplyListing(at[w].r, l) /\ Leave(w) /\ UNCHANGED fill
      BY <1>4 DEF WithListing
    <2> QED
      BY <1>2, <2>1, LeaveEffect, ReplyTypes DEF ShapeOK
  <1>5. CASE at[w].kind = "plushead"
    <2> DEFINE r == at[w].r
               x == RoundOf(r, req[r].offset)
    <2>1. /\ fill' = [fill EXCEPT ![r] = spawn_plus_round(l, req[r].offset)]
          /\ at' = [at EXCEPT ![w] = x] /\ UNCHANGED req
      BY <1>5 DEF WithListing
    <2>2. req[r].offset \in Nat
      BY <1>2 DEF ShapeOK, ReqStates
    <2>3. x \in Tasks /\ x.r = r /\ spawn_plus_round(l, req[r].offset) \in Fills
      BY <1>2, <2>2, FreshTypes DEF RoundOf, Doing, Job
    <2> HIDE DEF x
    <2>4. /\ at' \in [Threads -> Tasks \cup {None}]
          /\ \A u \in Threads : at'[u] # None /\ at'[u].kind # "poll" => at'[u].r \in Requests
      BY <1>2, <2>1, <2>3, BeginEffect
    <2> QED
      BY <2>1, <2>3, <2>4 DEF ShapeOK
  <1> QED
    BY <1>1, <1>3, <1>4, <1>5 DEF Listers

\* The head of the queue is a job, its tail a queue.
LEMMA QueueTypes ==
  ASSUME ShapeOK, queue # <<>>
  PROVE  Head(queue) \in Jobs /\ Tail(queue) \in Seq(Jobs) /\ queue[1] = Head(queue)
         /\ Len(queue) \in Nat \ {0} /\ Len(Tail(queue)) = Len(queue) - 1
         /\ \A k \in 1..Len(Tail(queue)) : Tail(queue)[k] = queue[k + 1] /\ k + 1 \in 1..Len(queue)
  BY DEF ShapeOK

\* One field of one request changes.
LEMMA GenTypes ==
  ASSUME ShapeOK, NEW r, NEW gen \in Nat
  PROVE  [req EXCEPT ![r].gen = gen] \in [Requests -> ReqStates]
  <1>1. CASE r \in Requests
    <2>1. [req[r] EXCEPT !.gen = gen] \in ReqStates
      <3>1. PICK q \in ReqStates : q = req[r]
        BY <1>1 DEF ShapeOK
      <3> QED
        BY <3>1 DEF ReqStates
    <2> QED
      BY <2>1 DEF ShapeOK
  <1>2. CASE r \notin Requests
    BY <1>2 DEF ShapeOK
  <1> QED
    BY <1>1, <1>2

\* A fate of an entry keeps the type of its request.
LEMMA FateTypes ==
  ASSUME ShapeOK, NEW r \in Requests, NEW i, NEW f \in Fates
  PROVE  /\ [req EXCEPT ![r].fate[i] = f] \in [Requests -> ReqStates]
         /\ [req EXCEPT ![r].fate[i] = f] =
               [req EXCEPT ![r] = [req[r] EXCEPT !.fate = [req[r].fate EXCEPT ![i] = f]]]
  <1>1. PICK q \in ReqStates : q = req[r]
    BY DEF ShapeOK
  <1>2. [q.fate EXCEPT ![i] = f] \in [1..Len(Entries) -> Fates]
    BY DEF ReqStates
  <1>3. [q EXCEPT !.fate = [q.fate EXCEPT ![i] = f]] \in ReqStates
    BY <1>2 DEF ReqStates
  <1>4. [req EXCEPT ![r].fate[i] = f] =
           [req EXCEPT ![r] = [req[r] EXCEPT !.fate = [req[r].fate EXCEPT ![i] = f]]]
    BY DEF ShapeOK
  <1> QED
    BY <1>1, <1>3, <1>4 DEF ShapeOK

\* Slots and counts keep the type of a round.
LEMMA FillTypes ==
  ASSUME ShapeOK, NEW r \in Requests
  PROVE  /\ \A d \in {1, -1} : \A n \in Int : n = fill[r].outstanding + d =>
                [fill EXCEPT ![r].outstanding = n] \in [Requests -> Fills]
         /\ \A i \in Nat : [fill EXCEPT ![r].slots = @ \cup {i}] \in [Requests -> Fills]
  <1>1. fill[r] \in Fills
    BY DEF ShapeOK
  <1>2. \A n \in Int : [fill[r] EXCEPT !.outstanding = n] \in Fills
    BY <1>1 DEF Fills
  <1>3. \A i \in Nat : [fill[r] EXCEPT !.slots = @ \cup {i}] \in Fills
    BY <1>1 DEF Fills
  <1> QED
    BY <1>2, <1>3 DEF ShapeOK

\* What a worker takes from the queue keeps types.
LEMMA TakeTypes ==
  ASSUME ShapeOK, NEW w \in Workers, TakeJob(w) \/ LoseJob(w)
  PROVE  ShapeOK'
  <1> DEFINE j == Head(queue)
  <1>1. j \in Jobs /\ Tail(queue) \in Seq(Jobs) /\ w \in Threads
    BY QueueTypes, Bounds DEF TakeJob, LoseJob
  <1>2. j.kind # "poll" => j.r \in Requests
    BY <1>1 DEF Jobs, Job
  <1>3. CASE TakeJob(w)
    <2> DEFINE lists == j.kind \in Listers
               x == Doing(j, IF lists THEN "probe" ELSE "run", IF lists THEN tree ELSE None)
    <2>1. x \in Tasks /\ x.r = j.r /\ x.kind = j.kind
      <3>1. tree \in Trees
        BY DEF ShapeOK
      <3>2. (IF lists THEN "probe" ELSE "run") \in Pcs /\ (IF lists THEN tree ELSE None) \in Trees \cup {None}
        BY <3>1 DEF Pcs
      <3>3. x.r = j.r /\ x.kind = j.kind
        BY DEF Doing
      <3> HIDE DEF lists
      <3> QED
        BY <1>1, <3>2, <3>3, FreshTypes
    <2>2. at' = [at EXCEPT ![w] = x]
      BY <1>3 DEF TakeJob
    <2> HIDE DEF x
    <2>3. /\ at' \in [Threads -> Tasks \cup {None}]
          /\ \A u \in Threads : at'[u] # None /\ at'[u].kind # "poll" => at'[u].r \in Requests
      BY <1>1, <1>2, <2>1, <2>2, BeginEffect
    <2>4. req' \in [Requests -> ReqStates]
      <3>1. tree.gen \in Nat
        BY DEF ShapeOK, Trees
      <3>2. req' = IF lists THEN [req EXCEPT ![j.r].gen = tree.gen] ELSE req
        BY <1>3 DEF TakeJob
      <3> QED
        BY <3>1, <3>2, GenTypes DEF ShapeOK
    <2> QED
      BY <1>1, <1>3, <2>3, <2>4 DEF TakeJob, ShapeOK
  <1>4. CASE LoseJob(w)
    <2> DEFINE x == Doing(j, "guard", None)
    <2>1. x \in Tasks /\ x.r = j.r /\ x.kind = j.kind
      BY <1>1, FreshTypes DEF Doing, Pcs
    <2>2. at' = [at EXCEPT ![w] = x]
      BY <1>4 DEF LoseJob
    <2> HIDE DEF x
    <2>3. /\ at' \in [Threads -> Tasks \cup {None}]
          /\ \A u \in Threads : at'[u] # None /\ at'[u].kind # "poll" => at'[u].r \in Requests
      BY <1>1, <1>2, <2>1, <2>2, BeginEffect
    <2>4. req' \in [Requests -> ReqStates]
      <3>1. req' = IF j.kind = "plus" THEN [req EXCEPT ![j.r].fate[j.i] = "lost"] ELSE req
        BY <1>4 DEF LoseJob
      <3>2. "lost" \in Fates
        BY DEF Fates
      <3>3. j.kind = "plus" => [req EXCEPT ![j.r].fate[j.i] = "lost"] \in [Requests -> ReqStates]
        BY <1>2, <3>2, FateTypes
      <3> QED
        BY <3>1, <3>3 DEF ShapeOK
    <2> QED
      BY <1>1, <1>4, <2>3, <2>4 DEF LoseJob, ShapeOK
  <1> QED
    BY <1>3, <1>4

\* The steps of a task that answers its request.
LEMMA SoloTypes ==
  ASSUME ShapeOK, TaskInv, NEW t \in Threads,
         \/ RunGetattr(t) \/ RunRead(t) \/ DropSlot(t) \/ OpenHandle(t) \/ reply_open(t)
         \/ PollRefresh(t) \/ DropGate(t)
  PROVE  ShapeOK'
  <1> USE DEF Pcs
  <1>1. CASE RunGetattr(t)
    <2>1. at[t].r \in Requests
      BY <1>1, TaskTypes DEF RunGetattr, At
    <2>2. req' \in [Requests -> ReqStates]
      BY <1>1, <2>1, ReplyTypes DEF RunGetattr
    <2> QED
      BY <1>1, <2>2, LeaveEffect DEF RunGetattr, ShapeOK
  <1>2. CASE RunRead(t)
    <2>1. at[t].r \in Requests /\ at[t] # None
      BY <1>2, TaskTypes DEF RunRead, At
    <2>2. req' \in [Requests -> ReqStates]
      BY <1>2, <2>1, ReplyTypes DEF RunRead
    <2>3. at' \in [Threads -> Tasks \cup {None}] /\
          \A u \in Threads : at'[u] # None /\ at'[u].kind # "poll" => at'[u].r \in Requests
      BY <1>2, <2>1, GotoEffect DEF RunRead
    <2> QED
      BY <1>2, <2>2, <2>3 DEF RunRead, ShapeOK
  <1>3. CASE DropSlot(t)
    BY <1>3, LeaveEffect DEF DropSlot, ShapeOK
  <1>4. CASE OpenHandle(t)
    <2>1. at[t].r \in Requests /\ at[t] # None
      BY <1>4, TaskTypes DEF OpenHandle, At
    <2>2. req' \in [Requests -> ReqStates] /\ slab' \subseteq Requests
      <3>1. Errno(at[t].r) \in [Requests -> ReqStates]
        BY <2>1, ReplyTypes
      <3> QED
        BY <1>4, <2>1, <3>1 DEF OpenHandle, ShapeOK
    <2>3. at' \in [Threads -> Tasks \cup {None}] /\
          \A u \in Threads : at'[u] # None /\ at'[u].kind # "poll" => at'[u].r \in Requests
      BY <1>4, <2>1, GotoEffect, LeaveEffect DEF OpenHandle
    <2> QED
      BY <1>4, <2>2, <2>3 DEF OpenHandle, ShapeOK
  <1>5. CASE reply_open(t)
    <2>1. at[t].r \in Requests
      BY <1>5, TaskTypes DEF reply_open, At
    <2>2. req' \in [Requests -> ReqStates]
      BY <1>5, <2>1, ReplyTypes DEF reply_open
    <2>3. backing' \subseteq Requests /\ disabled' \in BOOLEAN
      BY <1>5, <2>1 DEF reply_open, ShapeOK
    <2> QED
      BY <1>5, <2>2, <2>3, LeaveEffect DEF reply_open, ShapeOK
  <1>6. CASE PollRefresh(t)
    <2>1. at[t] # None
      BY <1>6 DEF PollRefresh, At
    <2>2. at' \in [Threads -> Tasks \cup {None}] /\
          \A u \in Threads : at'[u] # None /\ at'[u].kind # "poll" => at'[u].r \in Requests
      BY <1>6, <2>1, GotoEffect DEF PollRefresh
    <2>3. tree' \in Trees
      BY <1>6 DEF PollRefresh, ShapeOK, Trees
    <2> QED
      BY <1>6, <2>2, <2>3 DEF PollRefresh, ShapeOK
  <1>7. CASE DropGate(t)
    BY <1>7, LeaveEffect DEF DropGate, GateFreed, ShapeOK
  <1> QED
    BY <1>1, <1>2, <1>3, <1>4, <1>5, <1>6, <1>7

\* The steps of a listing.
LEMMA ListingTypes ==
  ASSUME ShapeOK, TaskInv, SharedListingsAreExact, NEW t \in Threads,
         Probe(t) \/ build_dir_listing(t) \/ Admit(t)
  PROVE  ShapeOK'
  <1>1. at[t] # None /\ at[t].kind \in Listers /\ at[t].snap \in Trees /\ at[t].snap.addr \in Addrs
        /\ at[t].snap.gen \in Nat
    <2>1. at[t] # None
      BY DEF Probe, build_dir_listing, Admit, At
    <2>2. at[t].kind \in Listers
      BY <2>1 DEF Probe, build_dir_listing, Admit, At, TaskInv, TaskOK, StageOK, Listers, ShapeOK,
                  Tasks, Kinds
    <2>3. at[t].snap \in Trees
      BY <2>1, <2>2, TaskTypes DEF TaskInv, TaskOK
    <2> QED
      BY <2>1, <2>2, <2>3 DEF Trees
  <1>2. at[t].r \in Requests
    BY <1>1, TaskTypes DEF Listers
  <1>3. CASE Probe(t)
    <2> DEFINE l == shared_listing(at[t].snap.addr)
    <2>1. CASE l = None
      <3>1. Goto(t, "build") /\ UNCHANGED <<req, fill>>
        BY <1>3, <2>1 DEF Probe
      <3>2. "build" \in Pcs
        BY DEF Pcs
      <3>3. at' \in [Threads -> Tasks \cup {None}] /\
            \A u \in Threads : at'[u] # None /\ at'[u].kind # "poll" => at'[u].r \in Requests
        BY <1>1, <3>1, <3>2, GotoEffect
      <3> QED
        BY <1>3, <3>1, <3>3 DEF Probe, ShapeOK
    <2>2. CASE l # None
      <3>1. l \in Listings
        <4>1. PICK x \in Listings : TRUE
          <5>1. [id |-> 0, gen |-> 0] \in Listings
            BY DEF Listings
          <5> QED
            BY <5>1
        <4> QED
          BY <1>1, <2>2, <4>1, SharedTypes
      <3>2. WithListing(t, l) /\ at[t].pc = "probe"
        BY <1>3, <2>2 DEF Probe
      <3> HIDE DEF l
      <3>3. /\ req' \in [Requests -> ReqStates] /\ fill' \in [Requests -> Fills]
            /\ at' \in [Threads -> Tasks \cup {None}]
            /\ \A u \in Threads : at'[u] # None /\ at'[u].kind # "poll" => at'[u].r \in Requests
        BY <1>1, <3>1, <3>2, WithListingTypes
      <3> QED
        BY <1>3, <3>3 DEF Probe, ShapeOK
    <2> QED
      BY <2>1, <2>2
  <1>4. CASE build_dir_listing(t)
    <2> DEFINE l == [id |-> made + 1, gen |-> at[t].snap.gen]
    <2>1. CASE WithListing(t, l) /\ made' = made + 1
      <3>1. l \in Listings /\ made' \in Nat
        BY <1>1, <2>1 DEF Listings, ShapeOK
      <3>2. at[t].pc = "build"
        BY <1>4 DEF build_dir_listing
      <3> HIDE DEF l
      <3>3. /\ req' \in [Requests -> ReqStates] /\ fill' \in [Requests -> Fills]
            /\ at' \in [Threads -> Tasks \cup {None}]
            /\ \A u \in Threads : at'[u] # None /\ at'[u].kind # "poll" => at'[u].r \in Requests
        BY <1>1, <2>1, <3>1, <3>2, WithListingTypes
      <3> QED
        BY <1>4, <3>1, <3>3 DEF build_dir_listing, ShapeOK
    <2>2. CASE req' = Errno(at[t].r) /\ Leave(t) /\ UNCHANGED <<fill, made>>
      <3>1. req' \in [Requests -> ReqStates]
        BY <1>2, <2>2, ReplyTypes
      <3> QED
        BY <1>4, <2>2, <3>1, LeaveEffect DEF build_dir_listing, ShapeOK
    <2> QED
      BY <1>4, <2>1, <2>2 DEF build_dir_listing
  <1>5. CASE Admit(t)
    <2> DEFINE r == at[t].r
               a == at[t].snap.addr
               l == at[t].listing
    <2>1. l \in Listings
      BY <1>1, <1>5, TaskTypes DEF Admit, At, TaskInv, TaskOK
    <2>2. Indexed(a, l) \in Listings
      BY <1>1, <2>1, SharedTypes
    <2>3. try_admit_dir_handle(r, a, l)
      BY <1>5 DEF Admit
    <2>4. open' \in [Requests -> OpenDirs \cup {None}] /\ shared' \in [Addrs -> SharedDirs \cup {None}]
      <3>1. CASE UNCHANGED <<open, shared>>
        BY <3>1 DEF ShapeOK
      <3>2. CASE /\ open' = [open EXCEPT ![r] = [key |-> a, listing |-> Indexed(a, l)]]
                 /\ shared' = [shared EXCEPT ![a] =
                       IF @ = None THEN [listing |-> l, handles |-> 1]
                       ELSE [listing |-> @.listing, handles |-> @.handles + 1]]
        <4>1. [key |-> a, listing |-> Indexed(a, l)] \in OpenDirs
          BY <1>1, <2>2 DEF OpenDirs
        <4>2. [listing |-> l, handles |-> 1] \in SharedDirs
          BY <2>1 DEF SharedDirs
        <4>3. \A d \in SharedDirs : [listing |-> d.listing, handles |-> d.handles + 1] \in SharedDirs
          BY DEF SharedDirs
        <4> HIDE DEF r, a, l
        <4>4. open' \in [Requests -> OpenDirs \cup {None}]
          BY <3>2, <4>1 DEF ShapeOK
        <4>5. shared' \in [Addrs -> SharedDirs \cup {None}]
          BY <3>2, <4>2, <4>3 DEF ShapeOK
        <4> QED
          BY <4>4, <4>5
      <3> QED
        BY <2>3, <3>1, <3>2 DEF try_admit_dir_handle
    <2>5. req' \in [Requests -> ReqStates]
      <3> DEFINE p == Reply(r, "answered")
                 m == IF open'[r] = None THEN l ELSE open'[r].listing
                 q == [p[r] EXCEPT !.fh = dir_open_fh(r), !.listing = m]
      <3>1. p \in [Requests -> ReqStates]
        BY <1>2, ReplyTypes
      <3>2. m \in Listings
        BY <1>2, <2>1, <2>4 DEF OpenDirs
      <3>3. dir_open_fh(r) \in Nat
        BY <1>2, Bounds DEF dir_open_fh, Requests, DIR_FH_STATELESS
      <3>4. req' = [p EXCEPT ![r].fh = dir_open_fh(r), ![r].listing = m]
        BY <1>5 DEF Admit
      <3> HIDE DEF p, m, r
      <3>5. r \in Requests
        BY <1>2 DEF r
      <3>6. PICK y \in ReqStates : y = p[r]
        BY <3>1, <3>5
      <3>7. q \in ReqStates
        BY <3>2, <3>3, <3>6 DEF ReqStates
      <3>8. req' = [p EXCEPT ![r] = q]
        BY <3>1, <3>4
      <3> HIDE DEF q
      <3> QED
        BY <3>1, <3>7, <3>8
    <2> QED
      BY <1>5, <2>4, <2>5, LeaveEffect DEF Admit, ShapeOK
  <1> QED
    BY <1>3, <1>4, <1>5

\* What the last one out of a round adds to the page.
Fit(r) == Min({req[r].page - Len(req[r].entries), fill[r].upto - fill[r].start})

Emitted(r) == [k \in 1..Fit(r) |-> Attr(r, fill[r].start + k)]

\* A round emits entries of the reply's type.
LEMMA EmittedTypes ==
  ASSUME ShapeOK, NEW r \in Requests
  PROVE  /\ Fit(r) \in Int /\ Emitted(r) \in Seq([i : Nat, attr : {"attrs", "stand-in"}])
         /\ Len(Emitted(r)) = (IF Fit(r) < 0 THEN 0 ELSE Fit(r))
         /\ \A k \in 1..Len(Emitted(r)) : Emitted(r)[k] = Attr(r, fill[r].start + k)
         /\ req[r].entries \o Emitted(r) \in Seq([i : Nat, attr : {"attrs", "stand-in"}])
  <1> DEFINE E == [i : Nat, attr : {"attrs", "stand-in"}]
             n == IF Fit(r) < 0 THEN 0 ELSE Fit(r)
  <1>1. /\ req[r] \in ReqStates /\ fill[r] \in Fills
        /\ req[r].page \in Nat /\ req[r].entries \in Seq(E) /\ fill[r].upto \in Nat
        /\ fill[r].start \in Nat
    BY DEF ShapeOK, ReqStates, Fills
  <1>2. Fit(r) \in Int /\ n \in Nat
    <2> DEFINE a == req[r].page - Len(req[r].entries)
               b == fill[r].upto - fill[r].start
    <2>1. a \in Int /\ b \in Int
      BY <1>1
    <2>2. Fit(r) = Min({a, b})
      BY DEF Fit
    <2> HIDE DEF a, b
    <2> QED
      BY <2>1, <2>2, MinOfTwo
  <1>3. 1..Fit(r) = 1..n
    BY <1>2
  <1>4. \A k \in 1..n : Attr(r, fill[r].start + k) \in E
    BY <1>1 DEF Attr
  <1>5. Emitted(r) = [k \in 1..n |-> Attr(r, fill[r].start + k)]
    BY <1>3 DEF Emitted
  <1> HIDE DEF E, n
  <1>6. Emitted(r) \in Seq(E) /\ Len(Emitted(r)) = n
    <2>1. Emitted(r) \in [1..n -> E]
      BY <1>4, <1>5
    <2>2. Emitted(r) \in Seq(E)
      BY <1>2, <2>1
    <2> QED
      BY <1>2, <1>5, <2>2, LenProperties
  <1>7. req[r].entries \o Emitted(r) \in Seq(E)
    BY <1>1, <1>6, ConcatProperties
  <1> QED
    BY <1>2, <1>5, <1>6, <1>7 DEF E, n

\* What the tasks of a round change keeps its type.
LEMMA RoundTypes ==
  ASSUME ShapeOK, TaskInv, RequestInv, NEW t \in Threads,
         DispatchEntry(t) \/ ResolveEntry(t) \/ PlusSlot(t) \/ finish_plus_round(t)
  PROVE  ShapeOK'
  <1> USE DEF Pcs
  <1> DEFINE r == at[t].r
  <1>1. /\ at[t] # None /\ at[t].kind # "poll" /\ r \in Requests /\ at[t].i \in Nat
        /\ fill[r] \in Fills /\ req[r] \in ReqStates
    <2>1. at[t] # None
      BY DEF DispatchEntry, ResolveEntry, PlusSlot, finish_plus_round, At
    <2>2. at[t].kind # "poll"
      BY <2>1 DEF DispatchEntry, ResolveEntry, PlusSlot, finish_plus_round, At, TaskInv, TaskOK,
                  StageOK
    <2> QED
      BY <2>1, <2>2, TaskTypes
  <1>2. CASE DispatchEntry(t)
    <2> DEFINE i == at[t].i
    <2>1. CASE i > fill[r].upto
      <3>1. Goto(t, "guard") /\ UNCHANGED <<queue, fill, req>>
        BY <1>2, <2>1 DEF DispatchEntry
      <3>2. at' \in [Threads -> Tasks \cup {None}] /\
            \A u \in Threads : at'[u] # None /\ at'[u].kind # "poll" => at'[u].r \in Requests
        BY <1>1, <3>1, GotoEffect
      <3> QED
        BY <1>2, <3>1, <3>2 DEF DispatchEntry, ShapeOK
    <2>2. CASE ~(i > fill[r].upto)
      <3> DEFINE x == [at[t] EXCEPT !.i = i + 1]
      <3>1. at' = [at EXCEPT ![t] = x]
        BY <1>2, <2>2 DEF DispatchEntry, ShapeOK
      <3>2. x \in Tasks /\ x.r = r
        <4>1. PICK y \in Tasks : y = at[t]
          BY <1>1 DEF ShapeOK
        <4> QED
          BY <1>1, <4>1 DEF Tasks
      <3> HIDE DEF x
      <3>3. at' \in [Threads -> Tasks \cup {None}] /\
            \A u \in Threads : at'[u] # None /\ at'[u].kind # "poll" => at'[u].r \in Requests
        BY <1>1, <3>1, <3>2, BeginEffect
      <3>4. CASE Entries[i] = "dir"
        <4>1. /\ fill' = [fill EXCEPT ![r].slots = @ \cup {i}]
              /\ req' = [req EXCEPT ![r].fate[i] = "resolved"] /\ UNCHANGED queue
          BY <1>2, <2>2, <3>4 DEF DispatchEntry
        <4>2. "resolved" \in Fates
          BY DEF Fates
        <4>3. fill' \in [Requests -> Fills] /\ req' \in [Requests -> ReqStates]
          BY <1>1, <4>1, <4>2, FillTypes, FateTypes
        <4> QED
          BY <1>2, <3>3, <4>1, <4>3 DEF DispatchEntry, ShapeOK
      <3>5. CASE Entries[i] # "dir"
        <4>1. /\ fill' = [fill EXCEPT ![r].outstanding = @ + 1]
              /\ queue' = Append(queue, Job("plus", r, i)) /\ UNCHANGED req
          BY <1>2, <2>2, <3>5 DEF DispatchEntry
        <4>2. Job("plus", r, i) \in Jobs
          BY <1>1 DEF Job, Jobs
        <4>3. fill' \in [Requests -> Fills] /\ queue' \in Seq(Jobs)
          <5>1. fill[r].outstanding + 1 \in Int
            BY <1>1 DEF Fills
          <5>2. fill' = [fill EXCEPT ![r].outstanding = fill[r].outstanding + 1]
            BY <1>1, <4>1 DEF ShapeOK
          <5>3. fill' \in [Requests -> Fills]
            BY <1>1, <5>1, <5>2, FillTypes
          <5> QED
            BY <4>1, <4>2, <5>3 DEF ShapeOK
        <4> QED
          BY <1>2, <3>3, <4>1, <4>3 DEF DispatchEntry, ShapeOK
      <3> QED
        BY <3>4, <3>5
    <2> QED
      BY <2>1, <2>2
  <1>3. CASE ResolveEntry(t)
    <2>1. req' \in [Requests -> ReqStates]
      <3>1. PICK f \in {"resolved", "error"} : req' = [req EXCEPT ![r].fate[at[t].i] = f]
        BY <1>3 DEF ResolveEntry
      <3>2. f \in Fates
        BY DEF Fates
      <3> QED
        BY <1>1, <3>1, <3>2, FateTypes
    <2>2. fill' \in [Requests -> Fills]
      BY <1>1, <1>3, FillTypes DEF ResolveEntry
    <2>3. at' \in [Threads -> Tasks \cup {None}] /\
          \A u \in Threads : at'[u] # None /\ at'[u].kind # "poll" => at'[u].r \in Requests
      BY <1>1, <1>3, GotoEffect DEF ResolveEntry
    <2> QED
      BY <1>3, <2>1, <2>2, <2>3 DEF ResolveEntry, ShapeOK
  <1>4. CASE PlusSlot(t)
    <2>1. /\ fill' = [fill EXCEPT ![r].outstanding = @ - 1]
          /\ Goto(t, "finish") \/ Leave(t)
      BY <1>4 DEF PlusSlot, CountsOut
    <2>2. fill' \in [Requests -> Fills]
      <3>1. fill[r].outstanding + (-1) \in Int /\ fill[r].outstanding - 1 = fill[r].outstanding + (-1)
        BY <1>1 DEF Fills
      <3>2. fill' = [fill EXCEPT ![r].outstanding = fill[r].outstanding + (-1)]
        BY <1>1, <2>1, <3>1 DEF ShapeOK
      <3> QED
        BY <1>1, <3>1, <3>2, FillTypes
    <2>3. at' \in [Threads -> Tasks \cup {None}] /\
          \A u \in Threads : at'[u] # None /\ at'[u].kind # "poll" => at'[u].r \in Requests
      BY <1>1, <2>1, GotoEffect, LeaveEffect
    <2> QED
      BY <1>4, <2>2, <2>3 DEF PlusSlot, ShapeOK
  <1>5. CASE finish_plus_round(t)
    <2> DEFINE f == fill[r]
               p == [req[r] EXCEPT !.entries = req[r].entries \o Emitted(r)]
               filled == [req EXCEPT ![r] = p]
    <2>1. p \in ReqStates /\ filled \in [Requests -> ReqStates]
      <3>1. PICK q \in ReqStates : q = req[r]
        BY <1>1
      <3>2. p \in ReqStates
        BY <1>1, <3>1, EmittedTypes DEF ReqStates
      <3> HIDE DEF p
      <3> QED
        BY <1>1, <3>2 DEF ShapeOK
    <2>2. filled = [req EXCEPT ![r].entries = @ \o Emitted(r)]
      BY <1>1 DEF ShapeOK
    <2>3. CASE f.reply # "held"
      BY <1>5, <2>3, LeaveEffect DEF finish_plus_round, ShapeOK
    <2>4. CASE /\ f.reply = "held"
               /\ req' = [filled EXCEPT ![r].state = "answered", ![r].replies = @ + 1,
                                        ![r].listing = f.listing]
               /\ fill' = [fill EXCEPT ![r] = [NoFill EXCEPT !.reply = "sent"]]
               /\ Leave(t)
      <3> DEFINE q == [p EXCEPT !.state = "answered", !.replies = @ + 1, !.listing = f.listing]
      <3>1. [NoFill EXCEPT !.reply = "sent"] \in Fills
        BY FreshTypes DEF Fills
      <3>2. q \in ReqStates
        <4>1. PICK y \in ReqStates : y = p
          BY <2>1
        <4>2. f.listing \in Listings \cup {None}
          BY <1>1 DEF Fills
        <4> DEFINE y1 == [y EXCEPT !.state = "answered"]
                   y2 == [y1 EXCEPT !.replies = y1.replies + 1]
        <4>3. y1 \in ReqStates
          BY DEF ReqStates
        <4>4. q = [y2 EXCEPT !.listing = f.listing]
          <5> HIDE DEF p
          <5> QED
            BY <4>1 DEF ReqStates
        <4> HIDE DEF y1
        <4>5. y2 \in ReqStates
          <5>1. y1.replies + 1 \in Nat
            BY <4>3 DEF ReqStates
          <5> QED
            BY <4>3, <5>1 DEF ReqStates
        <4> HIDE DEF y2
        <4>6. [y2 EXCEPT !.listing = f.listing] \in ReqStates
          BY <4>2, <4>5 DEF ReqStates
        <4> QED
          BY <4>4, <4>6
      <3>3. filled[r] = p
        BY <1>1, <2>1 DEF ShapeOK
      <3> HIDE DEF filled
      <3>4. req' = [filled EXCEPT ![r] = q]
        BY <1>1, <2>1, <2>4, <3>3
      <3> HIDE DEF q
      <3> QED
        <4>1. req' \in [Requests -> ReqStates]
          BY <1>1, <2>1, <3>2, <3>4
        <4>2. fill' \in [Requests -> Fills]
          BY <1>1, <2>4, <3>1 DEF ShapeOK
        <4> QED
          BY <1>5, <2>4, <4>1, <4>2, LeaveEffect DEF finish_plus_round, ShapeOK
    <2>5. CASE /\ f.reply = "held" /\ req' = filled
               /\ fill' = [fill EXCEPT ![r] = spawn_plus_round(f.listing, f.upto)]
               /\ at' = [at EXCEPT ![t] = RoundOf(r, f.upto)]
      <3>1. f.listing \in Listings /\ f.upto \in Nat
        BY <1>1, <2>5 DEF RequestInv, RequestOK, PageOK, Fills
      <3>2. spawn_plus_round(f.listing, f.upto) \in Fills
        BY <3>1, FreshTypes
      <3> DEFINE x == RoundOf(r, f.upto)
      <3>3. x \in Tasks /\ x.r = r
        BY <1>1, <3>1, FreshTypes DEF RoundOf, Doing, Job
      <3> HIDE DEF x
      <3>4. at' \in [Threads -> Tasks \cup {None}] /\
            \A u \in Threads : at'[u] # None /\ at'[u].kind # "poll" => at'[u].r \in Requests
        BY <1>1, <2>5, <3>3, BeginEffect DEF x
      <3> QED
        BY <1>5, <2>1, <2>5, <3>2, <3>4 DEF finish_plus_round, ShapeOK
    <2>6. \/ f.reply # "held"
          \/ /\ f.reply = "held"
             /\ req' = [filled EXCEPT ![r].state = "answered", ![r].replies = @ + 1,
                                      ![r].listing = f.listing]
             /\ fill' = [fill EXCEPT ![r] = [NoFill EXCEPT !.reply = "sent"]]
             /\ Leave(t)
          \/ /\ f.reply = "held" /\ req' = filled
             /\ fill' = [fill EXCEPT ![r] = spawn_plus_round(f.listing, f.upto)]
             /\ at' = [at EXCEPT ![t] = RoundOf(r, f.upto)]
      <3> HIDE DEF filled
      <3> QED
        BY <1>5, <2>2 DEF finish_plus_round, Emitted, Fit
    <2> HIDE DEF f, filled
    <2> QED
      BY <2>3, <2>4, <2>5, <2>6
  <1> QED
    BY <1>2, <1>3, <1>4, <1>5

\* Every step keeps types.
LEMMA PoolTypes ==
  ASSUME ShapeOK, TaskInv, RequestInv, SharedListingsAreExact, [Next]_vars
  PROVE  ShapeOK'
  <1>1. CASE KernelStep
    BY <1>1, KernelTypes
  <1>2. CASE PollComesDue
    BY <1>2 DEF PollComesDue, ShapeOK
  <1>3. ASSUME NEW t \in Threads, ThreadStep(t) PROVE ShapeOK'
    BY <1>3, SoloTypes, ListingTypes, RoundTypes DEF ThreadStep
  <1>4. ASSUME NEW w \in Workers, TakeJob(w) \/ LoseJob(w) PROVE ShapeOK'
    BY <1>4, TakeTypes
  <1>5. CASE UNCHANGED vars
    BY <1>5 DEF vars, ShapeOK
  <1> QED
    BY <1>1, <1>2, <1>3, <1>4, <1>5 DEF Next

(***************************************************************************)
(* What a count says of jobs and threads.                                  *)
(***************************************************************************)
LEMMA CountedJob ==
  ASSUME NEW q \in Seq(Jobs), NEW k \in 1..Len(q), NEW J, q[k] \in J
  PROVE  InQueue(q, J) >= 1
  <1> DEFINE S == {n \in 1..Len(q) : q[n] \in J}
  <1>1. IsFiniteSet(1..Len(q)) /\ S \in SUBSET (1..Len(q)) /\ k \in S
    BY FS_Interval
  <1>2. InQueue(q, J) = Cardinality(S)
    BY DEF InQueue
  <1> HIDE DEF S
  <1>3. IsFiniteSet(S) /\ S # {}
    BY <1>1, FS_Subset
  <1> QED
    BY <1>2, <1>3, FS_EmptySet, FS_CardinalityType

\* A task that is there is counted; two tasks are two.
LEMMA CountedTask ==
  ASSUME NEW a, NEW t \in Threads, NEW K, a[t] \in K
  PROVE  /\ InThreads(a, K) >= 1
         /\ \A u \in Threads : u # t /\ a[u] \in K => InThreads(a, K) >= 2
  <1> DEFINE S == {n \in Threads : a[n] \in K}
  <1>1. S \in SUBSET Threads /\ t \in S
    OBVIOUS
  <1>2. InThreads(a, K) = Cardinality(S)
    BY DEF InThreads
  <1>3. \A u \in Threads : u # t /\ a[u] \in K => u \in S \ {t}
    OBVIOUS
  <1> HIDE DEF S
  <1>4. IsFiniteSet(S) /\ IsFiniteSet(S \ {t}) /\ Cardinality(S) \in Nat /\ Cardinality(S \ {t}) \in Nat
        /\ Cardinality(S \ {t}) = Cardinality(S) - 1
    BY <1>1, ThreadsAreFinite, FS_Subset, FS_RemoveElement, FS_CardinalityType
  <1>5. S \ {t} # {} => Cardinality(S \ {t}) # 0
    BY <1>4, FS_EmptySet
  <1> QED
    BY <1>2, <1>3, <1>4, <1>5

\* Where no thread has such a task, none is counted.
LEMMA NoneCounted ==
  ASSUME NEW a, NEW K, \A t \in Threads : a[t] \notin K
  PROVE  InThreads(a, K) = 0
  <1>1. {t \in Threads : a[t] \in K} = {}
    OBVIOUS
  <1> QED
    BY <1>1, FS_EmptySet DEF InThreads

\* The counts of a request, taken apart.
LEMMA CountsOfRequest ==
  ASSUME ShapeOK, NEW r \in Requests
  PROVE  /\ InQueue(queue, OwnJobs(r)) \in Nat /\ InThreads(at, OwnTasks(r)) \in Nat
         /\ InQueue(queue, PlusJobs(r)) \in Nat /\ InThreads(at, RoundTasks(r)) \in Nat
         /\ Dispatchers(r) \in Nat /\ Finishers(r) \in Nat
         /\ Owners(r) = InQueue(queue, OwnJobs(r)) + InThreads(at, OwnTasks(r))
         /\ Uncounted(r) = InQueue(queue, PlusJobs(r)) + InThreads(at, RoundTasks(r))
  BY CountTypes DEF ShapeOK, Owners, Uncounted, Dispatchers, Finishers, Live

\* A task of its own is the one owner of its request, which waits.
LEMMA OwnerOfRequest ==
  ASSUME ShapeOK, CountInv, NEW t \in Threads, at[t] # None, at[t].kind \in Solo,
         at[t].pc # "guard"
  PROVE  /\ at[t].r \in Requests /\ req[at[t].r].state = "sent" /\ fill[at[t].r].reply = "none"
         /\ \A u \in Threads : u # t /\ at[u] # None /\ at[u].kind \in Solo /\ at[u].pc # "guard"
               => at[u].r # at[t].r
  <1> DEFINE r == at[t].r
  <1>1. at[t] \in Tasks /\ r \in Requests
    BY TaskTypes DEF Solo
  <1>2. at[t] \in OwnTasks(r)
    BY <1>1 DEF OwnTasks
  <1>3. InThreads(at, OwnTasks(r)) >= 1
        /\ \A u \in Threads : u # t /\ at[u] \in OwnTasks(r) => InThreads(at, OwnTasks(r)) >= 2
    BY <1>2, CountedTask
  <1>4. Owners(r) >= InThreads(at, OwnTasks(r)) /\ Owners(r) \in Nat
        /\ InThreads(at, OwnTasks(r)) \in Nat
    BY <1>1, CountsOfRequest
  <1>5. Owners(r) = One(req[r].state = "sent" /\ fill[r].reply = "none")
    BY <1>1 DEF CountInv, CountOK
  <1>6. req[r].state = "sent" /\ fill[r].reply = "none" /\ Owners(r) = 1
    BY <1>3, <1>4, <1>5 DEF One
  <1>7. ASSUME NEW u \in Threads, u # t, at[u] # None, at[u].kind \in Solo, at[u].pc # "guard",
               at[u].r = r
        PROVE  FALSE
    <2>1. at[u] \in OwnTasks(r)
      BY <1>7, TaskTypes DEF OwnTasks
    <2> QED
      BY <1>3, <1>4, <1>6, <1>7, <2>1
  <1> QED
    BY <1>1, <1>6, <1>7

\* So is a queued job.
LEMMA OwnerInQueue ==
  ASSUME ShapeOK, CountInv, NEW k \in 1..Len(queue), queue[k].kind \in Solo
  PROVE  /\ queue[k].r \in Requests /\ req[queue[k].r].state = "sent"
         /\ fill[queue[k].r].reply = "none"
         /\ InThreads(at, OwnTasks(queue[k].r)) = 0
  <1> DEFINE r == queue[k].r
  <1>1. queue[k] \in Jobs /\ queue \in Seq(Jobs)
    BY DEF ShapeOK
  <1>2. r \in Requests /\ queue[k] \in OwnJobs(r)
    BY <1>1 DEF Jobs, OwnJobs, Solo, Job
  <1>3. InQueue(queue, OwnJobs(r)) >= 1
    BY <1>1, <1>2, CountedJob
  <1>4. /\ Owners(r) = InQueue(queue, OwnJobs(r)) + InThreads(at, OwnTasks(r))
        /\ InQueue(queue, OwnJobs(r)) \in Nat /\ InThreads(at, OwnTasks(r)) \in Nat
    BY <1>2, CountsOfRequest
  <1>5. Owners(r) = One(req[r].state = "sent" /\ fill[r].reply = "none")
    BY <1>2 DEF CountInv, CountOK
  <1> QED
    BY <1>2, <1>3, <1>4, <1>5 DEF One

\* A task of a round: the round is in flight.
LEMMA RoundOfTask ==
  ASSUME ShapeOK, CountInv, NEW t \in Threads, at[t] # None, at[t].kind \in {"plus", "round"}
  PROVE  LET r == at[t].r IN
         /\ r \in Requests
         /\ at[t].pc # "finish" => Uncounted(r) >= 1 /\ fill[r].outstanding >= 1
         /\ at[t].pc = "finish" =>
               /\ fill[r].reply = "held" /\ fill[r].outstanding = 0 /\ Uncounted(r) = 0
               /\ \A u \in Threads : u # t /\ at[u] # None /\ at[u].pc = "finish" => at[u].r # r
         /\ at[t].pc = "dispatch" =>
               \A u \in Threads : u # t /\ at[u] # None /\ at[u].pc = "dispatch" => at[u].r # r
  <1> DEFINE r == at[t].r
  <1>1. at[t] \in Tasks /\ r \in Requests
    BY TaskTypes
  <1>2. /\ fill[r].outstanding = Uncounted(r) /\ Dispatchers(r) <= 1
        /\ Finishers(r) = One(fill[r].reply = "held" /\ fill[r].outstanding = 0)
    BY <1>1 DEF CountInv, CountOK
  <1>3. /\ Uncounted(r) >= InThreads(at, RoundTasks(r)) /\ InThreads(at, RoundTasks(r)) \in Nat
        /\ Uncounted(r) \in Nat /\ Finishers(r) \in Nat /\ Dispatchers(r) \in Nat
    BY <1>1, CountsOfRequest
  <1>4. ASSUME at[t].pc # "finish" PROVE Uncounted(r) >= 1
    <2>1. at[t] \in RoundTasks(r)
      BY <1>1, <1>4 DEF RoundTasks
    <2> QED
      BY <1>3, <2>1, CountedTask
  <1>5. ASSUME at[t].pc = "finish"
        PROVE  /\ fill[r].reply = "held" /\ fill[r].outstanding = 0 /\ Uncounted(r) = 0
               /\ \A u \in Threads : u # t /\ at[u] # None /\ at[u].pc = "finish" => at[u].r # r
    <2>1. at[t] \in FinishTasks(r)
      BY <1>1, <1>5 DEF FinishTasks
    <2>2. Finishers(r) >= 1 /\ \A u \in Threads : u # t /\ at[u] \in FinishTasks(r) => Finishers(r) >= 2
      BY <2>1, CountedTask DEF Finishers
    <2>3. fill[r].reply = "held" /\ fill[r].outstanding = 0 /\ Finishers(r) = 1
      BY <1>2, <1>3, <2>2 DEF One
    <2>4. \A u \in Threads : u # t /\ at[u] # None /\ at[u].pc = "finish" => at[u].r # r
      BY <2>2, <2>3, TaskTypes DEF FinishTasks
    <2> QED
      BY <1>2, <2>3, <2>4
  <1>6. ASSUME at[t].pc = "dispatch"
        PROVE  \A u \in Threads : u # t /\ at[u] # None /\ at[u].pc = "dispatch" => at[u].r # r
    <2>1. at[t] \in DispatchTasks(r)
      BY <1>1, <1>6 DEF DispatchTasks
    <2>2. \A u \in Threads : u # t /\ at[u] \in DispatchTasks(r) => Dispatchers(r) >= 2
      BY <2>1, CountedTask DEF Dispatchers
    <2> QED
      BY <1>2, <1>3, <2>2, TaskTypes DEF DispatchTasks
  <1> QED
    BY <1>1, <1>2, <1>4, <1>5, <1>6

\* Every step keeps types, with the invariant.
LEMMA ShapeStep ==
  ServiceInv /\ SharedListingsAreExact /\ [Next]_vars => ShapeOK'
  BY PoolTypes DEF ServiceInv

(***************************************************************************)
(* Tasks stay sound.                                                       *)
(***************************************************************************)

\* The round of r goes on; unless the thread t dispatches it, what it has
\* to count does not grow.
RoundGoesOn(r, t) ==
    /\ fill'[r].reply = fill[r].reply /\ fill'[r].start = fill[r].start
    /\ fill'[r].upto = fill[r].upto
    /\ fill'[r].outstanding <= fill[r].outstanding
       \/ (at[t] # None /\ at[t].pc = "dispatch" /\ at[t].r = r)

\* A job that stays in the queue stays sound.
LEMMA JobsKept ==
  ASSUME ServiceInv, next <= next', next' \in Nat, NEW t \in Threads,
         \A r \in Requests : r < next => req'[r].op = req[r].op,
         \A r \in Requests : RoundGoesOn(r, t) \/ fill[r].reply # "held" \/ Uncounted(r) = 0
  PROVE  \A k \in 1..Len(queue) : \A j \in Jobs : j = queue[k] => JobOK(j)'
  <1> SUFFICES ASSUME NEW k \in 1..Len(queue), NEW j \in Jobs, j = queue[k] PROVE JobOK(j)'
    OBVIOUS
  <1>1. JobOK(j) /\ next \in Nat
    BY DEF ServiceInv, TaskInv, ShapeOK
  <1>2. j.kind # "poll" => j.r \in Requests /\ j.r < next
    BY <1>1 DEF JobOK, Jobs, Job, Solo
  <1>3. j.kind # "poll" => j.r < next'
    BY <1>1, <1>2 DEF Requests
  <1>4. j.kind \in Solo => req'[j.r].op = OpOf(j.kind)
    BY <1>1, <1>2 DEF JobOK, Solo
  <1>5. ASSUME j.kind = "plus" PROVE InRound(j.r, j.i)'
    <2>1. InRound(j.r, j.i) /\ j.r \in Requests
      BY <1>1, <1>2, <1>5 DEF JobOK
    <2>2. Uncounted(j.r) # 0
      <3>1. queue[k] \in PlusJobs(j.r) /\ queue \in Seq(Jobs)
        BY <1>5 DEF PlusJobs, ServiceInv, ShapeOK
      <3>2. InQueue(queue, PlusJobs(j.r)) >= 1
        BY <3>1, CountedJob
      <3> QED
        BY <2>1, <3>2, CountsOfRequest DEF ServiceInv
    <2> QED
      BY <2>1, <2>2 DEF InRound, RoundGoesOn
  <1> QED
    BY <1>3, <1>4, <1>5 DEF JobOK

\* A thread that does not move keeps a sound task.
LEMMA TasksKept ==
  ASSUME ServiceInv, ShapeOK', next <= next', next' \in Nat, NEW t \in Threads,
         \A r \in Requests : r < next => req'[r].op = req[r].op,
         \A r \in Requests : InThreads(at, OwnTasks(r)) # 0 => req'[r].gen = req[r].gen,
         \A r \in Requests : RoundGoesOn(r, t) \/ fill[r].reply # "held" \/ Uncounted(r) = 0,
         \A u \in Threads : u # t /\ at[u] # None /\ at[u].pc = "reply" => at[u].r \in slab'
  PROVE  \A u \in Threads : \A x \in Tasks : u # t /\ x = at[u] => TaskOK(x)'
  <1> SUFFICES ASSUME NEW u \in Threads, NEW x \in Tasks, u # t, x = at[u] PROVE TaskOK(x)'
    OBVIOUS
  <1>1. TaskOK(x) /\ next \in Nat /\ ShapeOK /\ CountInv /\ x # None
    BY FuseAssumption DEF ServiceInv, TaskInv, ShapeOK
  <1>2. x.kind # "poll" => x.r \in Requests /\ x.r < next
    BY <1>1, TaskTypes DEF TaskOK
  <1>3. x.kind # "poll" => x.r < next'
    BY <1>1, <1>2 DEF Requests
  <1>4. (x.kind \in Solo /\ x.pc # "guard") => req'[x.r].op = OpOf(x.kind)
    BY <1>1, <1>2 DEF TaskOK, Solo
  <1>5. x.kind \in Listers => x.snap # None /\ x.snap.gen = req'[x.r].gen
    <2> SUFFICES ASSUME x.kind \in Listers PROVE x.snap # None /\ x.snap.gen = req'[x.r].gen
      OBVIOUS
    <2>1. x.kind \in Solo /\ x.pc # "guard"
      BY <1>1 DEF TaskOK, StageOK, Listers, Solo
    <2>2. x \in OwnTasks(x.r)
      BY <2>1 DEF OwnTasks
    <2>3. InThreads(at, OwnTasks(x.r)) # 0
      BY <2>2, CountedTask
    <2> QED
      BY <1>1, <1>2, <2>1, <2>3 DEF TaskOK, Solo
  <1>6. (x.kind = "plus" /\ x.pc # "finish") => InRound(x.r, x.i)'
    <2> SUFFICES ASSUME x.kind = "plus", x.pc # "finish" PROVE InRound(x.r, x.i)'
      OBVIOUS
    <2>1. InRound(x.r, x.i)
      BY <1>1 DEF TaskOK
    <2>2. x.r \in Requests /\ Uncounted(x.r) # 0
      BY <1>1, RoundOfTask, CountsOfRequest
    <2> QED
      BY <2>1, <2>2 DEF InRound, RoundGoesOn
  <1>7. x.pc = "dispatch" =>
          /\ fill'[x.r].reply = "held" /\ fill'[x.r].start < x.i
          /\ (x.i <= fill'[x.r].start + 1 \/ x.i <= fill'[x.r].upto + 1)
          /\ fill'[x.r].outstanding <= x.i - fill'[x.r].start
    <2> SUFFICES ASSUME x.pc = "dispatch"
                 PROVE  /\ fill'[x.r].reply = "held" /\ fill'[x.r].start < x.i
                        /\ (x.i <= fill'[x.r].start + 1 \/ x.i <= fill'[x.r].upto + 1)
                        /\ fill'[x.r].outstanding <= x.i - fill'[x.r].start
      OBVIOUS
    <2>1. x.kind = "round" /\ x.r \in Requests
      BY <1>1, <1>2 DEF TaskOK, StageOK, Tasks, Kinds
    <2>2. /\ Uncounted(x.r) # 0 /\ fill[x.r].outstanding \in Int /\ fill[x.r].start \in Nat
          /\ ~(at[t] # None /\ at[t].pc = "dispatch" /\ at[t].r = x.r)
      <3>1. Uncounted(x.r) >= 1 /\ ~(at[t] # None /\ at[t].pc = "dispatch" /\ at[t].r = x.r)
        BY <1>1, <2>1, RoundOfTask
      <3>2. fill[x.r].outstanding \in Int /\ fill[x.r].start \in Nat /\ Uncounted(x.r) \in Nat
        <4>1. fill[x.r] \in Fills
          BY <1>1, <2>1 DEF ShapeOK
        <4>2. Uncounted(x.r) \in Nat
          BY <1>1, <2>1, CountsOfRequest
        <4> QED
          BY <4>1, <4>2 DEF Fills
      <3> QED
        BY <3>1, <3>2
    <2>3. /\ fill[x.r].reply = "held" /\ fill[x.r].start < x.i
          /\ (x.i <= fill[x.r].start + 1 \/ x.i <= fill[x.r].upto + 1)
          /\ fill[x.r].outstanding <= x.i - fill[x.r].start
      BY <1>1 DEF TaskOK
    <2>4. RoundGoesOn(x.r, t)
      BY <2>1, <2>2, <2>3
    <2>5. fill'[x.r].outstanding <= fill[x.r].outstanding /\ x.i \in Nat
      BY <2>2, <2>4 DEF RoundGoesOn, Tasks
    <2>6. fill'[x.r].outstanding <= x.i - fill'[x.r].start
      <3>1. fill'[x.r].outstanding \in Int
        BY <2>1 DEF ShapeOK, Fills
      <3> QED
        BY <2>2, <2>3, <2>4, <2>5, <3>1 DEF RoundGoesOn
    <2> QED
      BY <2>3, <2>4, <2>6 DEF RoundGoesOn
  <1>8. x.pc = "reply" => x.r \in slab'
    BY <1>1
  <1> QED
    BY <1>1, <1>3, <1>4, <1>5, <1>6, <1>7, <1>8 DEF TaskOK

Elems(q) == {q[k] : k \in 1..Len(q)}

\* The jobs of a queue that one is appended to, or taken from.
LEMMA ElemsOf ==
  ASSUME NEW q \in Seq(Jobs)
  PROVE  /\ \A j \in Jobs : Elems(Append(q, j)) = Elems(q) \cup {j}
         /\ q # <<>> => Elems(Tail(q)) \subseteq Elems(q) /\ Head(q) \in Elems(q)
  <1>1. ASSUME NEW j \in Jobs PROVE Elems(Append(q, j)) = Elems(q) \cup {j}
    <2>1. /\ Len(Append(q, j)) = Len(q) + 1 /\ Append(q, j)[Len(q) + 1] = j /\ Len(q) \in Nat
          /\ \A k \in 1..Len(q) : Append(q, j)[k] = q[k]
      OBVIOUS
    <2> HIDE DEF Elems
    <2>2. \A e \in Elems(Append(q, j)) : e \in Elems(q) \cup {j}
      BY <2>1 DEF Elems
    <2>3. \A e \in Elems(q) \cup {j} : e \in Elems(Append(q, j))
      <3>1. Len(q) + 1 \in 1..(Len(q) + 1) /\ \A k \in 1..Len(q) : k \in 1..(Len(q) + 1)
        BY <2>1
      <3> QED
        BY <2>1, <3>1 DEF Elems
    <2> QED
      BY <2>2, <2>3
  <1>2. ASSUME q # <<>> PROVE Elems(Tail(q)) \subseteq Elems(q) /\ Head(q) \in Elems(q)
    <2>1. /\ Len(q) \in Nat \ {0} /\ Len(Tail(q)) = Len(q) - 1 /\ Head(q) = q[1]
          /\ \A k \in 1..(Len(q) - 1) : Tail(q)[k] = q[k + 1]
      BY <1>2
    <2> QED
      BY <2>1 DEF Elems
  <1> QED
    BY <1>1, <1>2

\* The jobs of the queue after a request came in.
LEMMA FiredElems ==
  ASSUME queue \in Seq(Jobs), NEW jobs, jobs = <<>> \/ (\E j \in Jobs : jobs = <<j>>),
         fire_poll_refresh(jobs)
  PROVE  /\ jobs = <<>> => Elems(queue') \subseteq Elems(queue) \cup {Job("poll", None, 0)}
         /\ \A j \in Jobs : jobs = <<j>> =>
               Elems(queue') \subseteq Elems(queue) \cup {Job("poll", None, 0), j}
  <1> DEFINE p == Job("poll", None, 0)
             q == IF Fires THEN Append(queue, p) ELSE queue
  <1>1. /\ q \in Seq(Jobs) /\ (jobs = <<>> => queue' = q)
        /\ \A j \in Jobs : jobs = <<j>> => queue' = Append(q, j)
    BY FiredQueue
  <1>2. Elems(q) \subseteq Elems(queue) \cup {p}
    <2>1. p \in Jobs
      BY DEF Jobs
    <2> HIDE DEF p
    <2> QED
      BY <2>1, ElemsOf
  <1> HIDE DEF q
  <1>3. jobs = <<>> => Elems(queue') \subseteq Elems(queue) \cup {p}
    BY <1>1, <1>2
  <1>4. ASSUME NEW j \in Jobs, jobs = <<j>>
        PROVE  Elems(queue') \subseteq Elems(queue) \cup {p, j}
    <2>1. queue' = Append(q, j)
      BY <1>1, <1>4
    <2>2. Elems(Append(q, j)) = Elems(q) \cup {j}
      BY <1>1, ElemsOf
    <2> QED
      BY <1>2, <2>1, <2>2
  <1> QED
    BY <1>3, <1>4

\* The thread t moves, jobs may come and go.
LEMMA TasksStep ==
  ASSUME ServiceInv, ShapeOK', next <= next', NEW t \in Threads,
         \A r \in Requests : r < next => req'[r].op = req[r].op,
         \A r \in Requests : InThreads(at, OwnTasks(r)) # 0 => req'[r].gen = req[r].gen,
         \A r \in Requests : RoundGoesOn(r, t) \/ fill[r].reply # "held" \/ Uncounted(r) = 0,
         \A u \in Threads : u # t /\ at[u] # None /\ at[u].pc = "reply" => at[u].r \in slab',
         NEW new \in SUBSET Jobs, Elems(queue') \subseteq Elems(queue) \cup new,
         \A j \in new : JobOK(j)',
         \A u \in Threads : u # t => at'[u] = at[u],
         \A x \in Tasks : x = at'[t] => TaskOK(x)'
  PROVE  TaskInv'
  <1>1. next' \in Nat
    BY DEF ShapeOK
  <1>2. \A k \in 1..Len(queue) : \A j \in Jobs : j = queue[k] => JobOK(j)'
    BY <1>1, JobsKept
  <1>3. \A u \in Threads : \A x \in Tasks : u # t /\ x = at[u] => TaskOK(x)'
    BY <1>1, TasksKept
  <1>4. ASSUME NEW k \in 1..Len(queue') PROVE JobOK(queue[k])'
    <2>1. PICK j \in Jobs : j = queue'[k]
      BY DEF ShapeOK
    <2>2. j \in Elems(queue')
      BY <2>1 DEF Elems
    <2>3. j \in new \/ \E n \in 1..Len(queue) : j = queue[n]
      BY <2>2 DEF Elems
    <2>4. JobOK(j)'
      BY <1>2, <2>3
    <2> QED
      BY <2>1, <2>4 DEF JobOK
  <1>5. ASSUME NEW u \in Threads, at'[u] # None PROVE TaskOK(at[u])'
    <2>1. PICK x \in Tasks : x = at'[u]
      BY <1>5 DEF ShapeOK
    <2>2. TaskOK(x)'
      BY <1>3, <2>1
    <2> QED
      BY <2>1, <2>2 DEF TaskOK
  <1> QED
    BY <1>4, <1>5 DEF TaskInv

(***************************************************************************)
(* How a step moves the counts of a request.                               *)
(***************************************************************************)
Owns(x, r) == x # None /\ x.kind \in Solo /\ x.r = r /\ x.pc # "guard"
InPlay(x, r) == x # None /\ x.kind \in {"plus", "round"} /\ x.r = r /\ x.pc # "finish"
Dispatches(x, r) == x # None /\ x.pc = "dispatch" /\ x.r = r
Finishes(x, r) == x # None /\ x.pc = "finish" /\ x.r = r

\* A thread's counts before and after its step.
LEMMA ThreadMoves ==
  ASSUME NEW t \in Threads, \A u \in Threads : u # t => at'[u] = at[u]
  PROVE  \A K : InThreads(at', K) = InThreads(at, K) - One(at[t] \in K) + One(at'[t] \in K)
  BY CountMove

\* How the counts of a request move with one thread's task.
LEMMA CountsStep ==
  ASSUME ShapeOK, ShapeOK', NEW t \in Threads, NEW x \in Tasks \cup {None},
         at' = [at EXCEPT ![t] = x]
  PROVE  \A r \in Requests :
            /\ Owners(r)' = Owners(r) + (InQueue(queue', OwnJobs(r)) - InQueue(queue, OwnJobs(r)))
                            - One(Owns(at[t], r)) + One(Owns(x, r))
            /\ Uncounted(r)' = Uncounted(r) + (InQueue(queue', PlusJobs(r)) - InQueue(queue, PlusJobs(r)))
                               - One(InPlay(at[t], r)) + One(InPlay(x, r))
            /\ Dispatchers(r)' = Dispatchers(r) - One(Dispatches(at[t], r)) + One(Dispatches(x, r))
            /\ Finishers(r)' = Finishers(r) - One(Finishes(at[t], r)) + One(Finishes(x, r))
            /\ Owners(r) \in Nat /\ Uncounted(r) \in Nat /\ Dispatchers(r) \in Nat
            /\ Finishers(r) \in Nat
            /\ InQueue(queue, OwnJobs(r)) \in Nat /\ InQueue(queue, PlusJobs(r)) \in Nat
  <1> SUFFICES ASSUME NEW r \in Requests
      PROVE /\ Owners(r)' = Owners(r) + (InQueue(queue', OwnJobs(r)) - InQueue(queue, OwnJobs(r)))
                            - One(Owns(at[t], r)) + One(Owns(x, r))
            /\ Uncounted(r)' = Uncounted(r) + (InQueue(queue', PlusJobs(r)) - InQueue(queue, PlusJobs(r)))
                               - One(InPlay(at[t], r)) + One(InPlay(x, r))
            /\ Dispatchers(r)' = Dispatchers(r) - One(Dispatches(at[t], r)) + One(Dispatches(x, r))
            /\ Finishers(r)' = Finishers(r) - One(Finishes(at[t], r)) + One(Finishes(x, r))
            /\ Owners(r) \in Nat /\ Uncounted(r) \in Nat /\ Dispatchers(r) \in Nat
            /\ Finishers(r) \in Nat
            /\ InQueue(queue, OwnJobs(r)) \in Nat /\ InQueue(queue, PlusJobs(r)) \in Nat
    BY Zenon
  <1>1. at \in [Threads -> Tasks \cup {None}] /\ at[t] \in Tasks \cup {None} /\ None \notin Tasks
    BY FuseAssumption DEF ShapeOK
  <1>2. \A K : InThreads(at', K) = InThreads(at, K) - One(at[t] \in K) + One(x \in K)
    <2>1. at'[t] = x /\ \A u \in Threads : u # t => at'[u] = at[u]
      BY <1>1
    <2>2. \A u \in Threads : u # t => at'[u] = at[u]
      BY <2>1
    <2>3. \A K : InThreads(at', K) = InThreads(at, K) - One(at[t] \in K) + One(at'[t] \in K)
      BY <2>2, ThreadMoves
    <2> QED
      BY <2>1, <2>3
  <1>3. \A y \in Tasks \cup {None} :
          /\ y \in OwnTasks(r) <=> Owns(y, r)
          /\ y \in RoundTasks(r) <=> InPlay(y, r)
          /\ y \in DispatchTasks(r) <=> Dispatches(y, r)
          /\ y \in FinishTasks(r) <=> Finishes(y, r)
    BY <1>1 DEF OwnTasks, RoundTasks, DispatchTasks, FinishTasks, Owns, InPlay, Dispatches, Finishes
  <1>4. /\ InThreads(at', OwnTasks(r)) = InThreads(at, OwnTasks(r)) - One(Owns(at[t], r)) + One(Owns(x, r))
        /\ InThreads(at', RoundTasks(r)) = InThreads(at, RoundTasks(r)) - One(InPlay(at[t], r)) + One(InPlay(x, r))
    BY <1>1, <1>2, <1>3 DEF One
  <1>5. /\ Dispatchers(r)' = Dispatchers(r) - One(Dispatches(at[t], r)) + One(Dispatches(x, r))
        /\ Finishers(r)' = Finishers(r) - One(Finishes(at[t], r)) + One(Finishes(x, r))
    BY <1>1, <1>2, <1>3 DEF One, Dispatchers, Finishers
  <1>6. /\ Owners(r)' = InQueue(queue', OwnJobs(r)) + InThreads(at', OwnTasks(r))
        /\ Uncounted(r)' = InQueue(queue', PlusJobs(r)) + InThreads(at', RoundTasks(r))
    BY DEF Owners, Uncounted, Live
  <1>7. /\ InQueue(queue, OwnJobs(r)) \in Nat /\ InThreads(at, OwnTasks(r)) \in Nat
        /\ InQueue(queue, PlusJobs(r)) \in Nat /\ InThreads(at, RoundTasks(r)) \in Nat
        /\ Dispatchers(r) \in Nat /\ Finishers(r) \in Nat
        /\ Owners(r) = InQueue(queue, OwnJobs(r)) + InThreads(at, OwnTasks(r))
        /\ Uncounted(r) = InQueue(queue, PlusJobs(r)) + InThreads(at, RoundTasks(r))
    BY CountsOfRequest
  <1>8. InQueue(queue', OwnJobs(r)) \in Nat /\ InQueue(queue', PlusJobs(r)) \in Nat
    <2>1. queue' \in Seq(Jobs)
      BY DEF ShapeOK
    <2> QED
      BY <2>1, CountTypes
  <1>9. Owners(r)' = Owners(r) + (InQueue(queue', OwnJobs(r)) - InQueue(queue, OwnJobs(r)))
                     - One(Owns(at[t], r)) + One(Owns(x, r))
    BY <1>4, <1>6, <1>7, <1>8 DEF One
  <1>10. Uncounted(r)' = Uncounted(r) + (InQueue(queue', PlusJobs(r)) - InQueue(queue, PlusJobs(r)))
                         - One(InPlay(at[t], r)) + One(InPlay(x, r))
    BY <1>4, <1>6, <1>7, <1>8 DEF One
  <1> QED
    BY <1>5, <1>7, <1>9, <1>10

\* Jobs join and leave the queue.
LEMMA QueueCounts ==
  ASSUME NEW q \in Seq(Jobs), NEW r \in Requests
  PROVE  /\ \A j \in Jobs : j.kind \in Solo =>
               /\ InQueue(Append(q, j), OwnJobs(r)) = InQueue(q, OwnJobs(r)) + One(j.r = r)
               /\ InQueue(Append(q, j), PlusJobs(r)) = InQueue(q, PlusJobs(r)) + 0
         /\ \A j \in Jobs : j.kind = "plus" =>
               /\ InQueue(Append(q, j), OwnJobs(r)) = InQueue(q, OwnJobs(r)) + 0
               /\ InQueue(Append(q, j), PlusJobs(r)) = InQueue(q, PlusJobs(r)) + One(j.r = r)
         /\ \A j \in Jobs : j.kind = "poll" =>
               /\ InQueue(Append(q, j), OwnJobs(r)) = InQueue(q, OwnJobs(r)) + 0
               /\ InQueue(Append(q, j), PlusJobs(r)) = InQueue(q, PlusJobs(r)) + 0
         /\ q # <<>> =>
               /\ InQueue(Tail(q), OwnJobs(r)) =
                     InQueue(q, OwnJobs(r)) + (-One(Head(q).kind \in Solo /\ Head(q).r = r))
               /\ InQueue(Tail(q), PlusJobs(r)) =
                     InQueue(q, PlusJobs(r)) + (-One(Head(q).kind = "plus" /\ Head(q).r = r))
  <1>1. \A j \in Jobs : /\ j \in OwnJobs(r) <=> j.kind \in Solo /\ j.r = r
                        /\ j \in PlusJobs(r) <=> j.kind = "plus" /\ j.r = r
    BY DEF OwnJobs, PlusJobs
  <1>2. InQueue(q, OwnJobs(r)) \in Nat /\ InQueue(q, PlusJobs(r)) \in Nat
    BY CountTypes
  <1>3. \A j \in Jobs :
           /\ InQueue(Append(q, j), OwnJobs(r)) = InQueue(q, OwnJobs(r)) + One(j \in OwnJobs(r))
           /\ InQueue(Append(q, j), PlusJobs(r)) = InQueue(q, PlusJobs(r)) + One(j \in PlusJobs(r))
    BY CountAppend
  <1>4. \A j \in Jobs : j.kind \in Solo => j.kind # "plus" /\ j.kind # "poll"
    BY DEF Solo
  <1>5. \A j \in Jobs : j.kind \in Solo =>
               /\ InQueue(Append(q, j), OwnJobs(r)) = InQueue(q, OwnJobs(r)) + One(j.r = r)
               /\ InQueue(Append(q, j), PlusJobs(r)) = InQueue(q, PlusJobs(r)) + 0
    BY <1>1, <1>2, <1>3, <1>4 DEF One
  <1>6. \A j \in Jobs : j.kind = "plus" =>
               /\ InQueue(Append(q, j), OwnJobs(r)) = InQueue(q, OwnJobs(r)) + 0
               /\ InQueue(Append(q, j), PlusJobs(r)) = InQueue(q, PlusJobs(r)) + One(j.r = r)
    BY <1>1, <1>2, <1>3, <1>4 DEF One
  <1>7. \A j \in Jobs : j.kind = "poll" =>
               /\ InQueue(Append(q, j), OwnJobs(r)) = InQueue(q, OwnJobs(r)) + 0
               /\ InQueue(Append(q, j), PlusJobs(r)) = InQueue(q, PlusJobs(r)) + 0
    BY <1>1, <1>2, <1>3, <1>4 DEF One
  <1>8. ASSUME q # <<>>
        PROVE  /\ InQueue(Tail(q), OwnJobs(r)) =
                     InQueue(q, OwnJobs(r)) + (-One(Head(q).kind \in Solo /\ Head(q).r = r))
               /\ InQueue(Tail(q), PlusJobs(r)) =
                     InQueue(q, PlusJobs(r)) + (-One(Head(q).kind = "plus" /\ Head(q).r = r))
    <2>1. Head(q) \in Jobs /\ Tail(q) \in Seq(Jobs)
      BY <1>8
    <2>2. InQueue(Tail(q), OwnJobs(r)) \in Nat /\ InQueue(Tail(q), PlusJobs(r)) \in Nat
      BY <2>1, CountTypes
    <2>3. /\ InQueue(q, OwnJobs(r)) = InQueue(Tail(q), OwnJobs(r)) + One(Head(q) \in OwnJobs(r))
          /\ InQueue(q, PlusJobs(r)) = InQueue(Tail(q), PlusJobs(r)) + One(Head(q) \in PlusJobs(r))
      BY <1>8, CountTail
    <2> QED
      BY <1>1, <2>1, <2>2, <2>3 DEF One
  <1> QED
    BY <1>5, <1>6, <1>7, <1>8

\* The poll that may go ahead of a request's job is nobody's.
LEMMA FiredCounts ==
  ASSUME queue \in Seq(Jobs), NEW q,
         q = queue \/ q = Append(queue, Job("poll", None, 0))
  PROVE  /\ q \in Seq(Jobs) /\ Elems(q) \subseteq Elems(queue) \cup {Job("poll", None, 0)}
         /\ \A r \in Requests : /\ InQueue(q, OwnJobs(r)) = InQueue(queue, OwnJobs(r)) + 0
                                /\ InQueue(q, PlusJobs(r)) = InQueue(queue, PlusJobs(r)) + 0
  <1> DEFINE p == Job("poll", None, 0)
  <1>1. p \in Jobs /\ p.kind = "poll"
    BY DEF Job, Jobs
  <1> HIDE DEF p
  <1>2. CASE q = queue
    BY <1>2, CountTypes
  <1>3. CASE q = Append(queue, p)
    BY <1>1, <1>3, QueueCounts, ElemsOf
  <1> QED
    BY <1>2, <1>3 DEF p

\* Only one request changes.
LEMMA RequestsStep ==
  ASSUME ServiceInv, NEW r \in Requests, next' = next \/ (next' = next + 1 /\ r = next),
         \A q \in Requests : q # r =>
             req'[q] = req[q] /\ fill'[q] = fill[q] /\ open'[q] = open[q],
         RequestOK(r)'
  PROVE  RequestInv'
  <1>1. ASSUME NEW q \in Requests, q # r PROVE RequestOK(q)'
    <2>1. RequestOK(q) /\ q \in Nat /\ next \in Nat
      BY DEF ServiceInv, RequestInv, ShapeOK, Requests
    <2>2. q >= next' <=> q >= next
      BY <1>1, <2>1
    <2> QED
      BY <1>1, <2>1, <2>2 DEF RequestOK
  <1> QED
    BY <1>1 DEF RequestInv

(***************************************************************************)
(* The kernel's requests.                                                  *)
(***************************************************************************)

\* A request that is not sent yet leaves no trace.
LEMMA NextIsFresh ==
  ASSUME ServiceInv, next <= MaxRequests
  PROVE  /\ next \in Requests /\ next \in Nat /\ next + 1 \in Nat
         /\ req[next].state = "unsent" /\ open[next] = None
         /\ fill[next] = NoFill /\ fill[next].reply = "none"
         /\ Owners(next) = 0 /\ Uncounted(next) = 0 /\ InThreads(at, OwnTasks(next)) = 0
         /\ Dispatchers(next) = 0 /\ Finishers(next) = 0
  <1>1. next \in Requests /\ next \in Nat
    BY Bounds DEF ServiceInv, ShapeOK, Requests
  <1>2. RequestOK(next) /\ CountOK(next) /\ fill[next] \in Fills
    BY <1>1 DEF ServiceInv, RequestInv, CountInv, ShapeOK
  <1>3. req[next].state = "unsent" /\ open[next] = None /\ fill[next].reply \in {"none", "held", "sent"}
    BY <1>1, <1>2 DEF RequestOK, Fills
  <1>4. fill[next].reply = "none" /\ fill[next] = NoFill
    BY <1>2, <1>3 DEF RequestOK, PageOK
  <1>5. Owners(next) = 0 /\ Uncounted(next) = 0 /\ Finishers(next) = 0
    BY <1>2, <1>3, <1>4 DEF CountOK, One, NoFill
  <1>6. InThreads(at, OwnTasks(next)) = 0 /\ InThreads(at, RoundTasks(next)) = 0
    BY <1>1, <1>5, CountsOfRequest DEF ServiceInv
  <1>7. \A t \in Threads : at[t] \notin DispatchTasks(next)
    <2> SUFFICES ASSUME NEW t \in Threads, at[t] \in DispatchTasks(next) PROVE FALSE
      OBVIOUS
    <2>1. at[t] \in Tasks /\ at[t] # None /\ at[t].pc = "dispatch" /\ at[t].r = next
      BY FuseAssumption DEF DispatchTasks
    <2>2. at[t].kind = "round"
      BY <2>1 DEF ServiceInv, TaskInv, TaskOK, StageOK, Tasks, Kinds
    <2>3. at[t] \in RoundTasks(next)
      BY <2>1, <2>2 DEF RoundTasks
    <2> QED
      BY <1>6, <2>3, CountedTask
  <1>8. Dispatchers(next) = 0
    BY <1>7, NoneCounted DEF Dispatchers
  <1> QED
    BY <1>1, <1>3, <1>4, <1>5, <1>6, <1>8

\* Rounds that nothing touches go on.
LEMMA SameRounds ==
  ASSUME ShapeOK, NEW t, NEW r \in Requests, fill'[r] = fill[r]
  PROVE  RoundGoesOn(r, t)
  <1>1. fill[r].outstanding \in Int
    BY DEF ShapeOK, Fills
  <1> QED
    BY <1>1 DEF RoundGoesOn

\* A request that is queued.
LEMMA QueuedKeeps ==
  ASSUME ServiceInv, ShapeOK', next <= MaxRequests, at[Dispatch] = None,
         NEW kind \in Solo, NEW q \in ReqStates, Record(q), q.op = OpOf(kind), q.state = "sent",
         q.replies = 0, q.listing = None, q.entries = <<>>,
         \A i \in 1..Len(Entries) : q.fate[i] = "none",
         NEW q0, q0 = queue \/ q0 = Append(queue, Job("poll", None, 0)),
         queue' = Append(q0, Job(kind, next, 0)), UNCHANGED <<at, open, fill, slab>>
  PROVE  TaskInv' /\ RequestInv' /\ CountInv'
  <1>0. ShapeOK /\ CountInv /\ TaskInv /\ queue \in Seq(Jobs) /\ Dispatch \in Threads
    BY Bounds DEF ServiceInv, ShapeOK
  <1>n. PICK n \in Requests : n = next
    BY NextIsFresh
  <1>1. /\ n = next /\ n \in Nat /\ req[n].state = "unsent" /\ open[n] = None
        /\ fill[n] = NoFill /\ fill[n].reply = "none" /\ InThreads(at, OwnTasks(n)) = 0
        /\ Owners(n) = 0 /\ Uncounted(n) = 0 /\ Dispatchers(n) = 0 /\ Finishers(n) = 0
    BY <1>n, NextIsFresh
  <1>2. /\ req'[n] = q /\ next' = n + 1 /\ \A r \in Requests : r # n => req'[r] = req[r]
    BY <1>0, <1>1 DEF Record, ShapeOK
  <1> DEFINE j == Job(kind, n, 0)
             p == Job("poll", None, 0)
  <1>3. j \in Jobs /\ j.kind = kind /\ j.r = n /\ p \in Jobs /\ p.kind = "poll"
    BY DEF Job, Jobs
  <1>4. /\ q0 \in Seq(Jobs) /\ Elems(q0) \subseteq Elems(queue) \cup {p}
        /\ \A r \in Requests : /\ InQueue(q0, OwnJobs(r)) = InQueue(queue, OwnJobs(r)) + 0
                               /\ InQueue(q0, PlusJobs(r)) = InQueue(queue, PlusJobs(r)) + 0
    BY <1>0, FiredCounts
  <1>5. Elems(queue') \subseteq Elems(queue) \cup {p, j}
    <2>1. queue' = Append(q0, j)
      BY <1>1
    <2> HIDE DEF j, p
    <2> QED
      BY <1>3, <1>4, <2>1, ElemsOf
  <1>6. RequestInv'
    <2>1. RequestOK(n)'
      BY <1>1, <1>2 DEF RequestOK
    <2>2. \A r \in Requests : r # n => req'[r] = req[r] /\ fill'[r] = fill[r] /\ open'[r] = open[r]
      BY <1>2
    <2> QED
      BY <1>1, <1>2, <2>1, <2>2, RequestsStep
  <1>7. TaskInv'
    <2>1. next <= next' /\ \A r \in Requests : r < next => req'[r].op = req[r].op
      BY <1>1, <1>2 DEF Requests
    <2>2. \A r \in Requests : InThreads(at, OwnTasks(r)) # 0 => req'[r].gen = req[r].gen
      BY <1>1, <1>2
    <2>3. \A r \in Requests : RoundGoesOn(r, Dispatch) \/ fill[r].reply # "held" \/ Uncounted(r) = 0
      BY <1>0, SameRounds
    <2>4. \A u \in Threads : u # Dispatch /\ at[u] # None /\ at[u].pc = "reply" => at[u].r \in slab'
      BY <1>0 DEF TaskInv, TaskOK
    <2>5. \A u \in Threads : u # Dispatch => at'[u] = at[u]
      OBVIOUS
    <2>6. \A x \in Tasks : x = at'[Dispatch] => TaskOK(x)'
      BY FuseAssumption
    <2>7. JobOK(j)' /\ JobOK(p)'
      BY <1>1, <1>2 DEF JobOK, Job, Solo
    <2>8. {p, j} \in SUBSET Jobs /\ \A e \in {p, j} : JobOK(e)'
      BY <1>3, <2>7
    <2> HIDE DEF p, j
    <2> QED
      BY <1>0, <1>5, <2>1, <2>2, <2>3, <2>4, <2>5, <2>6, <2>8, TasksStep
  <1>8. CountInv'
    <2> SUFFICES ASSUME NEW r \in Requests PROVE CountOK(r)'
      BY DEF CountInv
    <2>1. /\ InQueue(queue', OwnJobs(r)) = InQueue(queue, OwnJobs(r)) + One(n = r)
          /\ InQueue(queue', PlusJobs(r)) = InQueue(queue, PlusJobs(r)) + 0
      <3>1. queue' = Append(q0, j)
        BY <1>1
      <3>2. InQueue(queue, OwnJobs(r)) \in Nat /\ InQueue(queue, PlusJobs(r)) \in Nat
        BY <1>0, CountTypes
      <3> HIDE DEF j
      <3> QED
        BY <1>3, <1>4, <3>1, <3>2, QueueCounts DEF One
    <2>2. PICK x \in Tasks \cup {None} : x = at[Dispatch] /\ at' = [at EXCEPT ![Dispatch] = x]
      BY <1>0 DEF ShapeOK
    <2>3. /\ Owners(r)' = Owners(r) + (InQueue(queue', OwnJobs(r)) - InQueue(queue, OwnJobs(r)))
                          - One(Owns(at[Dispatch], r)) + One(Owns(x, r))
          /\ Uncounted(r)' = Uncounted(r) + (InQueue(queue', PlusJobs(r)) - InQueue(queue, PlusJobs(r)))
                             - One(InPlay(at[Dispatch], r)) + One(InPlay(x, r))
          /\ Dispatchers(r)' = Dispatchers(r) - One(Dispatches(at[Dispatch], r)) + One(Dispatches(x, r))
          /\ Finishers(r)' = Finishers(r) - One(Finishes(at[Dispatch], r)) + One(Finishes(x, r))
          /\ Owners(r) \in Nat /\ Uncounted(r) \in Nat /\ Dispatchers(r) \in Nat
          /\ Finishers(r) \in Nat
          /\ InQueue(queue, OwnJobs(r)) \in Nat /\ InQueue(queue, PlusJobs(r)) \in Nat
      BY ZenonT(30), <1>0, <2>2, CountsStep
    <2>5. Owners(r)' = Owners(r) + One(n = r) /\ Uncounted(r)' = Uncounted(r)
          /\ Dispatchers(r)' = Dispatchers(r) /\ Finishers(r)' = Finishers(r)
      BY <2>1, <2>2, <2>3 DEF One
    <2>6. CountOK(r)
      BY <1>0 DEF CountInv
    <2>7. CASE r = n
      BY <1>1, <1>2, <2>3, <2>5, <2>6, <2>7 DEF CountOK, One, NoFill
    <2>8. CASE r # n
      BY <1>2, <2>3, <2>5, <2>6, <2>8 DEF CountOK, One
    <2> QED
      BY <2>7, <2>8
  <1> QED
    BY <1>6, <1>7, <1>8

(***************************************************************************)
(* Steps of one thread for one request.                                    *)
(***************************************************************************)
OthersKept(n) ==
    \A r \in Requests : r # n => req'[r] = req[r] /\ fill'[r] = fill[r] /\ open'[r] = open[r]

\* The task x has no part in the service of request r.
Idle(x, r) == ~Owns(x, r) /\ ~InPlay(x, r) /\ ~Dispatches(x, r) /\ ~Finishes(x, r)

IdleElsewhere(x, n) == \A r \in Requests : r # n => Idle(x, r)

SameQueueElsewhere(n) ==
    \A r \in Requests : r # n => /\ InQueue(queue', OwnJobs(r)) = InQueue(queue, OwnJobs(r))
                                 /\ InQueue(queue', PlusJobs(r)) = InQueue(queue, PlusJobs(r))

Waits(r) == req[r].state = "sent" /\ fill[r].reply = "none"
IsOver(r) == fill[r].reply = "held" /\ fill[r].outstanding = 0

\* The counts of request n move with the task and the queue.
CountsMove(n, x, y) ==
    /\ One(Waits(n)') = One(Waits(n)) + (InQueue(queue', OwnJobs(n)) - InQueue(queue, OwnJobs(n)))
                        - One(Owns(x, n)) + One(Owns(y, n))
    /\ fill'[n].outstanding =
          fill[n].outstanding + (InQueue(queue', PlusJobs(n)) - InQueue(queue, PlusJobs(n)))
          - One(InPlay(x, n)) + One(InPlay(y, n))
    /\ Dispatches(y, n) => Dispatches(x, n) \/ Dispatchers(n) = 0
    /\ One(IsOver(n)') = One(IsOver(n)) - One(Finishes(x, n)) + One(Finishes(y, n))

\* A step about one request leaves the counts of the others.
LEMMA CountsOfOne ==
  ASSUME ServiceInv, ShapeOK', NEW n \in Requests, NEW t \in Threads,
         NEW x \in Tasks \cup {None}, x = at[t], NEW y \in Tasks \cup {None},
         at' = [at EXCEPT ![t] = y], OthersKept(n), IdleElsewhere(x, n), IdleElsewhere(y, n),
         SameQueueElsewhere(n), CountsMove(n, x, y)
  PROVE  CountInv'
  <1>1. ShapeOK /\ CountInv
    BY DEF ServiceInv
  <1>2. ASSUME NEW r \in Requests PROVE CountOK(r)'
    <2>1. /\ Owners(r)' = Owners(r) + (InQueue(queue', OwnJobs(r)) - InQueue(queue, OwnJobs(r)))
                          - One(Owns(x, r)) + One(Owns(y, r))
          /\ Uncounted(r)' = Uncounted(r) + (InQueue(queue', PlusJobs(r)) - InQueue(queue, PlusJobs(r)))
                             - One(InPlay(x, r)) + One(InPlay(y, r))
          /\ Dispatchers(r)' = Dispatchers(r) - One(Dispatches(x, r)) + One(Dispatches(y, r))
          /\ Finishers(r)' = Finishers(r) - One(Finishes(x, r)) + One(Finishes(y, r))
          /\ Owners(r) \in Nat /\ Uncounted(r) \in Nat /\ Dispatchers(r) \in Nat
          /\ Finishers(r) \in Nat
          /\ InQueue(queue, OwnJobs(r)) \in Nat /\ InQueue(queue, PlusJobs(r)) \in Nat
      BY <1>1, CountsStep
    <2>2. /\ Owners(r) = One(Waits(r)) /\ fill[r].outstanding = Uncounted(r)
          /\ Dispatchers(r) <= 1 /\ Finishers(r) = One(IsOver(r))
      BY <1>1 DEF CountInv, CountOK, Waits, IsOver
    <2>3. SUFFICES /\ Owners(r)' = One(Waits(r)') /\ fill'[r].outstanding = Uncounted(r)'
                   /\ Dispatchers(r)' <= 1 /\ Finishers(r)' = One(IsOver(r)')
      BY DEF CountOK, Waits, IsOver
    <2>4. CASE r = n
      <3>1. CountsMove(r, x, y)
        BY <2>4
      <3>2. Dispatchers(r)' <= 1
        BY <2>1, <2>2, <3>1 DEF CountsMove, One
      <3> QED
        BY <2>1, <2>2, <3>1, <3>2 DEF CountsMove
    <2>5. CASE r # n
      <3>1. req'[r] = req[r] /\ fill'[r] = fill[r]
        BY <2>5 DEF OthersKept
      <3>2. Idle(x, r) /\ Idle(y, r)
        BY <2>5 DEF IdleElsewhere
      <3>3. /\ InQueue(queue', OwnJobs(r)) = InQueue(queue, OwnJobs(r))
            /\ InQueue(queue', PlusJobs(r)) = InQueue(queue, PlusJobs(r))
        BY <2>5 DEF SameQueueElsewhere
      <3>4. (Waits(r)' <=> Waits(r)) /\ (IsOver(r)' <=> IsOver(r))
        BY <3>1 DEF Waits, IsOver
      <3>5. /\ Owners(r)' = Owners(r) /\ Uncounted(r)' = Uncounted(r)
            /\ Dispatchers(r)' = Dispatchers(r) /\ Finishers(r)' = Finishers(r)
        BY <2>1, <3>2, <3>3 DEF One, Idle
      <3> QED
        BY <2>2, <3>1, <3>4, <3>5 DEF One
    <2> QED
      BY <2>4, <2>5
  <1> QED
    BY <1>2 DEF CountInv

\* Without a change of the queue.
TaskMoves(n, x, y) ==
    /\ One(Waits(n)') = One(Waits(n)) - One(Owns(x, n)) + One(Owns(y, n))
    /\ fill'[n].outstanding = fill[n].outstanding - One(InPlay(x, n)) + One(InPlay(y, n))
    /\ Dispatches(y, n) => Dispatches(x, n) \/ Dispatchers(n) = 0
    /\ One(IsOver(n)') = One(IsOver(n)) - One(Finishes(x, n)) + One(Finishes(y, n))

\* A thread's step for its own request, with the queue as it is.
LEMMA ThreadKeeps ==
  ASSUME ServiceInv, ShapeOK', NEW n \in Requests, NEW t \in Threads,
         NEW x \in Tasks, x = at[t], x.r = n, NEW y \in Tasks \cup {None}, at' = [at EXCEPT ![t] = y],
         y = None \/ (y.r = n /\ TaskOK(y)'), OthersKept(n), UNCHANGED <<queue, next>>,
         slab \subseteq slab', req'[n].op = req[n].op, req'[n].gen = req[n].gen,
         RoundGoesOn(n, t) \/ fill[n].reply # "held" \/ Uncounted(n) = 0,
         RequestOK(n)', TaskMoves(n, x, y)
  PROVE  TaskInv' /\ RequestInv' /\ CountInv'
  <1>1. ShapeOK /\ CountInv /\ TaskInv
    BY DEF ServiceInv
  <1>2. RequestInv'
    BY RequestsStep DEF OthersKept
  <1>3. TaskInv'
    <2>1. next <= next' /\ next \in Nat /\ next' \in Nat
      BY <1>1 DEF ShapeOK
    <2>2. \A r \in Requests : r < next => req'[r].op = req[r].op
      BY DEF OthersKept
    <2>3. \A r \in Requests : InThreads(at, OwnTasks(r)) # 0 => req'[r].gen = req[r].gen
      BY DEF OthersKept
    <2>4. \A r \in Requests : RoundGoesOn(r, t) \/ fill[r].reply # "held" \/ Uncounted(r) = 0
      <3>1. \A r \in Requests : r # n => RoundGoesOn(r, t)
        BY <1>1, SameRounds DEF OthersKept
      <3> QED
        BY <3>1
    <2>5. \A u \in Threads : u # t /\ at[u] # None /\ at[u].pc = "reply" => at[u].r \in slab'
      BY <1>1 DEF TaskInv, TaskOK
    <2>6. \A u \in Threads : u # t => at'[u] = at[u]
      BY <1>1 DEF ShapeOK
    <2>7. \A z \in Tasks : z = at'[t] => TaskOK(z)'
      BY <1>1, FuseAssumption DEF ShapeOK
    <2>8. {} \in SUBSET Jobs /\ Elems(queue') \subseteq Elems(queue) \cup {} /\ \A j \in {} : JobOK(j)'
      BY DEF Elems
    <2> QED
      BY <2>1, <2>2, <2>3, <2>4, <2>5, <2>6, <2>7, <2>8, TasksStep
  <1>4. CountInv'
    <2>1. IdleElsewhere(x, n) /\ IdleElsewhere(y, n)
      BY DEF IdleElsewhere, Idle, Owns, InPlay, Dispatches, Finishes
    <2>2. SameQueueElsewhere(n)
      BY DEF SameQueueElsewhere
    <2>3. InQueue(queue, OwnJobs(n)) \in Nat /\ InQueue(queue, PlusJobs(n)) \in Nat
          /\ fill[n].outstanding \in Int
      BY <1>1, CountTypes DEF ShapeOK, Fills
    <2>4. CountsMove(n, x, y)
      BY <2>3 DEF CountsMove, TaskMoves, One
    <2> QED
      BY <2>1, <2>2, <2>4, CountsOfOne
  <1> QED
    BY <1>2, <1>3, <1>4

\* An answer, for good or ill.
Answers(q, p) ==
    /\ p.state \in {"answered", "failed"} /\ p.replies = q.replies + 1
    /\ p.op = q.op /\ p.gen = q.gen /\ p.entries = q.entries /\ p.fate = q.fate
    /\ p.listing # None => p.state = "answered" /\ p.listing.gen = q.gen
    /\ q.op = "readdirplus" => p.state = "failed"

\* A task that owns its request answers it, and is done with it.
LEMMA OwnerAnswers ==
  ASSUME ServiceInv, ShapeOK', NEW t \in Threads, NEW x \in Tasks, x = at[t], x.kind \in Solo,
         x.pc # "guard", NEW n \in Requests, n = x.r,
         NEW y \in Tasks \cup {None}, at' = [at EXCEPT ![t] = y],
         y = None \/ (y.r = n /\ y.pc = "guard" /\ y.kind = "read" /\ TaskOK(y)'),
         OthersKept(n), UNCHANGED <<queue, next, fill>>, slab \subseteq slab',
         Answers(req[n], req'[n]),
         open'[n] # None => open'[n].listing.gen = req[n].gen /\ req'[n].state = "answered"
  PROVE  TaskInv' /\ RequestInv' /\ CountInv'
  <1>1. ShapeOK /\ CountInv /\ RequestOK(n) /\ x # None /\ n \in Nat /\ next \in Nat
    BY SMTT(30), FuseAssumption DEF ServiceInv, RequestInv, ShapeOK, Requests
  <1>2. req[n].state = "sent" /\ fill[n].reply = "none"
    BY <1>1, OwnerOfRequest
  <1>3. RequestOK(n)'
    BY <1>1, <1>2 DEF RequestOK, Answers
  <1>4. TaskMoves(n, x, y)
    <2>1. fill[n].outstanding \in Int
      BY <1>1 DEF ShapeOK, Fills
    <2>2. Waits(n) /\ ~Waits(n)' /\ Owns(x, n) /\ ~Owns(y, n)
      BY <1>1, <1>2 DEF Waits, Owns, Answers
    <2>3. ~InPlay(x, n) /\ ~InPlay(y, n)
      BY DEF InPlay, Solo
    <2>4. ~Dispatches(y, n) /\ ~Finishes(y, n)
      BY DEF Dispatches, Finishes
    <2>5. ~Finishes(x, n)
      BY <1>1 DEF ServiceInv, TaskInv, TaskOK, StageOK, Finishes, Solo
    <2>6. IsOver(n)' <=> IsOver(n)
      BY DEF IsOver
    <2> QED
      BY <2>1, <2>2, <2>3, <2>4, <2>5, <2>6 DEF TaskMoves, One
  <1>5. y = None \/ (y.r = n /\ TaskOK(y)')
    OBVIOUS
  <1>6. req'[n].op = req[n].op /\ req'[n].gen = req[n].gen /\ UNCHANGED <<queue, next>>
    BY DEF Answers
  <1>7. RoundGoesOn(n, t) \/ fill[n].reply # "held" \/ Uncounted(n) = 0
    BY <1>2
  <1> QED
    BY <1>3, <1>4, <1>5, <1>6, <1>7, ThreadKeeps

\* A task that owns its request goes on with it.
LEMMA OwnerGoesOn ==
  ASSUME ServiceInv, ShapeOK', NEW t \in Threads, NEW x \in Tasks, x = at[t], x.kind \in Solo,
         NEW n \in Requests, n = x.r, NEW y \in Tasks \cup {None}, at' = [at EXCEPT ![t] = y],
         (x.pc = "guard" /\ y = None)
            \/ (x.pc # "guard" /\ y # None /\ y.pc # "guard" /\ y.kind = x.kind /\ y.r = n /\ TaskOK(y)'),
         UNCHANGED <<queue, next, req, fill, open>>, slab \subseteq slab'
  PROVE  TaskInv' /\ RequestInv' /\ CountInv'
  <1>1. ShapeOK /\ CountInv /\ RequestOK(n) /\ x # None /\ n \in Nat /\ next \in Nat
    BY SMTT(30), FuseAssumption DEF ServiceInv, RequestInv, ShapeOK, Requests
  <1>2. RequestOK(n)'
    BY <1>1 DEF RequestOK
  <1>3. TaskMoves(n, x, y)
    <2>1. fill[n].outstanding \in Int
      BY <1>1 DEF ShapeOK, Fills
    <2>2. (Waits(n)' <=> Waits(n)) /\ (IsOver(n)' <=> IsOver(n)) /\ (Owns(x, n) <=> Owns(y, n))
      BY <1>1 DEF Waits, IsOver, Owns
    <2>3. ~InPlay(x, n) /\ ~InPlay(y, n)
      BY DEF InPlay, Solo
    <2>4. y # None => StageOK(y)
      BY DEF TaskOK, StageOK
    <2>5. StageOK(x)
      BY <1>1 DEF ServiceInv, TaskInv, TaskOK
    <2>6. ~Dispatches(y, n) /\ ~Finishes(y, n) /\ ~Finishes(x, n)
      BY <2>4, <2>5 DEF StageOK, Finishes, Dispatches, Solo
    <2> QED
      BY <2>1, <2>2, <2>3, <2>6 DEF TaskMoves, One
  <1>4. y = None \/ (y.r = n /\ TaskOK(y)')
    OBVIOUS
  <1>5. RoundGoesOn(n, t) /\ OthersKept(n)
    BY <1>1, SameRounds DEF OthersKept
  <1>6. req'[n].op = req[n].op /\ req'[n].gen = req[n].gen
    OBVIOUS
  <1> QED
    BY <1>2, <1>3, <1>4, <1>5, <1>6, ThreadKeeps

\* What a reply does to the requests.
LEMMA ReplyEffect ==
  ASSUME ShapeOK, NEW r \in Requests, NEW s \in {"answered", "failed"}, req[r].listing = None,
         req[r].op = "readdirplus" => s = "failed"
  PROVE  /\ Answers(req[r], Reply(r, s)[r])
         /\ \A q \in Requests : q # r => Reply(r, s)[q] = req[q]
  <1>1. PICK p \in ReqStates : p = req[r]
    BY DEF ShapeOK
  <1>2. Reply(r, s)[r] = [p EXCEPT !.state = s, !.replies = @ + 1]
    BY <1>1 DEF Reply, ShapeOK
  <1>3. Answers(p, [p EXCEPT !.state = s, !.replies = @ + 1])
    BY <1>1 DEF Answers, ReqStates
  <1>4. \A q \in Requests : q # r => Reply(r, s)[q] = req[q]
    BY DEF Reply, ShapeOK
  <1> QED
    BY <1>1, <1>2, <1>3, <1>4

\* A request that waits has no listing yet.
LEMMA WaitsForAll ==
  ASSUME ServiceInv, NEW t \in Threads, NEW x \in Tasks, x = at[t], x.kind \in Solo, x.pc # "guard"
  PROVE  /\ x.r \in Requests /\ Waits(x.r) /\ req[x.r].listing = None /\ open[x.r] = None
         /\ req[x.r].op = OpOf(x.kind) /\ req[x.r] \in ReqStates /\ x # None
         /\ TaskOK(x) /\ x.r < next
  <1>1. ShapeOK /\ CountInv /\ x # None
    BY FuseAssumption DEF ServiceInv
  <1>2. x.r \in Requests /\ Waits(x.r)
    BY <1>1, OwnerOfRequest DEF Waits
  <1>3. RequestOK(x.r) /\ TaskOK(x) /\ req[x.r] \in ReqStates
    BY <1>1, <1>2 DEF ServiceInv, RequestInv, TaskInv, ShapeOK
  <1> QED
    BY <1>1, <1>2, <1>3 DEF RequestOK, TaskOK, Waits, Solo

(***************************************************************************)
(* Requests that one task answers.                                         *)
(***************************************************************************)
ServiceKept == TaskInv' /\ RequestInv' /\ CountInv'

\* getattr and read answer their own request, reply_open too.
LEMMA GetattrKeeps ==
  ASSUME ServiceInv, ShapeOK', NEW t \in Threads, RunGetattr(t) \/ RunRead(t) \/ reply_open(t)
  PROVE  ServiceKept
  <1>1. ShapeOK /\ at[t] # None /\ at[t].kind \in {"getattr", "read", "open"}
        /\ at[t].pc # "guard"
    BY DEF ServiceInv, RunGetattr, RunRead, reply_open, At
  <1>2. PICK x \in Tasks : x = at[t]
    BY <1>1 DEF ShapeOK
  <1>3. x.kind \in Solo
    BY <1>1, <1>2 DEF Solo
  <1>4. PICK n \in Requests : n = x.r
    BY <1>1, <1>2, <1>3, WaitsForAll
  <1>5. /\ req[n].listing = None /\ open[n] = None /\ req[n].op # "readdirplus" /\ TaskOK(x)
        /\ x.r < next
    BY <1>1, <1>2, <1>3, <1>4, WaitsForAll DEF OpOf
  <1>6. PICK s \in {"answered", "failed"} : req' = Reply(n, s)
    BY <1>2, <1>4 DEF RunGetattr, RunRead, reply_open, Errno
  <1>7. Answers(req[n], req'[n]) /\ \A r \in Requests : r # n => req'[r] = req[r]
    BY <1>1, <1>5, <1>6, ReplyEffect
  <1>8. UNCHANGED <<queue, next, fill, open, slab>>
    BY DEF RunGetattr, RunRead, reply_open
  <1>9. OthersKept(n) /\ slab \subseteq slab'
    BY <1>7, <1>8 DEF OthersKept
  <1>10. CASE Leave(t)
    <2>1. PICK y \in Tasks \cup {None} : y = None
      OBVIOUS
    <2>2. at' = [at EXCEPT ![t] = y]
      BY <1>10, <2>1 DEF Leave
    <2> QED
      BY <1>2, <1>1, <1>3, <1>4, <1>5, <1>7, <1>8, <1>9, <2>1, <2>2, OwnerAnswers DEF ServiceKept
  <1>11. CASE Goto(t, "guard") /\ x.kind = "read"
    <2>1. PICK y \in Tasks : /\ at' = [at EXCEPT ![t] = y] /\ y.kind = x.kind /\ y.r = n
                             /\ y.pc = "guard" /\ y.snap = x.snap /\ y.listing = x.listing
      <3>1. "guard" \in Pcs
        BY DEF Pcs
      <3> QED
        BY <1>1, <1>2, <1>4, <1>11, <3>1, GotoTask
    <2>2. TaskOK(y)'
      BY <1>4, <1>5, <1>8, <1>11, <2>1 DEF TaskOK, StageOK, Solo, Listers
    <2> QED
      BY <1>2, <1>1, <1>3, <1>4, <1>5, <1>7, <1>8, <1>9, <1>11, <2>1, <2>2, OwnerAnswers DEF ServiceKept
  <1> QED
    BY <1>2, <1>10, <1>11 DEF RunGetattr, RunRead, reply_open, At

\* open_handle goes on to its reply, or fails its request.
LEMMA OpenKeeps ==
  ASSUME ServiceInv, ShapeOK', NEW t \in Threads, OpenHandle(t)
  PROVE  ServiceKept
  <1>1. ShapeOK /\ at[t] # None /\ at[t].kind = "open" /\ at[t].pc = "run"
    BY DEF ServiceInv, OpenHandle, At
  <1>2. PICK x \in Tasks : x = at[t]
    BY <1>1 DEF ShapeOK
  <1>3. x.kind \in Solo /\ x.pc # "guard"
    BY <1>1, <1>2 DEF Solo
  <1>4. PICK n \in Requests : n = x.r
    BY <1>1, <1>2, <1>3, WaitsForAll
  <1>5. /\ req[n].listing = None /\ open[n] = None /\ req[n].op # "readdirplus" /\ TaskOK(x)
        /\ x.r < next /\ req[n].op = "open"
    BY <1>1, <1>2, <1>3, <1>4, WaitsForAll DEF OpOf
  <1>6. UNCHANGED <<queue, next, fill, open>>
    BY DEF OpenHandle
  <1>7. CASE slab' = slab \cup {at[t].r} /\ Goto(t, "reply") /\ UNCHANGED req
    <2>1. PICK y \in Tasks : /\ at' = [at EXCEPT ![t] = y] /\ y.kind = x.kind /\ y.r = n
                             /\ y.pc = "reply" /\ y.snap = x.snap /\ y.listing = x.listing
      <3>1. "reply" \in Pcs
        BY DEF Pcs
      <3> QED
        BY <1>1, <1>2, <1>4, <1>7, <3>1, GotoTask
    <2>2. n \in slab' /\ slab \subseteq slab'
      BY <1>2, <1>4, <1>7
    <2>3. TaskOK(y)'
      BY <1>1, <1>2, <1>4, <1>5, <1>6, <1>7, <2>1, <2>2 DEF TaskOK, StageOK, Solo, Listers, OpOf
    <2>4. y # None
      BY FuseAssumption
    <2> QED
      BY <1>2, <1>1, <1>3, <1>4, <1>6, <1>7, <2>1, <2>2, <2>3, <2>4, OwnerGoesOn DEF ServiceKept
  <1>8. CASE req' = Errno(at[t].r) /\ Leave(t) /\ UNCHANGED slab
    <2>1. Answers(req[n], req'[n]) /\ \A r \in Requests : r # n => req'[r] = req[r]
      BY <1>1, <1>2, <1>4, <1>5, <1>8, ReplyEffect DEF Errno
    <2>2. OthersKept(n) /\ slab \subseteq slab'
      BY <1>6, <1>8, <2>1 DEF OthersKept
    <2>3. PICK y \in Tasks \cup {None} : y = None
      OBVIOUS
    <2>4. at' = [at EXCEPT ![t] = y]
      BY <1>8, <2>3 DEF Leave
    <2> QED
      BY <1>2, <1>3, <1>4, <1>5, <1>6, <2>1, <2>2, <2>3, <2>4, OwnerAnswers DEF ServiceKept
  <1> QED
    BY <1>7, <1>8 DEF OpenHandle

\* Giving a read slot back answers nothing.
LEMMA DropSlotKeeps ==
  ASSUME ServiceInv, ShapeOK', NEW t \in Threads, DropSlot(t)
  PROVE  ServiceKept
  <1>1. ShapeOK /\ at[t] # None /\ at[t].kind = "read" /\ at[t].pc = "guard" /\ Leave(t)
    BY DEF ServiceInv, DropSlot, At
  <1>2. PICK x \in Tasks : x = at[t]
    BY <1>1 DEF ShapeOK
  <1>3. x.kind \in Solo /\ x.r \in Requests
    BY <1>1, <1>2, TaskTypes DEF Solo
  <1>4. PICK y \in Tasks \cup {None} : y = None
    OBVIOUS
  <1>5. at' = [at EXCEPT ![t] = y] /\ UNCHANGED <<queue, next, req, fill, open>> /\ slab \subseteq slab'
    BY <1>1, <1>4 DEF Leave, DropSlot
  <1>6. PICK n \in Requests : n = x.r
    BY <1>3
  <1> QED
    BY <1>1, <1>2, <1>3, <1>4, <1>5, <1>6, OwnerGoesOn DEF ServiceKept

(***************************************************************************)
(* Requests that are answered from a listing.                              *)
(***************************************************************************)

\* A round without tasks has no dispatcher.
LEMMA NoDispatchers ==
  ASSUME ServiceInv, NEW r \in Requests, Uncounted(r) = 0
  PROVE  Dispatchers(r) = 0
  <1>1. ShapeOK /\ InThreads(at, RoundTasks(r)) = 0
    BY CountsOfRequest DEF ServiceInv
  <1>2. \A t \in Threads : at[t] \notin DispatchTasks(r)
    <2> SUFFICES ASSUME NEW t \in Threads, at[t] \in DispatchTasks(r) PROVE FALSE
      OBVIOUS
    <2>1. at[t] \in Tasks /\ at[t] # None /\ at[t].pc = "dispatch" /\ at[t].r = r
      BY FuseAssumption DEF DispatchTasks
    <2>2. at[t].kind = "round"
      BY <2>1 DEF ServiceInv, TaskInv, TaskOK, StageOK, Tasks, Kinds
    <2>3. at[t] \in RoundTasks(r)
      BY <2>1, <2>2 DEF RoundTasks
    <2> QED
      BY <1>1, <2>3, CountedTask
  <1> QED
    BY <1>2, NoneCounted DEF Dispatchers

RoundFill(n, l, start) == fill' = [fill EXCEPT ![n] = spawn_plus_round(l, start)]

RoundBegun(n, l, start) ==
    /\ fill'[n].listing = l /\ fill'[n].start = start
    /\ fill'[n].upto = Min({start + READDIRPLUS_BATCH, Len(Entries)})
    /\ fill'[n].slots = {} /\ fill'[n].outstanding = 1 /\ fill'[n].reply = "held"
    /\ \A r \in Requests : r # n => fill'[r] = fill[r]

\* A round that begins counts its dispatcher alone.
LEMMA RoundBegins ==
  ASSUME ShapeOK, NEW n \in Requests, NEW l \in Listings, NEW start \in Nat,
         RoundFill(n, l, start)
  PROVE  RoundBegun(n, l, start)
  BY DEF RoundFill, RoundBegun, ShapeOK, spawn_plus_round, DispatcherCount

\* A round that begins has one task, its dispatcher.
RoundTask(y, n) ==
    /\ y # None /\ y.r = n /\ TaskOK(y)'
    /\ ~Owns(y, n) /\ InPlay(y, n) /\ Dispatches(y, n) /\ ~Finishes(y, n) /\ IdleElsewhere(y, n)

\* The dispatcher of a round starts before its first entry.
LEMMA RoundTaskBegins ==
  ASSUME NEW n \in Requests, n < next', NEW l, NEW start \in Nat, RoundBegun(n, l, start),
         NEW y \in Tasks, y = RoundOf(n, start)
  PROVE  RoundTask(y, n)
  <1>1. /\ y.kind = "round" /\ y.r = n /\ y.i = start + 1 /\ y.pc = "dispatch" /\ y.snap = None
        /\ y.listing = None
    BY DEF RoundOf, Doing, Job
  <1>2. y # None
    BY FuseAssumption
  <1>3. TaskOK(y)'
    BY <1>1 DEF RoundBegun, TaskOK, StageOK, Solo, Listers
  <1>4. /\ ~Owns(y, n) /\ InPlay(y, n) /\ Dispatches(y, n) /\ ~Finishes(y, n)
        /\ IdleElsewhere(y, n)
    BY <1>1, <1>2 DEF Owns, InPlay, Dispatches, Finishes, IdleElsewhere, Idle, Solo
  <1> QED
    BY <1>1, <1>2, <1>3, <1>4 DEF RoundTask

\* A listing, found or built, goes to the request that waits for it.
LEMMA ListingKeeps ==
  ASSUME ServiceInv, ShapeOK', NEW t \in Threads, NEW x \in Tasks, x = at[t],
         x.pc \in {"probe", "build"}, NEW l \in Listings, l.gen = x.snap.gen, WithListing(t, l),
         UNCHANGED <<queue, next, open, slab>>
  PROVE  ServiceKept
  <1>0. ShapeOK /\ CountInv /\ x # None /\ TaskOK(x)
    BY FuseAssumption DEF ServiceInv, TaskInv
  <1>1. x.kind \in {"opendir", "readdir", "plushead"}
    BY <1>0 DEF TaskOK, StageOK, Tasks, Kinds
  <1>2. x.kind \in Solo /\ x.kind \in Listers /\ x.pc # "guard"
    BY <1>1 DEF Solo, Listers
  <1>3. PICK n \in Requests : n = x.r
    BY <1>2, WaitsForAll
  <1>4. /\ req[n].listing = None /\ open[n] = None /\ Waits(n) /\ req[n].op = OpOf(x.kind)
        /\ x.r < next
    BY <1>2, <1>3, WaitsForAll
  <1>5. x.snap # None /\ x.snap.gen = req[n].gen
    BY <1>0, <1>2, <1>3 DEF TaskOK
  <1>6. CASE x.kind = "opendir"
    <2>1. at' = [at EXCEPT ![t].pc = "admit", ![t].listing = l] /\ UNCHANGED <<req, fill>>
      BY <1>6 DEF WithListing
    <2> DEFINE y == [x EXCEPT !.pc = "admit", !.listing = l]
    <2>2. at' = [at EXCEPT ![t] = y]
      BY <1>0, <2>1 DEF ShapeOK
    <2>3. /\ y \in Tasks /\ y.kind = x.kind /\ y.r = n /\ y.pc = "admit" /\ y.snap = x.snap
          /\ y.listing = l
      BY <1>3 DEF Tasks, Pcs
    <2> HIDE DEF y
    <2>4. l # None /\ y # None
      BY <2>3, FuseAssumption
    <2>5. TaskOK(y)'
      BY <1>3, <1>4, <1>5, <1>6, <2>1, <2>3, <2>4 DEF TaskOK, StageOK, Solo, Listers
    <2>6. slab \subseteq slab' /\ UNCHANGED <<queue, next, req, fill, open>>
      BY <2>1
    <2> QED
      BY <1>2, <1>3, <2>2, <2>3, <2>4, <2>5, <2>6, OwnerGoesOn DEF ServiceKept
  <1>7. CASE x.kind = "readdir"
    <2>1. req' = ReplyListing(n, l) /\ Leave(t) /\ UNCHANGED fill
      BY <1>3, <1>7 DEF WithListing
    <2>2. Answers(req[n], req'[n]) /\ \A r \in Requests : r # n => req'[r] = req[r]
      <3> DEFINE a == Reply(n, "answered")
      <3>1. req[n].op # "readdirplus"
        BY <1>4, <1>7 DEF OpOf
      <3>2. Answers(req[n], a[n]) /\ \A r \in Requests : r # n => a[r] = req[r]
        BY <1>0, <1>4, <3>1, ReplyEffect
      <3>3. a \in [Requests -> ReqStates]
        BY <1>0, ReplyTypes
      <3>4. req' = [a EXCEPT ![n].listing = l]
        BY <2>1 DEF ReplyListing
      <3>5. a[n].state = "answered"
        BY <1>0 DEF Reply, ShapeOK, ReqStates
      <3> HIDE DEF a
      <3>6. PICK p \in ReqStates : p = a[n]
        BY <3>3
      <3>7. req'[n] = [p EXCEPT !.listing = l] /\ \A r \in Requests : r # n => req'[r] = a[r]
        BY <3>3, <3>4, <3>6
      <3>8. Answers(req[n], [p EXCEPT !.listing = l])
        BY <1>5, <3>1, <3>2, <3>5, <3>6 DEF Answers, ReqStates
      <3> QED
        BY <3>2, <3>7, <3>8
    <2>3. OthersKept(n) /\ slab \subseteq slab'
      BY <2>1, <2>2 DEF OthersKept
    <2>4. PICK y \in Tasks \cup {None} : y = None
      OBVIOUS
    <2>5. at' = [at EXCEPT ![t] = y] /\ UNCHANGED <<queue, next, fill>>
      BY <2>1, <2>4 DEF Leave
    <2> QED
      BY <1>2, <1>3, <1>4, <2>2, <2>3, <2>4, <2>5, OwnerAnswers DEF ServiceKept
  <1>8. CASE x.kind = "plushead"
    <2>1. PICK start \in Nat : start = req[n].offset
      BY <1>0 DEF ShapeOK, ReqStates
    <2>2. /\ fill' = [fill EXCEPT ![n] = spawn_plus_round(l, start)]
          /\ at' = [at EXCEPT ![t] = RoundOf(n, start)] /\ UNCHANGED req
      BY <1>3, <1>8, <2>1 DEF WithListing
    <2>3. n < next' /\ RoundFill(n, l, start)
      BY <1>3, <1>4, <2>2 DEF RoundFill
    <2>y. PICK y \in Tasks : y = RoundOf(n, start)
      BY FreshTypes
    <2>b. RoundBegun(n, l, start)
      BY <1>0, <2>3, RoundBegins
    <2>5. /\ fill'[n].listing = l /\ fill'[n].start = start
          /\ fill'[n].upto = Min({start + READDIRPLUS_BATCH, Len(Entries)})
          /\ fill'[n].slots = {} /\ fill'[n].outstanding = 1 /\ fill'[n].reply = "held"
          /\ \A r \in Requests : r # n => fill'[r] = fill[r]
      BY <2>b DEF RoundBegun
    <2>t. RoundTask(y, n)
      BY <2>3, <2>y, <2>b, RoundTaskBegins
    <2>4. /\ y # None /\ y.r = n /\ TaskOK(y)'
          /\ ~Owns(y, n) /\ InPlay(y, n) /\ Dispatches(y, n) /\ ~Finishes(y, n)
          /\ IdleElsewhere(y, n)
      BY <2>t DEF RoundTask
    <2>6. RequestOK(n) /\ CountOK(n) /\ fill[n] = NoFill
      BY <1>0, <1>4 DEF ServiceInv, RequestInv, CountInv, RequestOK, Waits
    <2>7. fill[n].outstanding = 0 /\ Uncounted(n) = 0
      BY <2>6 DEF CountOK, NoFill
    <2>8. RequestOK(n)'
      <3>1. req'[n] = req[n] /\ open'[n] = open[n] /\ next' = next /\ l # None
        BY <2>2, FuseAssumption
      <3>2. /\ req[n].op = "readdirplus" /\ req[n].state = "sent" /\ req[n].entries = <<>>
            /\ \A i \in 1..Len(Entries) : req[n].fate[i] = "none"
        BY <1>4, <1>8, <2>6 DEF RequestOK, Waits, OpOf
      <3>3. PageOK(req'[n], fill'[n])
        <4>1. Len(req[n].entries) = 0 /\ req[n].page \in Nat /\ Len(Entries) \in Nat
          BY <1>0, <3>2, Bounds DEF ShapeOK, ReqStates
        <4> QED
          BY <1>5, <2>1, <2>5, <3>1, <3>2, <4>1 DEF PageOK
      <3> QED
        BY <1>4, <2>5, <2>6, <3>1, <3>2, <3>3 DEF RequestOK
    <2>9. TaskMoves(n, x, y)
      <3>1. Waits(n) /\ ~Waits(n)' /\ ~IsOver(n) /\ ~IsOver(n)'
        BY <1>4, <2>5 DEF Waits, IsOver
      <3>2. Owns(x, n) /\ ~InPlay(x, n)
        BY <1>0, <1>2, <1>3, <1>8 DEF Owns, InPlay
      <3>3. ~Finishes(x, n) /\ Dispatchers(n) = 0
        BY <1>0, <1>8, <2>7, NoDispatchers DEF Finishes, TaskOK, StageOK
      <3> QED
        BY <2>4, <2>5, <2>7, <3>1, <3>2, <3>3 DEF TaskMoves, One
    <2>10. OthersKept(n) /\ slab \subseteq slab' /\ UNCHANGED <<queue, next>>
      BY <2>2, <2>5 DEF OthersKept
    <2>11. at' = [at EXCEPT ![t] = y] /\ req'[n].op = req[n].op /\ req'[n].gen = req[n].gen
      BY <2>2, <2>y
    <2>12. y = None \/ (y.r = n /\ TaskOK(y)')
      BY <2>4
    <2> QED
      BY <1>3, <2>7, <2>8, <2>9, <2>10, <2>11, <2>12, ThreadKeeps DEF ServiceKept
  <1> QED
    BY <1>1, <1>6, <1>7, <1>8

\* The mount, a thread or the index holds the tree of generation g at
\* address a.
HeldGen(a, g) ==
    \/ tree.addr = a /\ tree.gen = g
    \/ \E t \in Threads : /\ at[t] # None /\ at[t].snap # None
                          /\ at[t].snap.addr = a /\ at[t].snap.gen = g
    \/ shared[a] # None /\ shared[a].listing.gen = g

\* An address that is held is of one generation.
GenInv == \A a \in Addrs : \A g, h : HeldGen(a, g) /\ HeldGen(a, h) => g = h

\* What is found in the index for a pinned tree is of its generation.
LEMMA FoundGen ==
  ASSUME ServiceInv, GenInv, NEW t \in Threads, NEW x \in Tasks, x = at[t], x.snap # None,
         NEW l \in Listings, l.gen = x.snap.gen
  PROVE  /\ x.snap \in Trees /\ x.snap.addr \in Addrs
         /\ shared_listing(x.snap.addr) \in Listings \cup {None}
         /\ shared_listing(x.snap.addr) # None => shared_listing(x.snap.addr).gen = x.snap.gen
         /\ Indexed(x.snap.addr, l) \in Listings /\ Indexed(x.snap.addr, l).gen = x.snap.gen
  <1>1. ShapeOK /\ x # None
    BY FuseAssumption DEF ServiceInv
  <1>2. x.snap \in Trees /\ x.snap.addr \in Addrs
    BY DEF Tasks, Trees
  <1>3. PICK a \in Addrs : a = x.snap.addr
    BY <1>2
  <1>4. HeldGen(a, x.snap.gen)
    BY <1>1, <1>3 DEF HeldGen
  <1>5. shared[a] # None => shared[a].listing.gen = x.snap.gen
    BY <1>4 DEF GenInv, HeldGen
  <1>6. shared_listing(a) \in Listings \cup {None} /\ Indexed(a, l) \in Listings
    BY <1>1, SharedTypes
  <1>7. shared_listing(a) # None => shared_listing(a).gen = x.snap.gen
    BY <1>5 DEF shared_listing
  <1>8. Indexed(a, l).gen = x.snap.gen
    BY <1>7 DEF Indexed
  <1> QED
    BY <1>2, <1>3, <1>6, <1>7, <1>8

\* A task that lists has a listing of its tree's generation to hand.
LEMMA ListerOK ==
  ASSUME ServiceInv, NEW t \in Threads, NEW x \in Tasks, x = at[t],
         x.pc \in {"probe", "build", "admit"}
  PROVE  /\ x.kind \in Listers /\ x.kind \in Solo /\ x.pc # "guard" /\ x # None /\ TaskOK(x)
         /\ x.snap # None /\ x.snap \in Trees
         /\ \E l \in Listings : l.gen = x.snap.gen
  <1>1. TaskOK(x) /\ x # None
    BY FuseAssumption DEF ServiceInv, TaskInv
  <1>2. x.kind \in Listers /\ x.kind \in Solo
    BY <1>1 DEF TaskOK, StageOK, Tasks, Kinds, Listers, Solo
  <1>3. x.snap # None /\ x.snap \in Trees
    BY <1>1, <1>2 DEF TaskOK, Tasks
  <1>4. [id |-> 0, gen |-> x.snap.gen] \in Listings
    BY <1>3 DEF Trees, Listings
  <1> QED
    BY <1>1, <1>2, <1>3, <1>4

\* A listing found by its address is of the tree the thread holds.
LEMMA ProbeKeeps ==
  ASSUME ServiceInv, GenInv, ShapeOK', NEW t \in Threads, Probe(t)
  PROVE  ServiceKept
  <1>1. ShapeOK /\ at[t] # None /\ at[t].pc = "probe"
    BY DEF ServiceInv, Probe
  <1>2. PICK x \in Tasks : x = at[t]
    BY <1>1 DEF ShapeOK
  <1>3. /\ x.kind \in Listers /\ x.kind \in Solo /\ x.pc # "guard" /\ x.snap # None /\ TaskOK(x)
        /\ x.snap \in Trees
    BY <1>1, <1>2, ListerOK
  <1>4. PICK l0 \in Listings : l0.gen = x.snap.gen
    BY <1>1, <1>2, ListerOK
  <1>5. PICK l : l = shared_listing(x.snap.addr)
    OBVIOUS
  <1>6. l \in Listings \cup {None} /\ (l # None => l.gen = x.snap.gen)
    BY <1>2, <1>3, <1>4, <1>5, FoundGen
  <1>7. UNCHANGED <<queue, next, open, slab>>
    BY DEF Probe
  <1>8. CASE l = None
    <2>1. Goto(t, "build") /\ UNCHANGED <<req, fill>>
      BY <1>2, <1>5, <1>8 DEF Probe
    <2>2. PICK n \in Requests : n = x.r
      BY <1>2, <1>3, WaitsForAll
    <2>3. PICK y \in Tasks : /\ at' = [at EXCEPT ![t] = y] /\ y # None /\ y.kind = x.kind /\ y.r = n
                             /\ y.pc = "build" /\ y.snap = x.snap /\ y.listing = x.listing
      <3>1. "build" \in Pcs
        BY DEF Pcs
      <3> QED
        BY <1>1, <1>2, <2>1, <2>2, <3>1, GotoTask
    <2>4. TaskOK(y)'
      BY <1>1, <1>2, <1>3, <1>7, <2>1, <2>2, <2>3 DEF TaskOK, StageOK, Solo, Listers
    <2> QED
      BY <1>2, <1>3, <1>7, <2>1, <2>2, <2>3, <2>4, OwnerGoesOn DEF ServiceKept
  <1>9. CASE l # None
    <2>1. WithListing(t, l)
      BY <1>2, <1>5, <1>9 DEF Probe
    <2> QED
      BY <1>1, <1>2, <1>6, <1>7, <1>9, <2>1, ListingKeeps
  <1> QED
    BY <1>8, <1>9

\* A listing that was built is of the pinned tree.
LEMMA BuildKeeps ==
  ASSUME ServiceInv, ShapeOK', NEW t \in Threads, build_dir_listing(t)
  PROVE  ServiceKept
  <1>1. ShapeOK /\ at[t] # None /\ at[t].pc = "build"
    BY DEF ServiceInv, build_dir_listing
  <1>2. PICK x \in Tasks : x = at[t]
    BY <1>1 DEF ShapeOK
  <1>3. x.kind \in Solo /\ x.pc # "guard" /\ x.snap \in Trees
    BY <1>1, <1>2, ListerOK
  <1>4. UNCHANGED <<queue, next, open, slab>>
    BY DEF build_dir_listing
  <1>5. CASE WithListing(t, [id |-> made + 1, gen |-> at[t].snap.gen])
    <2>1. PICK l \in Listings : l = [id |-> made + 1, gen |-> x.snap.gen]
      <3>1. made + 1 \in Nat /\ x.snap.gen \in Nat
        BY <1>1, <1>3 DEF ShapeOK, Trees
      <3> QED
        BY <3>1 DEF Listings
    <2>2. l.gen = x.snap.gen
      BY <2>1
    <2>3. WithListing(t, l)
      BY <1>2, <1>5, <2>1
    <2> QED
      BY <1>1, <1>2, <1>4, <2>2, <2>3, ListingKeeps
  <1>6. CASE req' = Errno(at[t].r) /\ Leave(t) /\ UNCHANGED <<fill, made>>
    <2>1. PICK n \in Requests : n = x.r
      BY <1>2, <1>3, WaitsForAll
    <2>2. req[n].listing = None /\ open[n] = None
      BY <1>2, <1>3, <2>1, WaitsForAll
    <2>3. Answers(req[n], req'[n]) /\ \A r \in Requests : r # n => req'[r] = req[r]
      BY <1>1, <1>2, <1>6, <2>1, <2>2, ReplyEffect DEF Errno
    <2>4. OthersKept(n) /\ slab \subseteq slab' /\ UNCHANGED <<queue, next, fill>>
      BY <1>4, <1>6, <2>3 DEF OthersKept
    <2>5. PICK y \in Tasks \cup {None} : y = None
      OBVIOUS
    <2>6. at' = [at EXCEPT ![t] = y]
      BY <1>6, <2>5 DEF Leave
    <2> QED
      BY <1>2, <1>3, <1>4, <2>1, <2>2, <2>3, <2>4, <2>5, <2>6, OwnerAnswers DEF ServiceKept
  <1> QED
    BY <1>5, <1>6 DEF build_dir_listing

\* An opendir is answered with the listing its handle has.
LEMMA AdmitKeeps ==
  ASSUME ServiceInv, GenInv, ShapeOK', NEW t \in Threads, Admit(t)
  PROVE  ServiceKept
  <1>1. ShapeOK /\ at[t] # None /\ at[t].pc = "admit" /\ at[t].kind = "opendir"
    BY DEF ServiceInv, Admit, At
  <1>2. PICK x \in Tasks : x = at[t]
    BY <1>1 DEF ShapeOK
  <1>3. x.kind \in Solo /\ x.pc # "guard" /\ x.snap \in Trees /\ x.snap # None /\ TaskOK(x)
    BY <1>1, <1>2, ListerOK
  <1>4. PICK n \in Requests : n = x.r
    BY <1>2, <1>3, WaitsForAll
  <1>5. req[n].listing = None /\ open[n] = None /\ req[n].op = "opendir" /\ req[n] \in ReqStates
    BY <1>1, <1>2, <1>3, <1>4, WaitsForAll DEF OpOf
  <1>6. PICK l \in Listings : l = x.listing /\ l.gen = x.snap.gen
    BY <1>1, <1>2, <1>3 DEF TaskOK, Tasks
  <1>7. PICK a \in Addrs : a = x.snap.addr
    BY <1>3 DEF Trees
  <1>8. PICK m \in Listings : m = Indexed(a, l) /\ m.gen = x.snap.gen
    BY <1>2, <1>3, <1>6, <1>7, FoundGen
  <1>9. x.snap.gen = req[n].gen
    BY <1>1, <1>2, <1>3, <1>4 DEF TaskOK, Listers
  <1>10. try_admit_dir_handle(n, a, l)
    BY <1>2, <1>4, <1>6, <1>7 DEF Admit
  <1>11. /\ open'[n] = None \/ (open'[n] # None /\ open'[n].listing = m)
         /\ \A r \in Requests : r # n => open'[r] = open[r]
    <2>1. CASE UNCHANGED <<open, shared>>
      BY <1>5, <2>1
    <2>2. CASE open' = [open EXCEPT ![n] = [key |-> a, listing |-> Indexed(a, l)]]
      <3>1. [key |-> a, listing |-> m] \in OpenDirs
        BY DEF OpenDirs
      <3>2. [key |-> a, listing |-> m] # None
        BY <3>1, FuseAssumption
      <3> QED
        BY <1>1, <1>8, <2>2, <3>2 DEF ShapeOK
    <2> QED
      BY <1>10, <2>1, <2>2 DEF try_admit_dir_handle
  <1>12. PICK k \in Listings : k = (IF open'[n] = None THEN x.listing ELSE open'[n].listing) /\ k.gen = req[n].gen
    BY <1>6, <1>8, <1>9, <1>11
  <1>13. PICK fh : fh = dir_open_fh(n)
    OBVIOUS
  <1>14. req' = [Reply(n, "answered") EXCEPT ![n].fh = fh, ![n].listing = k]
    BY <1>2, <1>4, <1>12, <1>13 DEF Admit
  <1>15. Answers(req[n], req'[n]) /\ \A r \in Requests : r # n => req'[r] = req[r]
    <2> DEFINE p == Reply(n, "answered")
    <2>1. Answers(req[n], p[n]) /\ \A r \in Requests : r # n => p[r] = req[r]
      BY <1>1, <1>5, ReplyEffect
    <2>2. p \in [Requests -> ReqStates]
      BY <1>1, ReplyTypes
    <2>3. p[n].state = "answered"
      BY <1>1 DEF Reply, ShapeOK, ReqStates
    <2>4. req' = [p EXCEPT ![n].fh = fh, ![n].listing = k]
      BY <1>14
    <2> HIDE DEF p
    <2>5. PICK q \in ReqStates : q = p[n]
      BY <2>2
    <2>6. req'[n] = [q EXCEPT !.fh = fh, !.listing = k] /\ \A r \in Requests : r # n => req'[r] = p[r]
      BY <2>2, <2>4, <2>5
    <2>7. Answers(req[n], [q EXCEPT !.fh = fh, !.listing = k])
      BY <1>5, <1>12, <2>1, <2>3, <2>5 DEF Answers, ReqStates
    <2> QED
      BY <2>1, <2>6, <2>7
  <1>16. UNCHANGED <<queue, next, fill, slab>> /\ slab \subseteq slab'
    BY DEF Admit
  <1>17. OthersKept(n)
    BY <1>11, <1>15, <1>16 DEF OthersKept
  <1>18. open'[n] # None => open'[n].listing.gen = req[n].gen /\ req'[n].state = "answered"
    <2>1. req'[n].listing = k /\ k # None
      <3>1. PICK q : q = Reply(n, "answered")[n]
        OBVIOUS
      <3>2. Reply(n, "answered") \in [Requests -> ReqStates]
        BY <1>1, ReplyTypes
      <3> HIDE DEF Reply
      <3>3. req'[n] = [q EXCEPT !.fh = fh, !.listing = k] /\ q \in ReqStates
        BY <1>14, <3>1, <3>2
      <3> QED
        BY <3>3, FuseAssumption DEF ReqStates
    <2> QED
      BY <1>8, <1>9, <1>11, <1>15, <2>1 DEF Answers
  <1>19. PICK y \in Tasks \cup {None} : y = None
    OBVIOUS
  <1>20. at' = [at EXCEPT ![t] = y]
    BY <1>19 DEF Admit, Leave
  <1> QED
    BY <1>2, <1>3, <1>4, <1>15, <1>16, <1>17, <1>18, <1>19, <1>20, OwnerAnswers DEF ServiceKept

(***************************************************************************)
(* Rounds.                                                                 *)
(***************************************************************************)

\* Where a round ends.
LEMMA RoundEnd ==
  \A s, e \in Nat : e = Min({s + READDIRPLUS_BATCH, Len(Entries)}) =>
      e <= Len(Entries) /\ Len(Entries) \in Nat /\ (e < Len(Entries) => e > s)
  <1> SUFFICES ASSUME NEW s \in Nat, NEW e \in Nat, e = Min({s + READDIRPLUS_BATCH, Len(Entries)})
      PROVE e <= Len(Entries) /\ Len(Entries) \in Nat /\ (e < Len(Entries) => e > s)
    OBVIOUS
  <1>1. PICK a, b \in Int : a = s + READDIRPLUS_BATCH /\ b = Len(Entries)
    BY Bounds
  <1>2. e = Min({a, b})
    BY <1>1
  <1>3. e = IF a <= b THEN a ELSE b
    BY <1>2, MinOfTwo
  <1> QED
    BY <1>1, <1>3, Bounds

\* A round that is not in flight counts nothing.
LEMMA NoRoundNoCount ==
  ASSUME NEW r \in Requests, RequestOK(r), fill[r] \in Fills, fill[r].outstanding # 0
  PROVE  fill[r].reply = "held" /\ PageOK(req[r], fill[r])
  <1>1. CASE fill[r].reply = "none"
    BY <1>1 DEF RequestOK, NoFill
  <1>2. CASE fill[r].reply = "sent"
    <2>1. fill[r] = [NoFill EXCEPT !.reply = "sent"]
      BY <1>2 DEF RequestOK
    <2>2. [NoFill EXCEPT !.reply = "sent"].outstanding = 0
      BY DEF NoFill
    <2>3. fill[r].outstanding = 0
      BY <2>1, <2>2, Zenon
    <2> QED
      BY <2>3
  <1>3. CASE fill[r].reply = "held"
    BY <1>3 DEF RequestOK
  <1> QED
    BY <1>1, <1>2, <1>3 DEF Fills

\* An entry of the round in flight is settled: its page stays sound.
LEMMA SettlesEntry ==
  ASSUME ServiceInv, ShapeOK', NEW n \in Requests, NEW i \in Nat, InRound(n, i), NEW v \in Fates,
         req' = [req EXCEPT ![n].fate[i] = v], UNCHANGED <<next, open>>,
         fill'[n].reply = "held", fill'[n].start = fill[n].start, fill'[n].upto = fill[n].upto,
         fill'[n].listing = fill[n].listing, fill'[n].outstanding = fill[n].outstanding,
         fill[n].slots \subseteq fill'[n].slots, v = "resolved" => i \in fill'[n].slots
  PROVE  /\ RequestOK(n)' /\ req'[n].op = req[n].op /\ req'[n].gen = req[n].gen
         /\ req'[n].state = req[n].state
         /\ \A r \in Requests : r # n => req'[r] = req[r]
  <1>1. ShapeOK /\ RequestOK(n) /\ PageOK(req[n], fill[n])
    BY DEF ServiceInv, RequestInv, InRound, RequestOK
  <1>2. PICK q \in ReqStates : q = req[n]
    BY <1>1 DEF ShapeOK
  <1>3. PICK p \in ReqStates : p = [q EXCEPT !.fate = [q.fate EXCEPT ![i] = v]]
    BY DEF ReqStates
  <1>4. req' = [req EXCEPT ![n] = p]
    BY <1>1, <1>2, <1>3, FateTypes
  <1>5. req'[n] = p /\ \A r \in Requests : r # n => req'[r] = req[r]
    BY <1>1, <1>4 DEF ShapeOK
  <1>6. /\ p.op = q.op /\ p.gen = q.gen /\ p.state = q.state /\ p.entries = q.entries
        /\ p.offset = q.offset /\ p.page = q.page /\ p.listing = q.listing /\ p.replies = q.replies
        /\ \A j \in 1..Len(Entries) : p.fate[j] = (IF j = i THEN v ELSE q.fate[j])
    BY <1>3 DEF ReqStates
  <1>7. PICK f \in Fills : f = fill[n]
    BY <1>1 DEF ShapeOK
  <1>8. PICK g \in Fills : g = fill'[n]
    BY DEF ShapeOK
  <1>9. /\ f.start \in Nat /\ f.upto \in Nat /\ q.offset \in Nat /\ Len(q.entries) \in Nat
        /\ f.start < i /\ i <= f.upto /\ f.start = q.offset + Len(q.entries)
        /\ f.start <= q.offset \/ f.start <= Len(Entries)
        /\ f.upto = Min({f.start + READDIRPLUS_BATCH, Len(Entries)})
    <2>1. f.start \in Nat /\ f.upto \in Nat /\ q.offset \in Nat /\ Len(q.entries) \in Nat
      BY DEF Fills, ReqStates
    <2>2. f.start < i /\ i <= f.upto
      BY <1>7 DEF InRound
    <2>3. PageOK(q, f)
      BY <1>1, <1>2, <1>7
    <2> QED
      BY <2>1, <2>2, <2>3 DEF PageOK
  <1>10. f.upto <= Len(Entries) /\ Len(Entries) \in Nat
    BY <1>9, RoundEnd
  <1>11. PageOK(p, g)
    <2>1. \A k \in 1..Len(p.entries) :
            /\ p.entries[k].i = p.offset + k
            /\ p.entries[k].attr = "attrs" <=> p.fate[p.offset + k] = "resolved"
      <3> SUFFICES ASSUME NEW k \in 1..Len(q.entries)
                   PROVE  /\ q.entries[k].i = q.offset + k
                          /\ q.entries[k].attr = "attrs" <=> p.fate[q.offset + k] = "resolved"
        BY <1>6
      <3>1. /\ q.entries[k].i = q.offset + k
            /\ q.entries[k].attr = "attrs" <=> q.fate[q.offset + k] = "resolved"
        BY <1>1, <1>2 DEF PageOK
      <3>2. q.offset + k \in 1..Len(Entries) /\ q.offset + k # i
        BY SMTT(30), <1>9, <1>10
      <3> QED
        BY <1>6, <3>1, <3>2
    <2>2. \A j \in 1..Len(Entries) :
             /\ (j > g.start /\ p.fate[j] = "resolved") => j \in g.slots
             /\ j > g.upto => p.fate[j] = "none"
      <3> SUFFICES ASSUME NEW j \in 1..Len(Entries)
                   PROVE  /\ (j > f.start /\ p.fate[j] = "resolved") => j \in g.slots
                          /\ j > f.upto => p.fate[j] = "none"
        BY <1>7, <1>8
      <3>1. /\ (j > f.start /\ q.fate[j] = "resolved") => j \in f.slots
            /\ j > f.upto => q.fate[j] = "none"
        BY <1>1, <1>2, <1>7 DEF PageOK
      <3>2. CASE j = i
        BY <1>6, <1>8, <1>9, <3>2
      <3>3. CASE j # i
        BY <1>6, <1>7, <1>8, <3>1, <3>3
      <3> QED
        BY <3>2, <3>3
    <2> QED
      BY <1>1, <1>2, <1>6, <1>7, <1>8, <2>1, <2>2 DEF PageOK
  <1>12. RequestOK(n)'
    <2>1. /\ q.state = "sent" /\ p.state = "sent" /\ g.reply = "held" /\ next' = next
          /\ open'[n] = open[n] /\ q = req[n] /\ p = req'[n] /\ g = fill'[n]
      BY <1>1, <1>2, <1>5, <1>6, <1>8 DEF PageOK
    <2>2. /\ q.state = "unsent" <=> n >= next
          /\ q.replies = 0
          /\ q.listing = None /\ open[n] = None
      BY <1>1, <2>1 DEF RequestOK
    <2> QED
      BY <1>6, <1>11, <2>1, <2>2 DEF RequestOK
  <1> QED
    BY <1>2, <1>5, <1>6, <1>12

\* A task fills the slot of its own entry.
LEMMA ResolveKeeps ==
  ASSUME ServiceInv, ShapeOK', NEW t \in Threads, ResolveEntry(t)
  PROVE  ServiceKept
  <1>1. ShapeOK /\ at[t] # None /\ at[t].kind = "plus" /\ at[t].pc = "run" /\ Goto(t, "guard")
    BY DEF ServiceInv, ResolveEntry, At
  <1>2. PICK x \in Tasks : x = at[t]
    BY <1>1 DEF ShapeOK
  <1>3. TaskOK(x) /\ InRound(x.r, x.i) /\ x.i \in Nat
    BY <1>1, <1>2 DEF ServiceInv, TaskInv, TaskOK, Tasks
  <1>4. PICK n \in Requests : n = x.r
    BY <1>1, <1>2, TaskTypes
  <1>5. PICK i \in Nat : i = x.i
    BY <1>3
  <1>6. PICK v \in {"resolved", "error"} : req' = [req EXCEPT ![n].fate[i] = v]
    BY <1>2, <1>4, <1>5 DEF ResolveEntry
  <1>7. fill' = [fill EXCEPT ![n].slots = @ \cup {i}] /\ UNCHANGED <<queue, next, open, slab>>
    BY <1>2, <1>4, <1>5 DEF ResolveEntry
  <1>8. /\ fill'[n].reply = "held" /\ fill'[n].start = fill[n].start /\ fill'[n].upto = fill[n].upto
        /\ fill'[n].listing = fill[n].listing /\ fill'[n].outstanding = fill[n].outstanding
        /\ fill'[n].slots = fill[n].slots \cup {i}
        /\ \A r \in Requests : r # n => fill'[r] = fill[r]
    BY <1>1, <1>3, <1>4, <1>7 DEF ShapeOK, Fills, InRound
  <1>9. /\ RequestOK(n)' /\ req'[n].op = req[n].op /\ req'[n].gen = req[n].gen
        /\ req'[n].state = req[n].state
        /\ \A r \in Requests : r # n => req'[r] = req[r]
    <2>1. v \in Fates /\ InRound(n, i) /\ UNCHANGED <<next, open>>
      BY <1>3, <1>4, <1>5, <1>7 DEF Fates
    <2> QED
      BY <1>6, <1>8, <2>1, SettlesEntry
  <1>10. PICK y \in Tasks : /\ at' = [at EXCEPT ![t] = y] /\ y # None /\ y.kind = x.kind /\ y.r = n
                            /\ y.i = i /\ y.pc = "guard" /\ y.snap = x.snap /\ y.listing = x.listing
    <2>1. "guard" \in Pcs
      BY DEF Pcs
    <2> QED
      BY <1>1, <1>2, <1>4, <1>5, <2>1, GotoTask
  <1>11. TaskOK(y)'
    BY <1>1, <1>2, <1>3, <1>4, <1>5, <1>7, <1>8, <1>10 DEF TaskOK, StageOK, Solo, Listers, InRound
  <1>12. OthersKept(n) /\ slab \subseteq slab'
    BY <1>7, <1>8, <1>9 DEF OthersKept
  <1>13. RoundGoesOn(n, t)
    BY <1>1, <1>3, <1>4, <1>8 DEF RoundGoesOn, InRound, ShapeOK, Fills
  <1>14. TaskMoves(n, x, y)
    <2>1. fill[n].outstanding \in Int
      BY <1>1 DEF ShapeOK, Fills
    <2>2. (Waits(n)' <=> Waits(n)) /\ (IsOver(n)' <=> IsOver(n))
      BY <1>3, <1>4, <1>8, <1>9 DEF Waits, IsOver, InRound
    <2>3. /\ ~Owns(x, n) /\ ~Owns(y, n) /\ InPlay(x, n) /\ InPlay(y, n)
          /\ ~Dispatches(y, n) /\ ~Finishes(x, n) /\ ~Finishes(y, n)
      BY <1>1, <1>2, <1>4, <1>10 DEF Owns, InPlay, Dispatches, Finishes, Solo
    <2> QED
      BY <1>8, <2>1, <2>2, <2>3 DEF TaskMoves, One
  <1> QED
    BY <1>2, <1>4, <1>7, <1>9, <1>10, <1>11, <1>12, <1>13, <1>14, ThreadKeeps DEF ServiceKept

\* A task counts itself out once; the last one stays to finish.
LEMMA SlotKeeps ==
  ASSUME ServiceInv, ShapeOK', NEW t \in Threads, PlusSlot(t)
  PROVE  ServiceKept
  <1>1. ShapeOK /\ CountInv /\ at[t] # None /\ at[t].kind \in {"plus", "round"} /\ at[t].pc = "guard"
    BY DEF ServiceInv, PlusSlot, At
  <1>2. PICK x \in Tasks : x = at[t]
    BY <1>1 DEF ShapeOK
  <1>3. TaskOK(x)
    BY <1>1, <1>2 DEF ServiceInv, TaskInv
  <1>4. PICK n \in Requests : n = x.r
    BY <1>1, <1>2, TaskTypes
  <1>5. fill[n].outstanding >= 1 /\ fill[n].outstanding \in Int
    <2>1. fill[n].outstanding >= 1
      BY <1>1, <1>2, <1>4, RoundOfTask
    <2> QED
      BY <1>1, <2>1 DEF ShapeOK, Fills
  <1>6. RequestOK(n) /\ fill[n].reply = "held"
    <2>1. RequestOK(n) /\ fill[n] \in Fills
      BY <1>1 DEF ServiceInv, RequestInv, ShapeOK
    <2> QED
      BY <1>5, <2>1, NoRoundNoCount
  <1>7. /\ fill' = [fill EXCEPT ![n].outstanding = @ - 1] /\ UNCHANGED <<req, queue, next, open, slab>>
        /\ IF fill[n].outstanding = 1 THEN Goto(t, "finish") ELSE Leave(t)
    BY <1>2, <1>4 DEF PlusSlot, CountsOut
  <1>8. /\ fill'[n].reply = "held" /\ fill'[n].start = fill[n].start /\ fill'[n].upto = fill[n].upto
        /\ fill'[n].listing = fill[n].listing /\ fill'[n].outstanding = fill[n].outstanding - 1
        /\ fill'[n].slots = fill[n].slots
        /\ \A r \in Requests : r # n => fill'[r] = fill[r]
    BY <1>1, <1>6, <1>7 DEF ShapeOK, Fills
  <1>9. RequestOK(n)'
    <2>1. PageOK(req[n], fill'[n])
      BY <1>5, <1>6, <1>8, Bounds DEF RequestOK, PageOK
    <2> QED
      BY <1>6, <1>7, <1>8, <2>1 DEF RequestOK
  <1>10. OthersKept(n) /\ slab \subseteq slab' /\ UNCHANGED <<queue, next>>
         /\ req'[n].op = req[n].op /\ req'[n].gen = req[n].gen
    BY <1>7, <1>8 DEF OthersKept
  <1>11. RoundGoesOn(n, t)
    BY <1>5, <1>6, <1>8 DEF RoundGoesOn
  <1>12. /\ ~Owns(x, n) /\ InPlay(x, n) /\ ~Finishes(x, n) /\ ~IsOver(n)
         /\ (Waits(n)' <=> Waits(n)) /\ (IsOver(n)' <=> fill[n].outstanding = 1)
    BY <1>1, <1>2, <1>4, <1>5, <1>6, <1>7, <1>8 DEF Owns, InPlay, Finishes, Solo, Waits, IsOver
  <1>13. CASE fill[n].outstanding = 1
    <2>1. PICK y \in Tasks : /\ at' = [at EXCEPT ![t] = y] /\ y # None /\ y.kind = x.kind /\ y.r = n
                             /\ y.pc = "finish" /\ y.snap = x.snap /\ y.listing = x.listing
      <3>1. "finish" \in Pcs
        BY DEF Pcs
      <3> QED
        BY <1>1, <1>2, <1>4, <1>7, <1>13, <3>1, GotoTask
    <2>2. TaskOK(y)'
      BY <1>1, <1>2, <1>3, <1>4, <1>7, <2>1 DEF TaskOK, StageOK, Solo, Listers
    <2>3. ~Owns(y, n) /\ ~InPlay(y, n) /\ ~Dispatches(y, n) /\ Finishes(y, n)
      BY <1>1, <1>2, <1>4, <2>1 DEF Owns, InPlay, Dispatches, Finishes, Solo
    <2>4. TaskMoves(n, x, y)
      BY <1>5, <1>8, <1>12, <1>13, <2>3 DEF TaskMoves, One
    <2> QED
      BY <1>2, <1>4, <1>9, <1>10, <1>11, <2>1, <2>2, <2>4, ThreadKeeps DEF ServiceKept
  <1>14. CASE fill[n].outstanding # 1
    <2>1. PICK y \in Tasks \cup {None} : y = None
      OBVIOUS
    <2>2. at' = [at EXCEPT ![t] = y]
      BY <1>7, <1>14, <2>1 DEF Leave
    <2>3. ~Owns(y, n) /\ ~InPlay(y, n) /\ ~Dispatches(y, n) /\ ~Finishes(y, n)
      BY <2>1 DEF Owns, InPlay, Dispatches, Finishes
    <2>4. TaskMoves(n, x, y)
      BY <1>5, <1>8, <1>12, <1>14, <2>3 DEF TaskMoves, One
    <2> QED
      BY <1>2, <1>4, <1>9, <1>10, <1>11, <2>1, <2>2, <2>4, ThreadKeeps DEF ServiceKept
  <1> QED
    BY <1>13, <1>14

\* The dispatcher of a round that has entries left.
LEMMA DispatchKeeps ==
  ASSUME ServiceInv, ShapeOK', NEW t \in Threads, DispatchEntry(t)
  PROVE  ServiceKept
  <1>1. ShapeOK /\ CountInv /\ at[t] # None /\ at[t].kind = "round" /\ at[t].pc = "dispatch"
    BY DEF ServiceInv, DispatchEntry, At
  <1>2. PICK x \in Tasks : x = at[t]
    BY <1>1 DEF ShapeOK
  <1>3. TaskOK(x) /\ x.i \in Nat /\ x # None
    BY <1>1, <1>2 DEF ServiceInv, TaskInv, Tasks
  <1>4. PICK n \in Requests : n = x.r
    BY <1>1, <1>2, TaskTypes
  <1>5. PICK i \in Nat : i = x.i
    BY <1>3
  <1>6. PICK f \in Fills : f = fill[n]
    BY <1>1 DEF ShapeOK
  <1>7. /\ f.reply = "held" /\ f.start < i /\ f.outstanding <= i - f.start
        /\ f.start \in Nat /\ f.upto \in Nat /\ f.outstanding \in Int
        /\ x.snap = None /\ x.listing = None /\ n < next
    BY <1>1, <1>2, <1>3, <1>4, <1>5, <1>6 DEF TaskOK, Fills, Listers
  <1>8. RequestOK(n) /\ PageOK(req[n], fill[n])
    BY <1>6, <1>7 DEF ServiceInv, RequestInv, RequestOK
  <1>9. f.upto <= Len(Entries) /\ Len(Entries) \in Nat
    <2>1. f.upto = Min({f.start + READDIRPLUS_BATCH, Len(Entries)})
      BY <1>6, <1>8 DEF PageOK
    <2> QED
      BY <1>7, <2>1, RoundEnd
  <1>10. UNCHANGED <<next, open, slab>>
    BY DEF DispatchEntry
  <1>11. ~Owns(x, n) /\ InPlay(x, n) /\ Dispatches(x, n) /\ ~Finishes(x, n) /\ ~IsOver(n)
    <2>1. f.outstanding >= 1
      BY <1>1, <1>2, <1>4, <1>6, RoundOfTask
    <2> QED
      BY <1>1, <1>2, <1>3, <1>4, <1>6, <1>7, <2>1 DEF Owns, InPlay, Dispatches, Finishes, IsOver, Solo
  <1>12. f.outstanding >= 1
    BY <1>1, <1>2, <1>4, <1>6, RoundOfTask
  <1>13. CASE i > f.upto
    <2>1. Goto(t, "guard") /\ UNCHANGED <<queue, fill, req>>
      BY <1>2, <1>4, <1>5, <1>6, <1>13 DEF DispatchEntry
    <2>2. PICK y \in Tasks : /\ at' = [at EXCEPT ![t] = y] /\ y # None /\ y.kind = x.kind /\ y.r = n
                             /\ y.pc = "guard" /\ y.snap = x.snap /\ y.listing = x.listing
      <3>1. "guard" \in Pcs
        BY DEF Pcs
      <3> QED
        BY <1>1, <1>2, <1>4, <2>1, <3>1, GotoTask
    <2>3. TaskOK(y)'
      BY <1>1, <1>2, <1>7, <1>10, <2>2 DEF TaskOK, StageOK, Solo, Listers
    <2>4. RequestOK(n)'
      BY <1>8, <1>10, <2>1 DEF RequestOK
    <2>5. RoundGoesOn(n, t) /\ OthersKept(n) /\ slab \subseteq slab'
      BY <1>1, <1>10, <2>1, SameRounds DEF OthersKept
    <2>6. TaskMoves(n, x, y)
      <3>1. ~Owns(y, n) /\ InPlay(y, n) /\ ~Dispatches(y, n) /\ ~Finishes(y, n)
        BY <1>1, <1>2, <2>2 DEF Owns, InPlay, Dispatches, Finishes, Solo
      <3>2. (Waits(n)' <=> Waits(n)) /\ (IsOver(n)' <=> IsOver(n))
        BY <2>1 DEF Waits, IsOver
      <3> QED
        BY <1>6, <1>7, <1>11, <2>1, <3>1, <3>2 DEF TaskMoves, One
    <2> QED
      BY <1>2, <1>4, <1>10, <2>1, <2>2, <2>3, <2>4, <2>5, <2>6, ThreadKeeps DEF ServiceKept
  <1>14. ASSUME i <= f.upto
         PROVE  \E y \in Tasks : /\ at' = [at EXCEPT ![t] = y] /\ y # None /\ y.kind = "round" /\ y.r = n
                                 /\ y.i = i + 1 /\ y.pc = "dispatch" /\ y.snap = None
                                 /\ y.listing = None
    <2>1. at' = [at EXCEPT ![t].i = i + 1]
      BY <1>2, <1>4, <1>5, <1>6, <1>14, <1>7 DEF DispatchEntry
    <2> DEFINE y == [x EXCEPT !.i = i + 1]
    <2>2. at' = [at EXCEPT ![t] = y]
      BY <1>1, <1>2, <2>1 DEF ShapeOK
    <2>3. /\ y \in Tasks /\ y.kind = "round" /\ y.r = n /\ y.i = i + 1 /\ y.pc = "dispatch"
          /\ y.snap = None /\ y.listing = None
      BY <1>1, <1>2, <1>4, <1>7 DEF Tasks
    <2> HIDE DEF y
    <2>4. y # None
      BY <2>3, FuseAssumption
    <2> QED
      BY <2>2, <2>3, <2>4
  <1>15. CASE i <= f.upto /\ Entries[i] = "dir"
    <2>1. /\ fill' = [fill EXCEPT ![n].slots = @ \cup {i}]
          /\ req' = [req EXCEPT ![n].fate[i] = "resolved"] /\ UNCHANGED queue
      BY <1>2, <1>4, <1>5, <1>6, <1>7, <1>15 DEF DispatchEntry
    <2>2. /\ fill'[n].reply = "held" /\ fill'[n].start = fill[n].start /\ fill'[n].upto = fill[n].upto
          /\ fill'[n].listing = fill[n].listing /\ fill'[n].outstanding = fill[n].outstanding
          /\ fill'[n].slots = fill[n].slots \cup {i}
          /\ \A r \in Requests : r # n => fill'[r] = fill[r]
      BY <1>1, <1>6, <1>7, <2>1 DEF ShapeOK, Fills
    <2>3. /\ RequestOK(n)' /\ req'[n].op = req[n].op /\ req'[n].gen = req[n].gen
          /\ req'[n].state = req[n].state
          /\ \A r \in Requests : r # n => req'[r] = req[r]
      <3>1. "resolved" \in Fates /\ InRound(n, i) /\ UNCHANGED <<next, open>>
        BY <1>6, <1>7, <1>10, <1>15 DEF Fates, InRound
      <3> QED
        BY <2>1, <2>2, <3>1, SettlesEntry
    <2>4. PICK y \in Tasks : /\ at' = [at EXCEPT ![t] = y] /\ y # None /\ y.kind = "round" /\ y.r = n
                             /\ y.i = i + 1 /\ y.pc = "dispatch" /\ y.snap = None /\ y.listing = None
      BY <1>14, <1>15
    <2>5. TaskOK(y)'
      BY <1>6, <1>7, <1>10, <1>15, <2>2, <2>4 DEF TaskOK, StageOK, Solo, Listers
    <2>6. RoundGoesOn(n, t) /\ OthersKept(n) /\ slab \subseteq slab'
      BY <1>6, <1>7, <1>10, <2>2, <2>3 DEF OthersKept, RoundGoesOn
    <2>7. TaskMoves(n, x, y)
      <3>1. ~Owns(y, n) /\ InPlay(y, n) /\ ~Finishes(y, n)
        BY <2>4 DEF Owns, InPlay, Dispatches, Finishes, Solo
      <3>2. (Waits(n)' <=> Waits(n)) /\ (IsOver(n)' <=> IsOver(n))
        BY <1>6, <1>7, <2>2, <2>3 DEF Waits, IsOver
      <3> QED
        BY <1>6, <1>7, <1>11, <2>2, <3>1, <3>2 DEF TaskMoves, One
    <2> QED
      BY <1>2, <1>4, <1>10, <2>1, <2>3, <2>4, <2>5, <2>6, <2>7, ThreadKeeps DEF ServiceKept
  <1>16. CASE i <= f.upto /\ Entries[i] # "dir"
    <2>1. /\ fill' = [fill EXCEPT ![n].outstanding = @ + 1]
          /\ queue' = Append(queue, Job("plus", n, i)) /\ UNCHANGED req
      BY <1>2, <1>4, <1>5, <1>6, <1>7, <1>16 DEF DispatchEntry
    <2>2. /\ fill'[n].reply = "held" /\ fill'[n].start = f.start /\ fill'[n].upto = f.upto
          /\ fill'[n].listing = f.listing /\ fill'[n].outstanding = f.outstanding + 1
          /\ fill'[n].slots = f.slots
          /\ \A r \in Requests : r # n => fill'[r] = fill[r]
      BY <1>1, <1>6, <1>7, <2>1 DEF ShapeOK, Fills
    <2>3. PICK j \in Jobs : j = Job("plus", n, i) /\ j.kind = "plus" /\ j.r = n /\ j.i = i
      <3>1. Job("plus", n, i) \in Jobs
        BY DEF Jobs, Job
      <3> QED
        BY <3>1 DEF Job
    <2>4. PICK y \in Tasks : /\ at' = [at EXCEPT ![t] = y] /\ y # None /\ y.kind = "round" /\ y.r = n
                             /\ y.i = i + 1 /\ y.pc = "dispatch" /\ y.snap = None /\ y.listing = None
      BY <1>14, <1>16
    <2>5. TaskOK(y)'
      BY <1>6, <1>7, <1>10, <1>16, <2>2, <2>4 DEF TaskOK, StageOK, Solo, Listers
    <2>6. JobOK(j)'
      BY <1>6, <1>7, <1>10, <1>16, <2>2, <2>3 DEF JobOK, InRound, Solo
    <2>7. RequestOK(n)'
      <3>1. f.outstanding + 1 <= Len(Entries) + 1
        BY <1>7, <1>9, <1>16
      <3>2. PageOK(req[n], fill'[n])
        BY <1>6, <1>8, <2>2, <3>1 DEF PageOK
      <3> QED
        BY <1>6, <1>7, <1>8, <1>10, <2>1, <2>2, <3>2 DEF RequestOK
    <2>8. OthersKept(n)
      BY <1>10, <2>1, <2>2 DEF OthersKept
    <2>9. RequestInv'
      <3>1. \A q \in Requests : q # n => req'[q] = req[q] /\ fill'[q] = fill[q] /\ open'[q] = open[q]
        BY <2>8 DEF OthersKept
      <3>2. next' = next
        BY <1>10
      <3> QED
        BY <2>7, <3>1, <3>2, RequestsStep
    <2>10. queue \in Seq(Jobs) /\ queue' = Append(queue, j)
      BY <1>1, <2>1, <2>3 DEF ShapeOK
    <2>11. TaskInv'
      <3>1. next <= next' /\ \A r \in Requests : r < next => req'[r].op = req[r].op
        BY <1>1, <1>10, <2>1 DEF ShapeOK
      <3>2. \A r \in Requests : InThreads(at, OwnTasks(r)) # 0 => req'[r].gen = req[r].gen
        BY <2>1
      <3>3. \A r \in Requests : RoundGoesOn(r, t) \/ fill[r].reply # "held" \/ Uncounted(r) = 0
        <4>1. RoundGoesOn(n, t)
          BY <1>1, <1>2, <1>4, <1>6, <1>7, <2>2 DEF RoundGoesOn
        <4>2. \A r \in Requests : r # n => RoundGoesOn(r, t)
          BY <1>1, <2>2, SameRounds
        <4> QED
          BY <4>1, <4>2
      <3>4. \A u \in Threads : u # t /\ at[u] # None /\ at[u].pc = "reply" => at[u].r \in slab'
        BY <1>10 DEF ServiceInv, TaskInv, TaskOK
      <3>5. \A u \in Threads : u # t => at'[u] = at[u]
        BY <1>1, <2>4 DEF ShapeOK
      <3>6. \A z \in Tasks : z = at'[t] => TaskOK(z)'
        BY <1>1, <2>4, <2>5 DEF ShapeOK
      <3>7. /\ {j} \in SUBSET Jobs /\ Elems(queue') \subseteq Elems(queue) \cup {j}
            /\ \A e \in {j} : JobOK(e)'
        BY <2>6, <2>10, ElemsOf
      <3> QED
        BY <3>1, <3>2, <3>3, <3>4, <3>5, <3>6, <3>7, TasksStep
    <2>12. \A r \in Requests : /\ InQueue(queue', OwnJobs(r)) = InQueue(queue, OwnJobs(r)) + 0
                               /\ InQueue(queue', PlusJobs(r)) = InQueue(queue, PlusJobs(r)) + One(n = r)
                               /\ InQueue(queue, OwnJobs(r)) \in Nat
                               /\ InQueue(queue, PlusJobs(r)) \in Nat
      <3> TAKE r \in Requests
      <3>1. j \in Jobs /\ j.kind = "plus" /\ j.r = n
        BY <2>3
      <3>2. \A e \in Jobs : e.kind = "plus" =>
               /\ InQueue(Append(queue, e), OwnJobs(r)) = InQueue(queue, OwnJobs(r)) + 0
               /\ InQueue(Append(queue, e), PlusJobs(r)) = InQueue(queue, PlusJobs(r)) + One(e.r = r)
        BY <2>10, QueueCounts
      <3>3. /\ InQueue(Append(queue, j), OwnJobs(r)) = InQueue(queue, OwnJobs(r)) + 0
            /\ InQueue(Append(queue, j), PlusJobs(r)) = InQueue(queue, PlusJobs(r)) + One(n = r)
        BY <3>1, <3>2
      <3>4. InQueue(queue, OwnJobs(r)) \in Nat /\ InQueue(queue, PlusJobs(r)) \in Nat
        BY <2>10, CountTypes
      <3> QED
        BY <2>10, <3>3, <3>4
    <2>13. CountInv'
      <3>1. IdleElsewhere(x, n) /\ IdleElsewhere(y, n)
        BY <1>1, <1>2, <1>4, <2>4 DEF IdleElsewhere, Idle, Owns, InPlay, Dispatches, Finishes
      <3>2. SameQueueElsewhere(n)
        BY <2>12 DEF SameQueueElsewhere, One
      <3>3. CountsMove(n, x, y)
        <4>1. ~Owns(y, n) /\ InPlay(y, n) /\ ~Finishes(y, n)
          BY <2>4 DEF Owns, InPlay, Finishes, Solo
        <4>2. (Waits(n)' <=> Waits(n)) /\ ~IsOver(n)'
          BY <1>6, <1>7, <1>12, <2>1, <2>2 DEF Waits, IsOver
        <4> QED
          BY <1>6, <1>7, <1>11, <2>2, <2>12, <4>1, <4>2 DEF CountsMove, One
      <3> QED
        BY <1>2, <2>4, <2>8, <3>1, <3>2, <3>3, CountsOfOne
    <2> QED
      BY <2>9, <2>11, <2>13 DEF ServiceKept
  <1> QED
    BY <1>5, <1>7, <1>13, <1>15, <1>16

\* What the last one out does: send the page, or begin the next round.
Sends(n) == Fit(n) < fill[n].upto - fill[n].start \/ fill[n].upto >= Len(Entries)

Grown(n) == [req[n] EXCEPT !.entries = req[n].entries \o Emitted(n)]

\* How a round ends: its page is sent, or the next round begins.
LEMMA FinishCases ==
  ASSUME ShapeOK, NEW t \in Threads, NEW n \in Requests, finish_plus_round(t), at[t].r = n,
         fill[n].reply = "held"
  PROVE  /\ UNCHANGED <<queue, next, open, slab>>
         /\ Sends(n) => /\ req' = [req EXCEPT ![n] = [Grown(n) EXCEPT !.state = "answered", !.replies = @ + 1,
                                                                     !.listing = fill[n].listing]]
                        /\ fill' = [fill EXCEPT ![n] = [NoFill EXCEPT !.reply = "sent"]]
                        /\ Leave(t)
         /\ ~Sends(n) => /\ req' = [req EXCEPT ![n] = Grown(n)]
                         /\ fill' = [fill EXCEPT ![n] = spawn_plus_round(fill[n].listing, fill[n].upto)]
                         /\ at' = [at EXCEPT ![t] = RoundOf(n, fill[n].upto)]
  <1> DEFINE filled == [req EXCEPT ![n].entries = @ \o Emitted(n)]
  <1>1. UNCHANGED <<queue, next, open, slab>>
    BY DEF finish_plus_round
  <1>2. filled = [req EXCEPT ![n] = Grown(n)]
    BY DEF ShapeOK, Grown
  <1>3. \/ /\ Sends(n)
           /\ req' = [filled EXCEPT ![n].state = "answered", ![n].replies = @ + 1,
                                    ![n].listing = fill[n].listing]
           /\ fill' = [fill EXCEPT ![n] = [NoFill EXCEPT !.reply = "sent"]]
           /\ Leave(t)
        \/ /\ ~Sends(n) /\ req' = filled
           /\ fill' = [fill EXCEPT ![n] = spawn_plus_round(fill[n].listing, fill[n].upto)]
           /\ at' = [at EXCEPT ![t] = RoundOf(n, fill[n].upto)]
    <2> HIDE DEF filled
    <2> QED
      BY DEF finish_plus_round, Emitted, Fit, Sends, filled
  <1>4. [filled EXCEPT ![n].state = "answered", ![n].replies = @ + 1, ![n].listing = fill[n].listing] =
        [req EXCEPT ![n] = [Grown(n) EXCEPT !.state = "answered", !.replies = @ + 1,
                                            !.listing = fill[n].listing]]
    <2>1. req = [r \in Requests |-> req[r]]
      BY DEF ShapeOK
    <2> HIDE DEF filled
    <2> QED
      BY <1>2, <2>1
  <1> HIDE DEF filled
  <1> QED
    BY <1>1, <1>2, <1>3, <1>4

\* A request with the entries of a finished round.
LEMMA GrownTypes ==
  ASSUME ShapeOK, NEW n \in Requests
  PROVE  /\ Grown(n) \in ReqStates /\ Grown(n).op = req[n].op /\ Grown(n).gen = req[n].gen
         /\ Grown(n).state = req[n].state /\ Grown(n).offset = req[n].offset
         /\ Grown(n).page = req[n].page /\ Grown(n).fate = req[n].fate
         /\ Grown(n).replies = req[n].replies /\ Grown(n).listing = req[n].listing
         /\ Grown(n).entries = req[n].entries \o Emitted(n)
  <1>1. PICK q \in ReqStates : q = req[n]
    BY DEF ShapeOK
  <1>2. PICK e \in Seq([i : Nat, attr : {"attrs", "stand-in"}]) : e = req[n].entries \o Emitted(n)
    BY EmittedTypes
  <1>3. Grown(n) = [q EXCEPT !.entries = e]
    BY <1>1, <1>2 DEF Grown
  <1>4. /\ [q EXCEPT !.entries = e] \in ReqStates
    BY DEF ReqStates
  <1> QED
    BY <1>1, <1>2, <1>3, <1>4 DEF ReqStates

\* The elements of two sequences put together.
LEMMA ConcatLemma ==
  ASSUME NEW S, NEW b \in Seq(S), NEW a \in Seq(S), NEW e, e = b \o a
  PROVE  /\ Len(e) = Len(b) + Len(a) /\ Len(e) \in Nat /\ Len(b) \in Nat
         /\ \A k \in 1..Len(b) : e[k] = b[k]
         /\ \A k \in 1..Len(a) : e[Len(b) + k] = a[k]
  OBVIOUS

\* The entries that a round adds go on from where the page stood, and carry
\* attributes where their resolution succeeded.
LEMMA GrownPage ==
  ASSUME ShapeOK, NEW n \in Requests, PageOK(req[n], fill[n])
  PROVE  LET q == req[n]
             e == Grown(n).entries
             f == fill[n]
         IN  /\ Len(e) = Len(q.entries) + (IF Fit(n) < 0 THEN 0 ELSE Fit(n)) /\ Len(e) \in Nat
             /\ \A k \in 1..Len(e) : /\ e[k].i = q.offset + k
                                     /\ e[k].attr = "attrs" <=> q.fate[q.offset + k] = "resolved"
             /\ f.start \in Nat /\ f.upto \in Nat /\ q.offset \in Nat /\ q.page \in Nat /\ Len(q.entries) \in Nat
             /\ Len(q.entries) <= q.page /\ f.start = q.offset + Len(q.entries)
             /\ f.start <= q.offset \/ f.start <= Len(Entries)
             /\ f.upto <= Len(Entries) /\ Len(Entries) \in Nat /\ (f.upto < Len(Entries) => f.upto > f.start)
             /\ Fit(n) = IF q.page - Len(q.entries) <= f.upto - f.start
                         THEN q.page - Len(q.entries) ELSE f.upto - f.start
  <1>1. PICK q \in ReqStates : q = req[n]
    BY DEF ShapeOK
  <1>2. PICK f \in Fills : f = fill[n]
    BY DEF ShapeOK
  <1> DEFINE E == [i : Nat, attr : {"attrs", "stand-in"}]
  <1>3. /\ f.start \in Nat /\ f.upto \in Nat /\ q.offset \in Nat /\ q.page \in Nat
        /\ Len(q.entries) \in Nat /\ q.entries \in Seq([i : Nat, attr : {"attrs", "stand-in"}])
    BY DEF Fills, ReqStates
  <1>4. /\ Len(q.entries) <= q.page /\ f.start = q.offset + Len(q.entries)
        /\ f.start <= q.offset \/ f.start <= Len(Entries)
        /\ f.upto = Min({f.start + READDIRPLUS_BATCH, Len(Entries)})
        /\ \A k \in 1..Len(q.entries) :
              /\ q.entries[k].i = q.offset + k
              /\ q.entries[k].attr = "attrs" <=> q.fate[q.offset + k] = "resolved"
        /\ \A i \in 1..Len(Entries) : (i > f.start /\ q.fate[i] = "resolved") => i \in f.slots
    BY <1>1, <1>2 DEF PageOK
  <1>5. f.upto <= Len(Entries) /\ Len(Entries) \in Nat /\ (f.upto < Len(Entries) => f.upto > f.start)
    BY <1>3, <1>4, RoundEnd
  <1>6. Fit(n) = IF q.page - Len(q.entries) <= f.upto - f.start
                 THEN q.page - Len(q.entries) ELSE f.upto - f.start
    <2>1. PICK a, b \in Int : a = q.page - Len(q.entries) /\ b = f.upto - f.start
      BY <1>3
    <2>2. Fit(n) = Min({a, b})
      BY <1>1, <1>2, <2>1 DEF Fit
    <2> QED
      BY <2>1, <2>2, MinOfTwo
  <1>7. PICK m \in Nat : m = IF Fit(n) < 0 THEN 0 ELSE Fit(n)
    BY EmittedTypes
  <1>8. PICK a \in Seq(E) : a = Emitted(n)
    BY EmittedTypes
  <1>9. Len(a) = m /\ \A k \in 1..m : a[k] = Attr(n, f.start + k)
    <2>1. /\ Len(Emitted(n)) = m
          /\ \A k \in 1..Len(Emitted(n)) : Emitted(n)[k] = Attr(n, fill[n].start + k)
      BY <1>7, EmittedTypes
    <2> QED
      BY <1>2, <1>8, <2>1
  <1>10. PICK b \in Seq(E) : b = q.entries
    BY <1>3
  <1>11. PICK e \in Seq(E) : e = Grown(n).entries /\ e = b \o a
    <2>1. Grown(n).entries = b \o a
      BY <1>1, <1>8, <1>10, GrownTypes
    <2> HIDE DEF E
    <2>2. b \o a \in Seq(E)
      BY ConcatProperties
    <2> QED
      BY <2>1, <2>2
  <1> HIDE DEF E
  <1>12. /\ Len(e) = Len(b) + m /\ Len(e) \in Nat /\ Len(b) \in Nat
         /\ \A k \in 1..Len(b) : e[k] = b[k]
         /\ \A k \in 1..m : e[Len(b) + k] = a[k]
    <2>1. Len(a) = m
      BY <1>9
    <2>2. /\ Len(e) = Len(b) + Len(a) /\ Len(e) \in Nat /\ Len(b) \in Nat
          /\ \A k \in 1..Len(b) : e[k] = b[k]
          /\ \A k \in 1..Len(a) : e[Len(b) + k] = a[k]
      BY <1>11, ConcatLemma
    <2> QED
      BY <2>1, <2>2
  <1>13. \A k \in 1..Len(e) : /\ e[k].i = q.offset + k
                              /\ e[k].attr = "attrs" <=> q.fate[q.offset + k] = "resolved"
    <2> SUFFICES ASSUME NEW k \in 1..Len(e)
                 PROVE  /\ e[k].i = q.offset + k
                        /\ e[k].attr = "attrs" <=> q.fate[q.offset + k] = "resolved"
      OBVIOUS
    <2>1. CASE k <= Len(b)
      <3>1. k \in 1..Len(b) /\ e[k] = b[k]
        BY <1>12, <2>1
      <3> QED
        BY <1>4, <1>10, <3>1
    <2>2. CASE k > Len(b)
      <3>1. PICK d \in 1..m : k = Len(b) + d
        <4>1. k - Len(b) \in 1..m /\ k = Len(b) + (k - Len(b))
          BY <1>12, <2>2
        <4> QED
          BY <4>1
      <3>2. e[k] = a[d] /\ a[d] = Attr(n, f.start + d)
        BY <1>9, <1>12, <3>1
      <3>3. PICK i \in Nat : i = f.start + d
        BY <1>3
      <3>4. i = q.offset + k
        BY <1>3, <1>4, <1>10, <1>12, <3>1, <3>3
      <3>5. i \in 1..Len(Entries) /\ i > f.start
        <4>1. d <= f.upto - f.start /\ d >= 1
          BY <1>3, <1>6, <1>7, <3>1
        <4> QED
          BY SMTT(30), <1>3, <1>5, <3>3, <4>1
      <3>6. e[k].i = i /\ (e[k].attr = "attrs" <=> (i \in f.slots /\ q.fate[i] = "resolved"))
        BY <1>1, <1>2, <3>2, <3>3 DEF Attr
      <3> QED
        BY <1>4, <3>4, <3>5, <3>6
    <2> QED
      BY <1>12, <2>1, <2>2
  <1> QED
    <2>1. /\ Len(e) = Len(b) + (IF Fit(n) < 0 THEN 0 ELSE Fit(n))
          /\ q = req[n] /\ f = fill[n] /\ e = Grown(n).entries /\ b = q.entries
      BY <1>1, <1>2, <1>7, <1>10, <1>11, <1>12
    <2> QED
      BY <1>3, <1>4, <1>5, <1>6, <1>12, <1>13, <2>1

\* The length of a page that is sent.
LEMMA PageLength ==
  \A p, o, len \in Nat : \A b \in Int : b = len - o =>
      Max({0, Min({p, b})}) = IF len <= o THEN 0 ELSE IF p <= len - o THEN p ELSE len - o
  <1> SUFFICES ASSUME NEW p \in Nat, NEW o \in Nat, NEW len \in Nat, NEW b \in Int, b = len - o
               PROVE  Max({0, Min({p, b})}) =
                         IF len <= o THEN 0 ELSE IF p <= len - o THEN p ELSE len - o
    OBVIOUS
  <1>1. PICK a \in Int : a = Min({p, b}) /\ a = IF p <= b THEN p ELSE b
    BY MinOfTwo
  <1>2. Max({0, a}) = IF 0 <= a THEN a ELSE 0
    BY MaxOfTwo
  <1> QED
    BY <1>1, <1>2

\* How far the page and its round are.
PageIsAt(n, o, p, k, s, u, len, fit, c) ==
    /\ o = req[n].offset /\ p = req[n].page /\ k = Len(req[n].entries) /\ s = fill[n].start
    /\ u = fill[n].upto /\ len = Len(Entries) /\ fit = Fit(n) /\ c = Len(Grown(n).entries)

PageAdvances(o, p, k, s, u, len, fit, c) ==
    /\ o \in Nat /\ p \in Nat /\ k \in Nat /\ s \in Nat /\ u \in Nat /\ len \in Nat
    /\ k <= p /\ s = o + k /\ (s <= o \/ s <= len) /\ u <= len /\ (u < len => u > s)
    /\ fit = IF p - k <= u - s THEN p - k ELSE u - s
    /\ c = k + (IF fit < 0 THEN 0 ELSE fit)

\* How a page advances by a round, as numbers only.
LEMMA PageNumbers ==
  ASSUME ShapeOK, NEW n \in Requests, PageOK(req[n], fill[n]), NEW o, NEW p, NEW k, NEW s, NEW u,
         NEW len, NEW fit, NEW c, PageIsAt(n, o, p, k, s, u, len, fit, c)
  PROVE  PageAdvances(o, p, k, s, u, len, fit, c)
  BY GrownPage DEF PageIsAt, PageAdvances

\* The page is complete: it goes out.
LEMMA SendKeeps ==
  ASSUME ServiceInv, ShapeOK', NEW t \in Threads, NEW x \in Tasks, x = at[t], x.pc = "finish",
         NEW n \in Requests, n = x.r, finish_plus_round(t), Sends(n)
  PROVE  ServiceKept
  <1>1. ShapeOK /\ CountInv /\ x # None /\ TaskOK(x)
    BY FuseAssumption DEF ServiceInv, TaskInv
  <1>2. x.kind \in {"plus", "round"}
    BY <1>1 DEF TaskOK, StageOK, Tasks, Kinds
  <1>3. fill[n].reply = "held" /\ fill[n].outstanding = 0 /\ Uncounted(n) = 0
    BY <1>1, <1>2, RoundOfTask
  <1>4. RequestOK(n) /\ PageOK(req[n], fill[n])
    BY <1>3 DEF ServiceInv, RequestInv, RequestOK
  <1>5. /\ UNCHANGED <<queue, next, open, slab>>
        /\ req' = [req EXCEPT ![n] = [Grown(n) EXCEPT !.state = "answered", !.replies = @ + 1,
                                                      !.listing = fill[n].listing]]
        /\ fill' = [fill EXCEPT ![n] = [NoFill EXCEPT !.reply = "sent"]]
        /\ Leave(t)
    BY <1>1, <1>3, FinishCases
  <1>6. PICK g \in ReqStates : g = Grown(n)
    BY <1>1, GrownTypes
  <1>7. PICK l \in Listings \cup {None} : l = fill[n].listing
    BY <1>1 DEF ShapeOK, Fills
  <1>8. PICK q : q = [g EXCEPT !.state = "answered", !.replies = @ + 1, !.listing = l]
    OBVIOUS
  <1>9. req'[n] = q /\ \A r \in Requests : r # n => req'[r] = req[r]
    BY <1>1, <1>5, <1>6, <1>7, <1>8 DEF ShapeOK
  <1>10. /\ q.state = "answered" /\ q.replies = g.replies + 1 /\ q.listing = l /\ q.op = g.op
         /\ q.gen = g.gen /\ q.entries = g.entries /\ q.fate = g.fate /\ q.offset = g.offset
         /\ q.page = g.page
    BY <1>8 DEF ReqStates
  <1>11. /\ g.op = req[n].op /\ g.gen = req[n].gen /\ g.offset = req[n].offset
         /\ g.page = req[n].page /\ g.fate = req[n].fate /\ g.replies = req[n].replies
    BY <1>1, <1>6, GrownTypes
  <1>12. PICK f : f = [NoFill EXCEPT !.reply = "sent"]
    OBVIOUS
  <1>13. fill'[n] = f /\ \A r \in Requests : r # n => fill'[r] = fill[r]
    BY <1>1, <1>5, <1>12 DEF ShapeOK
  <1>14. f.reply = "sent" /\ f.outstanding = 0
    BY <1>12 DEF NoFill
  <1>15. ExactPage(q)
    <2>1. PICK e : e = g.entries
      OBVIOUS
    <2>2. PICK o, p, k, s, u, len, fit, c : PageIsAt(n, o, p, k, s, u, len, fit, c)
      BY DEF PageIsAt
    <2>3. PageAdvances(o, p, k, s, u, len, fit, c)
      BY <1>1, <1>4, <2>2, PageNumbers
    <2>4. fit < u - s \/ u >= len
      BY <2>2 DEF Sends, PageIsAt
    <2>5. c = IF len <= o THEN 0 ELSE IF p <= len - o THEN p ELSE len - o
      BY <2>3, <2>4 DEF PageAdvances
    <2>8. c = Len(e)
      BY <1>6, <2>1, <2>2 DEF PageIsAt
    <2>9. c = Max({0, Min({q.page, Len(Entries) - q.offset})})
      <3>1. PICK b \in Int : b = len - o
        BY <2>3 DEF PageAdvances
      <3>2. c = Max({0, Min({p, b})})
        <4>1. p \in Nat /\ o \in Nat /\ len \in Nat
          BY <2>3 DEF PageAdvances
        <4>2. Max({0, Min({p, b})}) = IF len <= o THEN 0 ELSE IF p <= len - o THEN p ELSE len - o
          BY <3>1, <4>1, PageLength
        <4> QED
          BY <2>5, <4>2
      <3>3. q.page = p /\ Len(Entries) = len /\ q.offset = o
        BY <1>10, <1>11, <2>2 DEF PageIsAt
      <3> QED
        BY <3>1, <3>2, <3>3
    <2>10. \A i \in 1..c : /\ e[i].i = o + i
                           /\ e[i].attr = "attrs" <=> q.fate[o + i] = "resolved"
      <3>1. \A i \in 1..Len(Grown(n).entries) :
               /\ Grown(n).entries[i].i = req[n].offset + i
               /\ Grown(n).entries[i].attr = "attrs" <=> req[n].fate[req[n].offset + i] = "resolved"
        BY <1>1, <1>4, GrownPage
      <3>2. e = Grown(n).entries /\ o = req[n].offset /\ q.fate = req[n].fate
        BY <1>6, <1>10, <1>11, <2>1, <2>2 DEF PageIsAt
      <3> QED
        BY <2>8, <3>1, <3>2
    <2>11. q.entries = e /\ q.offset = o
      BY <1>10, <1>11, <2>1, <2>2 DEF PageIsAt
    <2> QED
      BY <2>8, <2>9, <2>10, <2>11 DEF ExactPage
  <1>16. RequestOK(n)'
    <2>1. /\ req[n].op = "readdirplus" /\ req[n].state = "sent" /\ fill[n].listing.gen = req[n].gen
      BY <1>4 DEF PageOK
    <2>2. /\ ~(n >= next) /\ req[n].replies = 0 /\ open[n] = None
      BY <1>4, <2>1 DEF RequestOK
    <2>3. next' = next /\ open'[n] = open[n]
      BY <1>5
    <2>4. q.replies = 1
      BY <1>10, <1>11, <2>2
    <2> QED
      BY <1>7, <1>9, <1>10, <1>11, <1>12, <1>13, <1>14, <1>15, <2>1, <2>2, <2>3, <2>4 DEF RequestOK
  <1>17. PICK y \in Tasks \cup {None} : y = None
    OBVIOUS
  <1>18. at' = [at EXCEPT ![t] = y]
    BY <1>5, <1>17 DEF Leave
  <1>19. OthersKept(n) /\ slab \subseteq slab' /\ UNCHANGED <<queue, next>>
    BY <1>5, <1>9, <1>13 DEF OthersKept
  <1>20. req'[n].op = req[n].op /\ req'[n].gen = req[n].gen
    BY <1>9, <1>10, <1>11
  <1>21. TaskMoves(n, x, y)
    <2>1. ~Owns(x, n) /\ ~InPlay(x, n) /\ Finishes(x, n)
      BY <1>1, <1>2 DEF Owns, InPlay, Finishes, Solo
    <2>2. ~Owns(y, n) /\ ~InPlay(y, n) /\ ~Dispatches(y, n) /\ ~Finishes(y, n)
      BY <1>17 DEF Owns, InPlay, Dispatches, Finishes
    <2>3. ~Waits(n) /\ ~Waits(n)' /\ IsOver(n) /\ ~IsOver(n)'
      BY <1>3, <1>13, <1>14 DEF Waits, IsOver
    <2>4. fill'[n].outstanding = 0
      BY <1>13, <1>14
    <2> QED
      BY <1>3, <2>1, <2>2, <2>3, <2>4 DEF TaskMoves, One
  <1> QED
    BY <1>3, <1>16, <1>17, <1>18, <1>19, <1>20, <1>21, ThreadKeeps DEF ServiceKept

\* There is room and there are entries: the next round begins.
LEMMA NextRoundKeeps ==
  ASSUME ServiceInv, ShapeOK', NEW t \in Threads, NEW x \in Tasks, x = at[t], x.pc = "finish",
         NEW n \in Requests, n = x.r, finish_plus_round(t), ~Sends(n)
  PROVE  ServiceKept
  <1>1. ShapeOK /\ CountInv /\ x # None /\ TaskOK(x)
    BY FuseAssumption DEF ServiceInv, TaskInv
  <1>2. x.kind \in {"plus", "round"}
    BY <1>1 DEF TaskOK, StageOK, Tasks, Kinds
  <1>3. fill[n].reply = "held" /\ fill[n].outstanding = 0 /\ Uncounted(n) = 0
    BY <1>1, <1>2, RoundOfTask
  <1>4. RequestOK(n) /\ PageOK(req[n], fill[n])
    BY <1>3 DEF ServiceInv, RequestInv, RequestOK
  <1>5. PICK l \in Listings : l = fill[n].listing /\ l # None
    BY SMTT(30), <1>1, <1>4 DEF PageOK, ShapeOK, Fills
  <1>6. PICK u \in Nat : u = fill[n].upto
    BY <1>1 DEF ShapeOK, Fills
  <1>7. /\ UNCHANGED <<queue, next, open, slab>>
        /\ req' = [req EXCEPT ![n] = Grown(n)]
        /\ fill' = [fill EXCEPT ![n] = spawn_plus_round(l, u)]
        /\ at' = [at EXCEPT ![t] = RoundOf(n, u)]
    BY <1>1, <1>3, <1>5, <1>6, FinishCases
  <1>8. n < next' /\ RoundFill(n, l, u)
    <2>1. n < next
      BY <1>1, <1>2 DEF TaskOK
    <2> QED
      BY <1>7, <2>1 DEF RoundFill
  <1>9. RoundBegun(n, l, u)
    BY <1>1, <1>8, RoundBegins
  <1>10. PICK y \in Tasks : y = RoundOf(n, u)
    BY FreshTypes
  <1>11. RoundTask(y, n)
    BY <1>8, <1>9, <1>10, RoundTaskBegins
  <1>12. PICK g \in ReqStates : g = Grown(n)
    BY <1>1, GrownTypes
  <1>13. req'[n] = g /\ \A r \in Requests : r # n => req'[r] = req[r]
    BY <1>1, <1>7, <1>12 DEF ShapeOK
  <1>14. /\ g.op = req[n].op /\ g.gen = req[n].gen /\ g.offset = req[n].offset
         /\ g.page = req[n].page /\ g.fate = req[n].fate /\ g.replies = req[n].replies
         /\ g.state = req[n].state /\ g.listing = req[n].listing
    BY <1>1, <1>12, GrownTypes
  <1>15. PageOK(g, fill'[n])
    <2>1. PICK o, p, k, s, z, len, fit, ke : PageIsAt(n, o, p, k, s, z, len, fit, ke)
      BY DEF PageIsAt
    <2>2. /\ o = g.offset /\ p = g.page /\ ke = Len(g.entries) /\ len = Len(Entries) /\ z = u
      BY <1>6, <1>12, <1>14, <2>1 DEF PageIsAt
    <2>13. PageAdvances(o, p, k, s, u, len, fit, ke) /\ ~(fit < u - s) /\ ~(u >= len)
      <3>1. PageAdvances(o, p, k, s, z, len, fit, ke)
        BY <1>1, <1>4, <2>1, PageNumbers
      <3>2. ~(fit < z - s) /\ ~(z >= len)
        BY <2>1 DEF Sends, PageIsAt
      <3>3. z = u
        BY <2>2
      <3> QED
        BY <3>1, <3>2, <3>3
    <2>3. u = o + ke /\ ke <= p /\ u <= len /\ 1 <= len + 1 /\ u \in Nat /\ len \in Nat
      <3>1. /\ o \in Nat /\ p \in Nat /\ k \in Nat /\ s \in Nat /\ u \in Nat /\ len \in Nat
            /\ k <= p /\ s = o + k /\ u < len /\ u > s
        BY <2>13 DEF PageAdvances
      <3>2. u - s \in Int /\ p - k \in Int /\ fit = IF p - k <= u - s THEN p - k ELSE u - s
        BY <2>13, <3>1 DEF PageAdvances
      <3>3. fit = u - s /\ u - s <= p - k
        BY <2>13, <3>1, <3>2
      <3>4. ke = k + fit
        BY <2>13, <3>1, <3>3 DEF PageAdvances
      <3> QED
        BY <3>1, <3>3, <3>4
    <2>4. \A i \in 1..Len(g.entries) :
             /\ g.entries[i].i = g.offset + i
             /\ g.entries[i].attr = "attrs" <=> g.fate[g.offset + i] = "resolved"
      <3>1. \A i \in 1..Len(Grown(n).entries) :
               /\ Grown(n).entries[i].i = req[n].offset + i
               /\ Grown(n).entries[i].attr = "attrs" <=> req[n].fate[req[n].offset + i] = "resolved"
        BY <1>1, <1>4, GrownPage
      <3> QED
        BY SMTT(30), <1>12, <1>14, <3>1
    <2>5. \A i \in 1..Len(Entries) : i > u => g.fate[i] = "none"
      <3>1. \A i \in 1..Len(Entries) : i > fill[n].upto => req[n].fate[i] = "none"
        BY <1>4 DEF PageOK
      <3> QED
        BY <1>6, <1>14, <3>1
    <2>6. PICK w \in Int : w = u + READDIRPLUS_BATCH /\ w >= u
      BY Bounds
    <2>7. PICK v \in Int : v = Min({u + READDIRPLUS_BATCH, len}) /\ v >= u
      <3>1. Min({w, len}) = IF w <= len THEN w ELSE len
        BY <2>3, MinOfTwo
      <3>2. Min({w, len}) \in Int /\ Min({w, len}) >= u
        BY <2>3, <2>6, <3>1
      <3> QED
        BY <2>6, <3>2
    <2>8. \A i \in 1..Len(Entries) : (i > u /\ g.fate[i] = "resolved") => i \in {}
      BY <2>5
    <2>9. \A i \in 1..Len(Entries) : i > v => g.fate[i] = "none"
      BY <2>3, <2>5, <2>7, Bounds
    <2>10. /\ g.op = "readdirplus" /\ g.state = "sent" /\ l.gen = g.gen
      <3>1. fill[n].listing.gen = req[n].gen /\ req[n].op = "readdirplus" /\ req[n].state = "sent"
        BY <1>4 DEF PageOK
      <3> QED
        BY <1>5, <1>14, <3>1
    <2>11. /\ fill'[n].listing = l /\ fill'[n].start = u /\ fill'[n].upto = v
           /\ fill'[n].slots = {} /\ fill'[n].outstanding = 1
      BY <1>9, <2>2, <2>7 DEF RoundBegun
    <2>12. v = Min({u + READDIRPLUS_BATCH, Len(Entries)}) /\ u = g.offset + Len(g.entries)
           /\ Len(g.entries) <= g.page /\ u <= Len(Entries) /\ 1 <= Len(Entries) + 1
      BY <2>2, <2>3, <2>7
    <2> QED
      BY <1>5, <2>4, <2>8, <2>9, <2>10, <2>11, <2>12 DEF PageOK
  <1>16. RequestOK(n)'
    <2>1. next' = next /\ open'[n] = open[n] /\ fill'[n].reply = "held"
      BY <1>7, <1>9 DEF RoundBegun
    <2>2. req[n].state = "sent"
      BY <1>4 DEF PageOK
    <2> QED
      BY <1>4, <1>13, <1>14, <1>15, <2>1, <2>2 DEF RequestOK
  <1>17. OthersKept(n) /\ slab \subseteq slab' /\ UNCHANGED <<queue, next>>
    BY <1>7, <1>9, <1>13 DEF OthersKept, RoundBegun
  <1>18. TaskMoves(n, x, y)
    <2>1. ~Owns(x, n) /\ ~InPlay(x, n) /\ Finishes(x, n)
      BY <1>1, <1>2 DEF Owns, InPlay, Finishes, Solo
    <2>2. ~Owns(y, n) /\ InPlay(y, n) /\ ~Finishes(y, n) /\ Dispatchers(n) = 0
      BY <1>3, <1>11, NoDispatchers DEF RoundTask
    <2>3. fill'[n].reply = "held" /\ fill'[n].outstanding = 1
      BY <1>9 DEF RoundBegun
    <2>4. ~Waits(n) /\ ~Waits(n)' /\ IsOver(n) /\ ~IsOver(n)'
      BY <1>3, <2>3 DEF Waits, IsOver
    <2> QED
      BY <1>3, <2>1, <2>2, <2>3, <2>4 DEF TaskMoves, One
  <1>19. /\ at' = [at EXCEPT ![t] = y] /\ req'[n].op = req[n].op /\ req'[n].gen = req[n].gen
         /\ y.r = n /\ TaskOK(y)'
    BY <1>7, <1>10, <1>11, <1>13, <1>14 DEF RoundTask
  <1> QED
    BY <1>3, <1>16, <1>17, <1>18, <1>19, ThreadKeeps DEF ServiceKept

\* finish_plus_round sends the page, or starts the next round.
LEMMA FinishKeeps ==
  ASSUME ServiceInv, ShapeOK', NEW t \in Threads, finish_plus_round(t)
  PROVE  ServiceKept
  <1>1. ShapeOK /\ at[t] # None /\ at[t].pc = "finish"
    BY DEF ServiceInv, finish_plus_round
  <1>2. PICK x \in Tasks : x = at[t]
    BY <1>1 DEF ShapeOK
  <1>3. x.r \in Requests
    <2>1. StageOK(x)
      BY <1>1, <1>2 DEF ServiceInv, TaskInv, TaskOK
    <2>2. x.kind # "poll"
      BY <1>1, <1>2, <2>1 DEF StageOK
    <2> QED
      BY <1>1, <1>2, <2>2, TaskTypes
  <1>4. PICK n \in Requests : n = x.r
    BY <1>3
  <1> QED
    BY <1>1, <1>2, <1>4, SendKeeps, NextRoundKeeps

(***************************************************************************)
(* Requests that are not queued.                                           *)
(***************************************************************************)

\* A request that is answered, or begins its round, on the dispatch thread.
LEMMA SentKeeps ==
  ASSUME ServiceInv, ShapeOK', NEW n \in Requests, n = next, next <= MaxRequests, at[Dispatch] = None,
         NEW q \in ReqStates, Record(q), NEW y \in Tasks \cup {None},
         at' = [at EXCEPT ![Dispatch] = y], y = None \/ (y.r = n /\ TaskOK(y)'),
         queue' = queue \/ queue' = Append(queue, Job("poll", None, 0)), UNCHANGED <<open, slab>>,
         \A r \in Requests : r # n => fill'[r] = fill[r], RequestOK(n)', IdleElsewhere(y, n),
         One(Waits(n)') = One(Owns(y, n)), fill'[n].outstanding = One(InPlay(y, n)),
         One(IsOver(n)') = One(Finishes(y, n))
  PROVE  ServiceKept
  <1>0. ShapeOK /\ CountInv /\ TaskInv /\ queue \in Seq(Jobs) /\ Dispatch \in Threads
    BY Bounds DEF ServiceInv, ShapeOK
  <1>1. /\ n \in Nat /\ req[n].state = "unsent" /\ open[n] = None
        /\ fill[n] = NoFill /\ fill[n].reply = "none" /\ InThreads(at, OwnTasks(n)) = 0
        /\ Dispatchers(n) = 0
    BY NextIsFresh
  <1>2. /\ req'[n] = q /\ next' = n + 1 /\ \A r \in Requests : r # n => req'[r] = req[r]
    BY <1>0, <1>1 DEF Record, ShapeOK
  <1>3. PICK p \in Jobs : p = Job("poll", None, 0) /\ p.kind = "poll"
    BY DEF Job, Jobs
  <1>4. /\ Elems(queue') \subseteq Elems(queue) \cup {p}
        /\ \A r \in Requests : /\ InQueue(queue', OwnJobs(r)) = InQueue(queue, OwnJobs(r)) + 0
                               /\ InQueue(queue', PlusJobs(r)) = InQueue(queue, PlusJobs(r)) + 0
                               /\ InQueue(queue, OwnJobs(r)) \in Nat
                               /\ InQueue(queue, PlusJobs(r)) \in Nat
    <2>1. PICK q0 : q0 = queue'
      OBVIOUS
    <2>2. q0 = queue \/ q0 = Append(queue, Job("poll", None, 0))
      BY <2>1
    <2>3. /\ Elems(q0) \subseteq Elems(queue) \cup {Job("poll", None, 0)}
          /\ \A r \in Requests : /\ InQueue(q0, OwnJobs(r)) = InQueue(queue, OwnJobs(r)) + 0
                                 /\ InQueue(q0, PlusJobs(r)) = InQueue(queue, PlusJobs(r)) + 0
      BY <1>0, <2>2, FiredCounts
    <2> QED
      BY <1>0, <1>3, <2>1, <2>3, CountTypes
  <1>5. OthersKept(n)
    BY <1>2 DEF OthersKept
  <1>6. RequestInv'
    <2>1. \A r \in Requests : r # n => req'[r] = req[r] /\ fill'[r] = fill[r] /\ open'[r] = open[r]
      BY <1>5 DEF OthersKept
    <2> QED
      BY <1>2, <2>1, RequestsStep
  <1>7. TaskInv'
    <2>1. next <= next' /\ \A r \in Requests : r < next => req'[r].op = req[r].op
      BY <1>1, <1>2 DEF Requests
    <2>2. \A r \in Requests : InThreads(at, OwnTasks(r)) # 0 => req'[r].gen = req[r].gen
      BY <1>1, <1>2
    <2>3. \A r \in Requests : RoundGoesOn(r, Dispatch) \/ fill[r].reply # "held" \/ Uncounted(r) = 0
      BY <1>0, <1>1, SameRounds
    <2>4. \A u \in Threads : u # Dispatch /\ at[u] # None /\ at[u].pc = "reply" => at[u].r \in slab'
      BY <1>0 DEF TaskInv, TaskOK
    <2>5. \A u \in Threads : u # Dispatch => at'[u] = at[u]
      BY <1>0 DEF ShapeOK
    <2>6. \A x \in Tasks : x = at'[Dispatch] => TaskOK(x)'
      BY <1>0, FuseAssumption DEF ShapeOK
    <2>7. JobOK(p)'
      BY <1>3 DEF JobOK, Solo
    <2>8. {p} \in SUBSET Jobs /\ \A e \in {p} : JobOK(e)'
      BY <1>3, <2>7
    <2> QED
      BY <1>0, <1>4, <2>1, <2>2, <2>3, <2>4, <2>5, <2>6, <2>8, TasksStep
  <1>8. CountInv'
    <2>1. PICK x \in Tasks \cup {None} : x = None
      OBVIOUS
    <2>2. IdleElsewhere(x, n) /\ ~Owns(x, n) /\ ~InPlay(x, n) /\ ~Dispatches(x, n) /\ ~Finishes(x, n)
      BY <2>1 DEF IdleElsewhere, Idle, Owns, InPlay, Dispatches, Finishes
    <2>3. SameQueueElsewhere(n)
      BY <1>4 DEF SameQueueElsewhere
    <2>4. CountsMove(n, x, y)
      <3>1. fill[n].outstanding = 0 /\ ~Waits(n) /\ ~IsOver(n)
        BY <1>1 DEF NoFill, Waits, IsOver
      <3>2. /\ InQueue(queue', OwnJobs(n)) - InQueue(queue, OwnJobs(n)) = 0
            /\ InQueue(queue', PlusJobs(n)) - InQueue(queue, PlusJobs(n)) = 0
        BY <1>4
      <3> QED
        BY <1>1, <2>2, <3>1, <3>2 DEF CountsMove, One
    <2> QED
      BY <1>0, <1>5, <2>1, <2>2, <2>3, <2>4, CountsOfOne
  <1> QED
    BY <1>6, <1>7, <1>8 DEF ServiceKept

\* A request that is answered on arrival.
LEMMA AnsweredKeeps ==
  ASSUME ServiceInv, ShapeOK', next <= MaxRequests, at[Dispatch] = None,
         NEW q \in ReqStates, Record(q), q.op # "readdirplus", q.state \in {"answered", "failed"},
         q.replies = 1, q.listing # None => q.state = "answered" /\ q.listing.gen = q.gen,
         q.entries = <<>>, \A i \in 1..Len(Entries) : q.fate[i] = "none",
         queue' = queue \/ queue' = Append(queue, Job("poll", None, 0)),
         UNCHANGED <<at, open, fill, slab>>
  PROVE  ServiceKept
  <1>0. ShapeOK
    BY DEF ServiceInv
  <1>1. PICK n \in Requests : /\ n = next /\ n \in Nat /\ open[n] = None
                              /\ fill[n] = NoFill /\ fill[n].reply = "none"
    BY NextIsFresh
  <1>2. req'[n] = q /\ next' = n + 1
    BY <1>0, <1>1 DEF Record, ShapeOK
  <1>3. RequestOK(n)'
    BY <1>1, <1>2 DEF RequestOK
  <1>4. PICK y \in Tasks \cup {None} : y = None
    OBVIOUS
  <1>5. at' = [at EXCEPT ![Dispatch] = y]
    BY <1>0, <1>4 DEF ShapeOK
  <1>6. IdleElsewhere(y, n) /\ ~Owns(y, n) /\ ~InPlay(y, n) /\ ~Finishes(y, n)
    BY <1>4 DEF IdleElsewhere, Idle, Owns, InPlay, Dispatches, Finishes
  <1>7. fill'[n].outstanding = 0 /\ ~Waits(n)' /\ ~IsOver(n)'
    BY <1>1, <1>2 DEF NoFill, Waits, IsOver
  <1>8. /\ One(Waits(n)') = One(Owns(y, n)) /\ fill'[n].outstanding = One(InPlay(y, n))
        /\ One(IsOver(n)') = One(Finishes(y, n))
    BY <1>6, <1>7 DEF One
  <1>9. \A r \in Requests : r # n => fill'[r] = fill[r]
    OBVIOUS
  <1>10. UNCHANGED <<open, slab>>
    OBVIOUS
  <1> QED
    BY <1>1, <1>3, <1>4, <1>5, <1>6, <1>8, <1>9, <1>10, SentKeeps

\* A readdirplus on a handle: its first round begins at once.
LEMMA HeldPlusKeeps ==
  ASSUME ServiceInv, ShapeOK', next <= MaxRequests, at[Dispatch] = None,
         NEW q \in ReqStates, Record(q), q.op = "readdirplus", q.state = "sent", q.replies = 0,
         q.listing = None, q.entries = <<>>, \A i \in 1..Len(Entries) : q.fate[i] = "none",
         NEW l \in Listings, l.gen = q.gen, RoundFill(next, l, q.offset),
         at' = [at EXCEPT ![Dispatch] = RoundOf(next, q.offset)],
         queue' = queue \/ queue' = Append(queue, Job("poll", None, 0)),
         UNCHANGED <<open, slab>>
  PROVE  ServiceKept
  <1>0. ShapeOK
    BY DEF ServiceInv
  <1>1. PICK n \in Requests : n = next /\ n \in Nat /\ open[n] = None
    BY NextIsFresh
  <1>2. req'[n] = q /\ next' = n + 1
    BY <1>0, <1>1 DEF Record, ShapeOK
  <1>3. PICK o \in Nat : o = q.offset
    BY DEF ReqStates
  <1>4. RoundBegun(n, l, o)
    <2>1. RoundFill(n, l, o)
      BY <1>1, <1>3
    <2> QED
      BY <1>0, <2>1, RoundBegins
  <1>5. PICK y \in Tasks : y = RoundOf(n, o)
    BY FreshTypes
  <1>6. RoundTask(y, n)
    <2>1. n < next'
      BY <1>1, <1>2
    <2> QED
      BY <1>4, <1>5, <2>1, RoundTaskBegins
  <1>7. PageOK(q, fill'[n])
    <2>1. Len(Entries) \in Nat /\ Len(q.entries) = 0 /\ q.page \in Nat /\ l # None
      BY Bounds, FuseAssumption DEF ReqStates
    <2>2. o = q.offset + Len(q.entries) /\ Len(q.entries) <= q.page
          /\ 1 <= Len(Entries) + 1 /\ o <= q.offset
      BY <1>3, <2>1
    <2>3. \A k \in 1..Len(q.entries) :
              /\ q.entries[k].i = q.offset + k
              /\ q.entries[k].attr = "attrs" <=> q.fate[q.offset + k] = "resolved"
      BY <2>1
    <2> QED
      BY <1>4, <2>1, <2>2, <2>3 DEF PageOK, RoundBegun
  <1>8. RequestOK(n)'
    BY <1>1, <1>2, <1>4, <1>7 DEF RequestOK, RoundBegun
  <1>9. /\ One(Waits(n)') = One(Owns(y, n)) /\ fill'[n].outstanding = One(InPlay(y, n))
        /\ One(IsOver(n)') = One(Finishes(y, n))
    BY <1>4, <1>6 DEF One, RoundTask, RoundBegun, Waits, IsOver
  <1>10. \A r \in Requests : r # n => fill'[r] = fill[r]
    BY <1>4 DEF RoundBegun
  <1>11. /\ at' = [at EXCEPT ![Dispatch] = y] /\ y.r = n /\ TaskOK(y)' /\ IdleElsewhere(y, n)
    BY <1>1, <1>3, <1>5, <1>6 DEF RoundTask
  <1> QED
    BY <1>1, <1>8, <1>9, <1>10, <1>11, SentKeeps

\* A handle and its request are of one generation.
LEMMA HandleGen ==
  ASSUME ServiceInv, NEW f \in Requests, open[f] # None
  PROVE  open[f].listing.gen = req[f].gen /\ req[f].gen \in Nat
  BY DEF ServiceInv, RequestInv, RequestOK, ShapeOK, ReqStates

\* The job of a request goes behind the poll that is due.
LEMMA FiredJob ==
  ASSUME queue \in Seq(Jobs), NEW j \in Jobs, fire_poll_refresh(<<j>>)
  PROVE  LET q == IF Fires THEN Append(queue, Job("poll", None, 0)) ELSE queue IN
         queue' = Append(q, j)
  BY FiredQueue

\* A request without a job of its own may still bring a poll.
LEMMA FiredAlone ==
  ASSUME queue \in Seq(Jobs), fire_poll_refresh(<<>>)
  PROVE  queue' = queue \/ queue' = Append(queue, Job("poll", None, 0))
  <1>1. queue' = IF Fires THEN Append(queue, Job("poll", None, 0)) ELSE queue
    BY FiredQueue
  <1> QED
    BY <1>1

\* A request as the kernel sends it.
IsSent(q, op, offset, gen) ==
    /\ q \in ReqStates /\ q.op = op /\ q.offset = offset /\ q.gen = gen /\ q.state = "sent"
    /\ q.replies = 0 /\ q.listing = None /\ q.entries = <<>>
    /\ \A i \in 1..Len(Entries) : q.fate[i] = "none"

\* What Sent makes is a request as the kernel sends it.
LEMMA SentIs ==
  ASSUME NEW op \in Ops, NEW fh \in Nat, NEW offset \in Nat, NEW page \in Nat, NEW gen \in Nat
  PROVE  IsSent(Sent(op, fh, offset, page, gen), op, offset, gen)
  <1> DEFINE q == Sent(op, fh, offset, page, gen)
  <1>1. /\ q \in ReqStates
        /\ q.op = op /\ q.fh = fh /\ q.offset = offset /\ q.page = page /\ q.gen = gen
        /\ q.state = "sent" /\ q.replies = 0 /\ q.listing = None /\ q.entries = <<>>
        /\ \A i \in 1..Len(Entries) : q.fate[i] = "none"
        /\ [q EXCEPT !.state = "failed", !.replies = 1] \in ReqStates
        /\ \A l \in Listings :
              [q EXCEPT !.state = "answered", !.replies = 1, !.listing = l] \in ReqStates
    BY SentTypes
  <1> HIDE DEF q
  <1>2. IsSent(q, op, offset, gen)
    BY <1>1 DEF IsSent
  <1> QED
    BY <1>2 DEF q

\* getattr, opendir and open wait for their job.
LEMMA QueueingKeeps ==
  ASSUME ServiceInv, ShapeOK', Getattr \/ Opendir \/ Open
  PROVE  ServiceKept
  <1>0. ShapeOK /\ next \in Requests /\ next <= MaxRequests /\ at[Dispatch] = None
    BY NextIsFresh DEF ServiceInv, Getattr, Opendir, Open, CanSend
  <1>1. PICK kind \in {"getattr", "opendir", "open"} :
           /\ Record(Sent(kind, 0, 0, 0, 0)) /\ UNCHANGED <<at, open, fill, slab>>
           /\ \/ fire_poll_refresh(<<Job(kind, next, 0)>>)
              \/ queue' = Append(queue, Job(kind, next, 0))
    BY DEF Getattr, Opendir, Open
  <1>2. kind \in Solo /\ kind \in Ops /\ OpOf(kind) = kind
    BY DEF Solo, Ops, OpOf
  <1>6. PICK q : q = Sent(kind, 0, 0, 0, 0)
    OBVIOUS
  <1>3. IsSent(q, kind, 0, 0)
    BY <1>2, <1>6, SentIs
  <1>4. Job(kind, next, 0) \in Jobs
    BY <1>0, <1>2 DEF Job, Jobs
  <1>5. PICK q0 : /\ q0 = queue \/ q0 = Append(queue, Job("poll", None, 0))
                  /\ queue' = Append(q0, Job(kind, next, 0))
    BY <1>0, <1>1, <1>4, FiredJob DEF ShapeOK
  <1> QED
    BY <1>0, <1>1, <1>2, <1>3, <1>5, <1>6, QueuedKeeps DEF ServiceKept, IsSent

\* A read waits for its job, or is shed at once.
LEMMA ReadKeeps ==
  ASSUME ServiceInv, ShapeOK', Read
  PROVE  ServiceKept
  <1>0. ShapeOK /\ next \in Requests /\ next <= MaxRequests /\ at[Dispatch] = None
    BY NextIsFresh DEF ServiceInv, Read, CanSend
  <1>5. PICK q : q = Sent("read", 0, 0, 0, 0)
    OBVIOUS
  <1>1. IsSent(q, "read", 0, 0) /\ [q EXCEPT !.state = "failed", !.replies = 1] \in ReqStates
    BY <1>5, SentTypes, SentIs DEF Ops
  <1>2. UNCHANGED <<at, open, fill, slab>>
    BY DEF Read
  <1>3. CASE SlotsFull
    <2>1. PICK p \in ReqStates : p = [q EXCEPT !.state = "failed", !.replies = 1]
      BY <1>1
    <2>2. /\ p.op = "read" /\ p.state = "failed" /\ p.replies = 1 /\ p.listing = None
          /\ p.entries = <<>> /\ \A i \in 1..Len(Entries) : p.fate[i] = "none"
      BY <1>1, <2>1 DEF ReqStates, IsSent
    <2>3. Record(p) /\ queue' = queue
      BY <1>5, <1>3, <2>1 DEF Read
    <2> QED
      BY <1>0, <1>2, <2>2, <2>3, AnsweredKeeps
  <1>4. CASE ~SlotsFull
    <2>1. Record(q) /\ queue' = Append(queue, Job("read", next, 0))
      BY <1>5, <1>4 DEF Read
    <2>2. "read" \in Solo /\ OpOf("read") = "read"
      BY DEF Solo, OpOf
    <2> QED
      BY <1>0, <1>1, <1>2, <2>1, <2>2, QueuedKeeps DEF ServiceKept, IsSent
  <1> QED
    BY <1>3, <1>4

\* A held listing answers readdir at once; otherwise a job does.
LEMMA ReaddirKeeps ==
  ASSUME ServiceInv, ShapeOK', NEW f \in DirHandles, Readdir(f)
  PROVE  ServiceKept
  <1>0. ShapeOK /\ next \in Requests /\ next <= MaxRequests /\ at[Dispatch] = None
    BY NextIsFresh DEF ServiceInv, Readdir, CanSend
  <1>1. f \in Nat /\ (Held(f) => f \in Requests /\ open[f] # None /\ open[f].listing \in Listings)
    BY <1>0, DirHandleTypes
  <1>2. PICK g \in Nat : g = IF Held(f) THEN req[f].gen ELSE 0
    BY <1>1, HandleGen
  <1>7. PICK q : q = Sent("readdir", f, 0, 0, g)
    OBVIOUS
  <1>3. /\ IsSent(q, "readdir", 0, g)
        /\ \A l \in Listings :
              [q EXCEPT !.state = "answered", !.replies = 1, !.listing = l] \in ReqStates
    BY <1>1, <1>7, SentTypes, SentIs DEF Ops
  <1>4. UNCHANGED <<at, open, fill, slab>>
    BY DEF Readdir
  <1>5. CASE Held(f)
    <2>1. PICK l \in Listings : l = open[f].listing /\ l.gen = g
      BY <1>1, <1>2, <1>5, HandleGen
    <2>2. PICK p \in ReqStates : p = [q EXCEPT !.state = "answered", !.replies = 1, !.listing = l]
      BY <1>3
    <2>3. /\ p.op = "readdir" /\ p.state = "answered" /\ p.replies = 1 /\ p.listing = l /\ p.gen = g
          /\ p.entries = <<>> /\ \A i \in 1..Len(Entries) : p.fate[i] = "none"
      BY <1>3, <2>2 DEF ReqStates, IsSent
    <2>4. Record(p) /\ fire_poll_refresh(<<>>)
      BY <1>2, <1>5, <1>7, <2>1, <2>2 DEF Readdir
    <2>5. queue' = queue \/ queue' = Append(queue, Job("poll", None, 0))
      BY <1>0, <2>4, FiredAlone DEF ShapeOK
    <2> QED
      BY <1>0, <1>4, <2>1, <2>3, <2>4, <2>5, AnsweredKeeps
  <1>6. CASE ~Held(f)
    <2>1. Record(q) /\ fire_poll_refresh(<<Job("readdir", next, 0)>>)
      BY <1>2, <1>6, <1>7 DEF Readdir
    <2>2. "readdir" \in Solo /\ OpOf("readdir") = "readdir" /\ Job("readdir", next, 0) \in Jobs
      BY <1>0 DEF Solo, OpOf, Job, Jobs
    <2>3. PICK q0 : /\ q0 = queue \/ q0 = Append(queue, Job("poll", None, 0))
                    /\ queue' = Append(q0, Job("readdir", next, 0))
      BY <1>0, <2>1, <2>2, FiredJob DEF ShapeOK
    <2> QED
      BY <1>0, <1>3, <1>4, <2>1, <2>2, <2>3, QueuedKeeps DEF ServiceKept, IsSent
  <1> QED
    BY <1>5, <1>6

\* readdirplus begins its first round, or waits for a listing.
LEMMA ReaddirplusKeeps ==
  ASSUME ServiceInv, ShapeOK', NEW f \in DirHandles, NEW p \in Pages, Readdirplus(f, p[1], p[2])
  PROVE  ServiceKept
  <1>0. ShapeOK /\ next \in Requests /\ next <= MaxRequests /\ at[Dispatch] = None
    BY NextIsFresh DEF ServiceInv, Readdirplus, CanSend
  <1>1. f \in Nat /\ (Held(f) => f \in Requests /\ open[f] # None /\ open[f].listing \in Listings)
    BY <1>0, DirHandleTypes
  <1>2. PICK g \in Nat : g = IF Held(f) THEN req[f].gen ELSE 0
    BY <1>1, HandleGen
  <1>3. p[1] \in Nat /\ p[2] \in Nat
    BY FuseAssumption
  <1>8. PICK q : q = Sent("readdirplus", f, p[1], p[2], g)
    OBVIOUS
  <1>4. IsSent(q, "readdirplus", p[1], g)
    BY <1>1, <1>3, <1>8, SentIs DEF Ops
  <1>5. Record(q) /\ UNCHANGED <<open, slab>>
    BY <1>2, <1>8 DEF Readdirplus
  <1>6. CASE Held(f)
    <2>1. PICK l \in Listings : l = open[f].listing /\ l.gen = g
      BY <1>1, <1>2, <1>6, HandleGen
    <2>2. /\ fire_poll_refresh(<<>>) /\ RoundFill(next, l, q.offset)
          /\ at' = [at EXCEPT ![Dispatch] = RoundOf(next, q.offset)]
      BY <1>4, <1>6, <2>1 DEF Readdirplus, RoundFill, IsSent
    <2>3. queue' = queue \/ queue' = Append(queue, Job("poll", None, 0))
      BY <1>0, <2>2, FiredAlone DEF ShapeOK
    <2> QED
      BY <1>0, <1>4, <1>5, <2>1, <2>2, <2>3, HeldPlusKeeps DEF IsSent
  <1>7. CASE ~Held(f)
    <2>1. fire_poll_refresh(<<Job("plushead", next, 0)>>) /\ UNCHANGED <<at, fill>>
      BY <1>7 DEF Readdirplus
    <2>2. "plushead" \in Solo /\ OpOf("plushead") = "readdirplus" /\ Job("plushead", next, 0) \in Jobs
      BY <1>0 DEF Solo, OpOf, Job, Jobs
    <2>3. PICK q0 : /\ q0 = queue \/ q0 = Append(queue, Job("poll", None, 0))
                    /\ queue' = Append(q0, Job("plushead", next, 0))
      BY <1>0, <2>1, <2>2, FiredJob DEF ShapeOK
    <2> QED
      BY <1>0, <1>4, <1>5, <2>1, <2>2, <2>3, QueuedKeeps DEF ServiceKept, IsSent
  <1> QED
    BY <1>6, <1>7

(***************************************************************************)
(* Jobs are taken, or lost.                                                *)
(***************************************************************************)
LEMMA TakenKeeps ==
  ASSUME ServiceInv, ShapeOK', NEW w \in Threads, at[w] = None, queue # <<>>,
         NEW j \in Jobs, j = Head(queue), queue' = Tail(queue), UNCHANGED <<next, fill, open, slab>>,
         NEW n \in Requests, j.kind # "poll" => n = j.r,
         NEW y \in Tasks, at' = [at EXCEPT ![w] = y], y # None, y.kind = j.kind, y.r = j.r,
         y.pc \in {"run", "probe", "guard"}, j.kind \in Solo => y.pc # "guard", TaskOK(y)',
         \A r \in Requests : r # n => req'[r] = req[r],
         req'[n].op = req[n].op, req'[n].state = req[n].state,
         req'[n].gen = req[n].gen \/ InThreads(at, OwnTasks(n)) = 0, RequestOK(n)'
  PROVE  ServiceKept
  <1>0. ShapeOK /\ CountInv /\ TaskInv /\ queue \in Seq(Jobs)
    BY DEF ServiceInv, ShapeOK
  <1>1. OthersKept(n)
    BY DEF OthersKept
  <1>2. RequestInv'
    <2>1. \A r \in Requests : r # n => req'[r] = req[r] /\ fill'[r] = fill[r] /\ open'[r] = open[r]
      OBVIOUS
    <2>2. next' = next
      OBVIOUS
    <2> QED
      BY <2>1, <2>2, RequestsStep
  <1>3. TaskInv'
    <2>1. next <= next' /\ \A r \in Requests : r < next => req'[r].op = req[r].op
      BY <1>0 DEF ShapeOK
    <2>2. \A r \in Requests : InThreads(at, OwnTasks(r)) # 0 => req'[r].gen = req[r].gen
      OBVIOUS
    <2>3. \A r \in Requests : RoundGoesOn(r, w) \/ fill[r].reply # "held" \/ Uncounted(r) = 0
      BY <1>0, SameRounds
    <2>4. \A u \in Threads : u # w /\ at[u] # None /\ at[u].pc = "reply" => at[u].r \in slab'
      BY <1>0 DEF TaskInv, TaskOK
    <2>5. \A u \in Threads : u # w => at'[u] = at[u]
      BY <1>0 DEF ShapeOK
    <2>6. \A x \in Tasks : x = at'[w] => TaskOK(x)'
      BY <1>0 DEF ShapeOK
    <2>7. /\ {} \in SUBSET Jobs /\ Elems(queue') \subseteq Elems(queue) \cup {}
          /\ \A e \in {} : JobOK(e)'
      BY <1>0, ElemsOf
    <2> QED
      BY <2>1, <2>2, <2>3, <2>4, <2>5, <2>6, <2>7, TasksStep
  <1>4. \A r \in Requests : /\ InQueue(queue', OwnJobs(r)) =
                                  InQueue(queue, OwnJobs(r)) + (-One(j.kind \in Solo /\ j.r = r))
                            /\ InQueue(queue', PlusJobs(r)) =
                                  InQueue(queue, PlusJobs(r)) + (-One(j.kind = "plus" /\ j.r = r))
                            /\ InQueue(queue, OwnJobs(r)) \in Nat
                            /\ InQueue(queue, PlusJobs(r)) \in Nat
    BY <1>0, QueueCounts, CountTypes
  <1>5. /\ \A r \in Requests : /\ Owns(y, r) <=> j.kind \in Solo /\ j.r = r
                               /\ InPlay(y, r) <=> j.kind = "plus" /\ j.r = r
                               /\ ~Dispatches(y, r) /\ ~Finishes(y, r)
    <2>1. j.kind # "round"
      BY DEF Jobs, Job, Solo
    <2> QED
      BY <2>1 DEF Owns, InPlay, Dispatches, Finishes
  <1>6. j.kind \notin Solo /\ j.kind # "plus" => j.kind = "poll"
    BY DEF Jobs, Job
  <1>7. \A r \in Requests : r # n => ~(j.kind \in Solo /\ j.r = r) /\ ~(j.kind = "plus" /\ j.r = r)
    BY DEF Solo
  <1>8. IdleElsewhere(y, n) /\ SameQueueElsewhere(n)
    BY <1>4, <1>5, <1>7 DEF IdleElsewhere, Idle, SameQueueElsewhere, One
  <1>9. PICK x \in Tasks \cup {None} : x = at[w] /\ x = None
    OBVIOUS
  <1>10. IdleElsewhere(x, n) /\ ~Owns(x, n) /\ ~InPlay(x, n) /\ ~Dispatches(x, n) /\ ~Finishes(x, n)
    BY <1>9 DEF IdleElsewhere, Idle, Owns, InPlay, Dispatches, Finishes
  <1>11. CountsMove(n, x, y)
    <2>1. (Waits(n)' <=> Waits(n)) /\ (IsOver(n)' <=> IsOver(n))
      BY DEF Waits, IsOver
    <2>2. fill'[n].outstanding = fill[n].outstanding /\ fill[n].outstanding \in Int
      BY <1>0 DEF ShapeOK, Fills
    <2>3. /\ InQueue(queue', OwnJobs(n)) - InQueue(queue, OwnJobs(n)) = -One(Owns(y, n))
          /\ InQueue(queue', PlusJobs(n)) - InQueue(queue, PlusJobs(n)) = -One(InPlay(y, n))
      BY <1>4, <1>5 DEF One
    <2> QED
      BY <1>5, <1>10, <2>1, <2>2, <2>3 DEF CountsMove, One
  <1>12. CountInv'
    BY <1>1, <1>8, <1>9, <1>10, <1>11, CountsOfOne
  <1> QED
    BY <1>2, <1>3, <1>12 DEF ServiceKept

\* The task that a taken job becomes.
LEMMA DoingTask ==
  ASSUME NEW j \in Jobs, NEW pc \in Pcs, NEW snap \in Trees \cup {None}
  PROVE  \E y \in Tasks : /\ y = Doing(j, pc, snap) /\ y.kind = j.kind /\ y.r = j.r /\ y.i = j.i
                          /\ y.pc = pc /\ y.snap = snap /\ y.listing = None /\ y # None
  <1>1. Doing(j, pc, snap) \in Tasks
    BY FreshTypes
  <1> QED
    BY <1>1, FuseAssumption DEF Doing

\* A worker takes over what the job it takes owes.
LEMMA TakeKeeps ==
  ASSUME ServiceInv, ShapeOK', NEW w \in Workers, TakeJob(w)
  PROVE  ServiceKept
  <1>0. ShapeOK /\ CountInv /\ queue # <<>> /\ at[w] = None /\ w \in Threads
    BY DEF ServiceInv, TakeJob, Threads
  <1>1. PICK j \in Jobs : j = Head(queue)
    BY <1>0, QueueTypes
  <1>2. JobOK(j) /\ 1 \in 1..Len(queue) /\ queue[1] = j
    BY <1>0, <1>1, QueueTypes DEF ServiceInv, TaskInv
  <1>3. queue' = Tail(queue) /\ UNCHANGED <<next, fill, open, slab>>
    BY DEF TakeJob
  <1>4. CASE j.kind \in Listers
    <2>1. j.kind \in Solo /\ j.r \in Requests
      BY <1>4 DEF Listers, Solo, Jobs, Job
    <2>2. PICK n \in Requests : n = j.r
      BY <2>1
    <2>3. /\ req[n].state = "sent" /\ fill[n].reply = "none" /\ InThreads(at, OwnTasks(n)) = 0
      BY <1>0, <1>2, <2>1, <2>2, OwnerInQueue
    <2>4. PICK s \in Trees : s = tree
      BY <1>0 DEF ShapeOK
    <2>5. PICK y \in Tasks : /\ y = Doing(j, "probe", s) /\ y.kind = j.kind /\ y.r = j.r /\ y # None
                             /\ y.pc = "probe" /\ y.snap = s /\ y.listing = None
      <3>1. "probe" \in Pcs /\ s \in Trees \cup {None}
        BY DEF Pcs
      <3> QED
        BY <3>1, DoingTask
    <2>6. /\ at' = [at EXCEPT ![w] = y] /\ req' = [req EXCEPT ![n].gen = s.gen]
      BY <1>1, <1>4, <2>2, <2>4, <2>5 DEF TakeJob
    <2>7. PICK g \in Nat : g = s.gen
      BY DEF Trees
    <2>8. PICK q \in ReqStates : q = [req[n] EXCEPT !.gen = g]
      <3>1. PICK q0 \in ReqStates : q0 = req[n]
        BY <1>0 DEF ShapeOK
      <3>2. [q0 EXCEPT !.gen = g] \in ReqStates
        BY DEF ReqStates
      <3> QED
        BY <3>1, <3>2
    <2>9. req'[n] = q /\ \A r \in Requests : r # n => req'[r] = req[r]
      BY <1>0, <2>6, <2>7, <2>8 DEF ShapeOK
    <2>10. /\ q.op = req[n].op /\ q.state = req[n].state /\ q.gen = g /\ q.replies = req[n].replies
           /\ q.listing = req[n].listing /\ q.entries = req[n].entries /\ q.fate = req[n].fate
      <3>1. req[n] \in ReqStates
        BY <1>0 DEF ShapeOK
      <3> QED
        BY <2>8, <3>1 DEF ReqStates
    <2>11. RequestOK(n)'
      <3>1. RequestOK(n)
        BY DEF ServiceInv, RequestInv
      <3> QED
        BY <1>3, <2>3, <2>9, <2>10, <3>1 DEF RequestOK
    <2>12. TaskOK(y)'
      <3>1. StageOK(y) /\ y.kind # "poll"
        BY <1>4, <2>5 DEF StageOK, Listers
      <3>2. y.r < next' /\ req'[n].op = OpOf(y.kind)
        BY <1>2, <1>3, <2>1, <2>2, <2>5, <2>9, <2>10, <3>1 DEF JobOK
      <3>3. s # None
        BY FuseAssumption
      <3> QED
        BY <1>4, <2>1, <2>2, <2>5, <2>7, <2>9, <2>10, <3>1, <3>2, <3>3 DEF TaskOK, Solo, Listers
    <2> QED
      BY <1>0, <1>1, <1>3, <2>2, <2>3, <2>5, <2>6, <2>9, <2>10, <2>11, <2>12, TakenKeeps
  <1>5. CASE j.kind \notin Listers
    <2>1. PICK n \in Requests : j.kind # "poll" => n = j.r
      <3>1. 1 \in Requests
        BY Bounds DEF Requests
      <3>2. j.kind # "poll" => j.r \in Requests
        BY DEF Jobs, Job, Solo
      <3> QED
        BY <3>1, <3>2
    <2>2. PICK y \in Tasks : /\ y = Doing(j, "run", None) /\ y.kind = j.kind /\ y.r = j.r /\ y # None
                             /\ y.pc = "run" /\ y.snap = None /\ y.listing = None /\ y.i = j.i
      <3>1. "run" \in Pcs /\ None \in Trees \cup {None}
        BY DEF Pcs
      <3> QED
        BY <3>1, DoingTask
    <2>3. at' = [at EXCEPT ![w] = y] /\ req' = req
      BY <1>1, <1>5, <2>2 DEF TakeJob
    <2>4. RequestOK(n)'
      <3>1. RequestOK(n)
        BY DEF ServiceInv, RequestInv
      <3> QED
        BY <1>3, <2>3, <3>1 DEF RequestOK
    <2>5. TaskOK(y)'
      <3>1. StageOK(y)
        <4>1. j.kind # "round"
          BY DEF Jobs, Job, Solo
        <4> QED
          BY <1>5, <2>2, <4>1 DEF StageOK, Listers
      <3> QED
        BY <1>2, <1>3, <1>5, <2>2, <2>3, <3>1 DEF TaskOK, JobOK, InRound, Listers
    <2> QED
      BY <1>0, <1>1, <1>3, <2>1, <2>2, <2>3, <2>4, <2>5, TakenKeeps
  <1> QED
    BY <1>4, <1>5

\* A lost task of a round goes on to count itself out.
LEMMA LoseKeeps ==
  ASSUME ServiceInv, ShapeOK', NEW w \in Workers, LoseJob(w)
  PROVE  ServiceKept
  <1>0. ShapeOK /\ CountInv /\ queue # <<>> /\ at[w] = None /\ w \in Threads
    BY DEF ServiceInv, LoseJob, Threads
  <1>1. PICK j \in Jobs : j = Head(queue)
    BY <1>0, QueueTypes
  <1>2. JobOK(j)
    BY <1>0, <1>1, QueueTypes DEF ServiceInv, TaskInv
  <1>3. queue' = Tail(queue) /\ UNCHANGED <<next, fill, open, slab>> /\ j.kind \in {"poll", "plus"}
    BY <1>1 DEF LoseJob
  <1>4. PICK y \in Tasks : /\ y = Doing(j, "guard", None) /\ y.kind = j.kind /\ y.r = j.r /\ y # None
                           /\ y.pc = "guard" /\ y.snap = None /\ y.listing = None /\ y.i = j.i
    <2>1. "guard" \in Pcs /\ None \in Trees \cup {None}
      BY DEF Pcs
    <2> QED
      BY <2>1, DoingTask
  <1>5. at' = [at EXCEPT ![w] = y]
    BY <1>1, <1>4 DEF LoseJob
  <1>6. StageOK(y) /\ y.kind \notin Solo /\ y.kind \notin Listers
    BY <1>3, <1>4 DEF StageOK, Solo, Listers
  <1>7. TaskOK(y)'
    BY <1>2, <1>3, <1>4, <1>6 DEF TaskOK, JobOK, InRound
  <1>8. CASE j.kind = "poll"
    <2>1. PICK n \in Requests : n = 1
      BY Bounds DEF Requests
    <2>2. req' = req
      BY <1>1, <1>8 DEF LoseJob
    <2>3. RequestOK(n)'
      <3>1. RequestOK(n)
        BY DEF ServiceInv, RequestInv
      <3> QED
        BY <1>3, <2>2, <3>1 DEF RequestOK
    <2> QED
      BY <1>0, <1>1, <1>3, <1>4, <1>5, <1>6, <1>7, <1>8, <2>2, <2>3, TakenKeeps
  <1>9. CASE j.kind = "plus"
    <2>1. PICK n \in Requests, i \in Nat : n = j.r /\ i = j.i
      BY <1>9 DEF Jobs, Job, Solo
    <2>2. req' = [req EXCEPT ![n].fate[i] = "lost"]
      BY <1>1, <1>9, <2>1 DEF LoseJob
    <2>3. InRound(n, i) /\ fill'[n] = fill[n] /\ fill'[n].reply = "held"
      BY <1>2, <1>3, <1>9, <2>1 DEF JobOK, InRound
    <2>4. "lost" \in Fates
      BY DEF Fates
    <2>5. /\ RequestOK(n)' /\ req'[n].op = req[n].op /\ req'[n].gen = req[n].gen
          /\ req'[n].state = req[n].state /\ \A r \in Requests : r # n => req'[r] = req[r]
      BY <1>3, <2>2, <2>3, <2>4, SettlesEntry
    <2> QED
      BY <1>0, <1>1, <1>3, <1>4, <1>5, <1>6, <1>7, <1>9, <2>1, <2>5, TakenKeeps
  <1> QED
    BY <1>3, <1>8, <1>9

(***************************************************************************)
(* Steps that answer nothing.                                              *)
(***************************************************************************)
LEMMA IdleKeeps ==
  ASSUME ServiceInv, ShapeOK', NEW t \in Threads, NEW x \in Tasks \cup {None}, x = at[t],
         NEW y \in Tasks \cup {None}, at' = [at EXCEPT ![t] = y],
         \A r \in Requests : Idle(x, r) /\ Idle(y, r), y # None => TaskOK(y)',
         UNCHANGED <<queue, next, req, fill>>, NEW n \in Requests,
         \A r \in Requests : r # n => open'[r] = open[r], open'[n] = open[n] \/ open'[n] = None,
         \A u \in Threads : u # t /\ at[u] # None /\ at[u].pc = "reply" => at[u].r \in slab'
  PROVE  ServiceKept
  <1>0. ShapeOK /\ CountInv /\ TaskInv /\ queue \in Seq(Jobs)
    BY DEF ServiceInv, ShapeOK
  <1>1. OthersKept(n)
    BY DEF OthersKept
  <1>2. RequestInv'
    <2>1. RequestOK(n)'
      <3>1. RequestOK(n)
        BY DEF ServiceInv, RequestInv
      <3> QED
        BY <3>1 DEF RequestOK
    <2>2. \A r \in Requests : r # n => req'[r] = req[r] /\ fill'[r] = fill[r] /\ open'[r] = open[r]
      OBVIOUS
    <2>3. next' = next
      OBVIOUS
    <2> QED
      BY <2>1, <2>2, <2>3, RequestsStep
  <1>3. TaskInv'
    <2>1. next <= next' /\ \A r \in Requests : r < next => req'[r].op = req[r].op
      BY <1>0 DEF ShapeOK
    <2>2. \A r \in Requests : InThreads(at, OwnTasks(r)) # 0 => req'[r].gen = req[r].gen
      OBVIOUS
    <2>3. \A r \in Requests : RoundGoesOn(r, t) \/ fill[r].reply # "held" \/ Uncounted(r) = 0
      BY <1>0, SameRounds
    <2>5. \A u \in Threads : u # t => at'[u] = at[u]
      BY <1>0 DEF ShapeOK
    <2>6. \A z \in Tasks : z = at'[t] => TaskOK(z)'
      BY <1>0, FuseAssumption DEF ShapeOK
    <2>7. /\ {} \in SUBSET Jobs /\ Elems(queue') \subseteq Elems(queue) \cup {}
          /\ \A e \in {} : JobOK(e)'
      OBVIOUS
    <2> QED
      BY <2>1, <2>2, <2>3, <2>5, <2>6, <2>7, TasksStep
  <1>4. SameQueueElsewhere(n) /\ IdleElsewhere(x, n) /\ IdleElsewhere(y, n)
    BY DEF SameQueueElsewhere, IdleElsewhere
  <1>5. CountsMove(n, x, y)
    <2>1. (Waits(n)' <=> Waits(n)) /\ (IsOver(n)' <=> IsOver(n))
      BY DEF Waits, IsOver
    <2>2. fill'[n].outstanding = fill[n].outstanding /\ fill[n].outstanding \in Int
      BY <1>0 DEF ShapeOK, Fills
    <2>3. /\ InQueue(queue', OwnJobs(n)) - InQueue(queue, OwnJobs(n)) = 0
          /\ InQueue(queue', PlusJobs(n)) - InQueue(queue, PlusJobs(n)) = 0
      BY <1>0, CountTypes
    <2>4. Idle(x, n) /\ Idle(y, n)
      OBVIOUS
    <2> QED
      BY <2>1, <2>2, <2>3, <2>4 DEF CountsMove, One, Idle
  <1>6. CountInv'
    BY <1>1, <1>4, <1>5, CountsOfOne
  <1> QED
    BY <1>2, <1>3, <1>6 DEF ServiceKept

\* A thread without a task owes nothing.
LEMMA NoneIsIdle == \A r : Idle(None, r)
  BY DEF Idle, Owns, InPlay, Dispatches, Finishes

\* A release takes away nothing that a request still needs.
LEMMA ReleaseKeeps ==
  ASSUME ServiceInv, ShapeOK', NEW f \in Requests, Releasedir(f) \/ Release(f)
  PROVE  ServiceKept
  <1>0. ShapeOK /\ CountInv /\ Dispatch \in Threads
    BY Bounds DEF ServiceInv
  <1>1. PICK x \in Tasks \cup {None} : x = None
    OBVIOUS
  <1>2. x = at[Dispatch] /\ at' = [at EXCEPT ![Dispatch] = x] /\ \A r \in Requests : Idle(x, r)
    BY <1>0, <1>1, NoneIsIdle DEF Releasedir, Release, ShapeOK
  <1>3. UNCHANGED <<queue, next, req, fill>>
    BY DEF Releasedir, Release
  <1>4. /\ \A r \in Requests : r # f => open'[r] = open[r]
        /\ open'[f] = open[f] \/ open'[f] = None
    BY <1>0 DEF Releasedir, Release, release_dir_handle, ShapeOK
  <1>5. \A u \in Threads : at[u] # None /\ at[u].pc = "reply" => at[u].r \in slab'
    <2> SUFFICES ASSUME NEW u \in Threads, at[u] # None, at[u].pc = "reply"
                 PROVE  at[u].r \in slab'
      OBVIOUS
    <2>1. PICK z \in Tasks : z = at[u] /\ TaskOK(z)
      BY <1>0 DEF ServiceInv, TaskInv, ShapeOK
    <2>2. z.kind = "open" /\ z.r \in slab
      BY <2>1 DEF TaskOK, StageOK, Tasks, Kinds
    <2>3. req[z.r].state = "sent"
      BY <1>0, <2>1, <2>2, OwnerOfRequest DEF Solo
    <2> QED
      BY <2>1, <2>2, <2>3 DEF Releasedir, Release
  <1> QED
    BY <1>0, <1>1, <1>2, <1>3, <1>4, <1>5, IdleKeeps

\* The poll answers no request.
LEMMA PollKeeps ==
  ASSUME ServiceInv, ShapeOK', NEW t \in Threads, PollRefresh(t) \/ DropGate(t)
  PROVE  ServiceKept
  <1>0. ShapeOK
    BY DEF ServiceInv
  <1>1. PICK x \in Tasks : x = at[t] /\ x.kind = "poll" /\ x # None
    BY <1>0 DEF PollRefresh, DropGate, At, ShapeOK
  <1>2. TaskOK(x)
    BY <1>1 DEF ServiceInv, TaskInv
  <1>3. x.pc \in {"run", "guard"}
    BY <1>1, <1>2 DEF TaskOK, StageOK
  <1>4. UNCHANGED <<queue, next, req, fill, open, slab>>
    BY DEF PollRefresh, DropGate
  <1>5. PICK y \in Tasks \cup {None} :
           /\ at' = [at EXCEPT ![t] = y]
           /\ y # None => /\ y.kind = "poll" /\ y.pc = "guard" /\ y.snap = x.snap
                          /\ y.listing = x.listing
    <2>1. CASE PollRefresh(t)
      <3>1. Goto(t, "guard") /\ "guard" \in Pcs
        BY <2>1 DEF PollRefresh, Pcs
      <3> QED
        BY <1>0, <1>1, <3>1, GotoTask
    <2>2. CASE DropGate(t)
      BY <2>2 DEF DropGate, Leave
    <2> QED
      BY <2>1, <2>2
  <1>6. \A r \in Requests : Idle(x, r) /\ Idle(y, r)
    BY <1>1, <1>3, <1>5 DEF Idle, Owns, InPlay, Dispatches, Finishes, Solo
  <1>7. y # None => TaskOK(y)'
    <2> SUFFICES ASSUME y # None PROVE TaskOK(y)'
      OBVIOUS
    <2>1. StageOK(y)
      BY <1>5 DEF StageOK
    <2>2. x.snap = None /\ x.listing = None
      BY <1>1, <1>2, <1>3 DEF TaskOK, Listers
    <2> QED
      BY <1>5, <2>1, <2>2 DEF TaskOK, Listers, Solo
  <1>8. PICK n \in Requests : n = 1
    BY Bounds DEF Requests
  <1>9. \A u \in Threads : u # t /\ at[u] # None /\ at[u].pc = "reply" => at[u].r \in slab'
    BY <1>4 DEF ServiceInv, TaskInv, TaskOK
  <1> QED
    BY <1>1, <1>4, <1>5, <1>6, <1>7, <1>8, <1>9, IdleKeeps

\* Nothing changes for requests where their variables stay.
LEMMA StillKeeps ==
  ASSUME ServiceInv, UNCHANGED <<req, next, queue, at, open, fill, slab>>
  PROVE  ServiceKept
  <1>1. TaskInv'
    <2>1. TaskInv
      BY DEF ServiceInv
    <2> QED
      BY <2>1 DEF TaskInv, JobOK, TaskOK, InRound
  <1>2. RequestInv'
    <2>1. RequestInv
      BY DEF ServiceInv
    <2> QED
      BY <2>1 DEF RequestInv, RequestOK
  <1>3. CountInv'
    <2>1. CountInv
      BY DEF ServiceInv
    <2> QED
      BY <2>1 DEF CountInv, CountOK, Owners, Uncounted, Dispatchers, Finishers
  <1> QED
    BY <1>1, <1>2, <1>3 DEF ServiceKept

\* Requests that arrive keep the invariant.
LEMMA KernelKeeps ==
  ASSUME ServiceInv, ShapeOK', KernelStep
  PROVE  ServiceKept
  <1>0. ShapeOK
    BY DEF ServiceInv
  <1>1. CASE Getattr \/ Opendir \/ Open
    BY <1>1, QueueingKeeps
  <1>2. CASE Read
    BY <1>2, ReadKeeps
  <1>3. ASSUME NEW f \in DirHandles, Readdir(f) PROVE ServiceKept
    BY <1>3, ReaddirKeeps
  <1>4. ASSUME NEW f \in DirHandles, Releasedir(f) PROVE ServiceKept
    <2>1. f \in Requests
      BY <1>0, <1>4, DirHandleTypes DEF Releasedir
    <2> QED
      BY <1>4, <2>1, ReleaseKeeps
  <1>5. ASSUME NEW f \in DirHandles, NEW p \in Pages, Readdirplus(f, p[1], p[2]) PROVE ServiceKept
    BY <1>5, ReaddirplusKeeps
  <1>6. ASSUME NEW f \in Requests, Release(f) PROVE ServiceKept
    BY <1>6, ReleaseKeeps
  <1> QED
    BY <1>1, <1>2, <1>3, <1>4, <1>5, <1>6 DEF KernelStep

\* Every step keeps requests, tasks and counts in their relation.
LEMMA ServiceStep ==
  ASSUME ServiceInv, GenInv, SharedListingsAreExact, [Next]_vars
  PROVE  ServiceInv'
  <1>0. ShapeOK'
    BY ShapeStep
  <1>1. CASE KernelStep
    BY <1>0, <1>1, KernelKeeps DEF ServiceKept, ServiceInv
  <1>2. CASE PollComesDue
    <2>1. ServiceKept
      BY <1>2, StillKeeps DEF PollComesDue
    <2> QED
      BY <1>0, <2>1 DEF ServiceKept, ServiceInv
  <1>3. ASSUME NEW t \in Threads, ThreadStep(t) PROVE ServiceKept
    <2>1. CASE RunGetattr(t) \/ RunRead(t) \/ reply_open(t)
      BY <1>0, <2>1, GetattrKeeps
    <2>2. CASE DropSlot(t)
      BY <1>0, <2>2, DropSlotKeeps
    <2>3. CASE OpenHandle(t)
      BY <1>0, <2>3, OpenKeeps
    <2>4. CASE Probe(t)
      BY <1>0, <2>4, ProbeKeeps
    <2>5. CASE build_dir_listing(t)
      BY <1>0, <2>5, BuildKeeps
    <2>6. CASE Admit(t)
      BY <1>0, <2>6, AdmitKeeps
    <2>7. CASE DispatchEntry(t)
      BY <1>0, <2>7, DispatchKeeps
    <2>8. CASE ResolveEntry(t)
      BY <1>0, <2>8, ResolveKeeps
    <2>9. CASE PlusSlot(t)
      BY <1>0, <2>9, SlotKeeps
    <2>10. CASE finish_plus_round(t)
      BY <1>0, <2>10, FinishKeeps
    <2>11. CASE PollRefresh(t) \/ DropGate(t)
      BY <1>0, <2>11, PollKeeps
    <2> QED
      BY <1>3, <2>1, <2>2, <2>3, <2>4, <2>5, <2>6, <2>7, <2>8, <2>9, <2>10, <2>11 DEF ThreadStep
  <1>4. ASSUME NEW w \in Workers, TakeJob(w) PROVE ServiceKept
    BY <1>0, <1>4, TakeKeeps
  <1>5. ASSUME NEW w \in Workers, LoseJob(w) PROVE ServiceKept
    BY <1>0, <1>5, LoseKeeps
  <1>6. CASE UNCHANGED vars
    <2>1. ServiceKept
      BY <1>6, StillKeeps DEF vars
    <2> QED
      BY <1>0, <2>1 DEF ServiceKept, ServiceInv
  <1> QED
    BY <1>0, <1>1, <1>2, <1>3, <1>4, <1>5, <1>6 DEF Next, ServiceKept, ServiceInv

(***************************************************************************)
(* What a step of a thread does to the thread.                             *)
(***************************************************************************)

\* A task that goes on keeps its tree, or has none, and reads and polls
\* stay what they are.
GoesOn(x, y) ==
    /\ y.snap = None \/ y.snap = x.snap
    /\ x.kind \in {"read", "poll"} \/ y.kind \in {"read", "poll"} => y.kind = x.kind

\* A task that goes on to another stage keeps kind and tree.
LEMMA GotoGoesOn ==
  ASSUME ShapeOK, NEW t \in Threads, NEW x \in Tasks, x = at[t], NEW pc \in Pcs, Goto(t, pc)
  PROVE  \E y \in Tasks : y # None /\ at' = [at EXCEPT ![t] = y] /\ GoesOn(x, y)
  <1>1. PICK y \in Tasks : /\ at' = [at EXCEPT ![t] = y] /\ y # None /\ y.kind = x.kind
                           /\ y.snap = x.snap
    BY GotoTask
  <1> QED
    BY <1>1 DEF GoesOn

\* A task that begins a round is no read and no poll.
LEMMA RoundGoes ==
  ASSUME NEW t \in Threads, NEW x \in Tasks, x.kind \in {"plushead", "plus", "round"},
         NEW n \in Requests, NEW s \in Nat, at' = [at EXCEPT ![t] = RoundOf(n, s)]
  PROVE  \E y \in Tasks : y # None /\ at' = [at EXCEPT ![t] = y] /\ GoesOn(x, y)
  <1>1. PICK y \in Tasks : y = RoundOf(n, s)
    BY FreshTypes
  <1>2. y.kind = "round" /\ y.snap = None
    BY <1>1 DEF RoundOf, Doing, Job
  <1> QED
    BY <1>1, <1>2, FuseAssumption DEF GoesOn

\* So does one that has its listing, or it has answered.
LEMMA ListingGoes ==
  ASSUME ServiceInv, NEW t \in Threads, NEW x \in Tasks, x = at[t], x.pc \in {"probe", "build"},
         NEW l \in Listings, WithListing(t, l)
  PROVE  \E y \in Tasks \cup {None} : /\ at' = [at EXCEPT ![t] = y]
                                      /\ y # None => GoesOn(x, y)
                                      /\ y = None => x.kind \notin {"read", "poll"}
  <1>0. ShapeOK /\ x.kind \in {"opendir", "readdir", "plushead"}
    BY ListerOK DEF ServiceInv, Listers
  <1>3. PICK n \in Requests : n = x.r
    BY <1>0, WaitsForAll, ListerOK
  <1>6. CASE x.kind = "opendir"
    <2>1. at' = [at EXCEPT ![t].pc = "admit", ![t].listing = l]
      BY <1>6 DEF WithListing
    <2> DEFINE y == [x EXCEPT !.pc = "admit", !.listing = l]
    <2>2. at' = [at EXCEPT ![t] = y]
      BY <1>0, <2>1 DEF ShapeOK
    <2>3. y \in Tasks /\ y.kind = x.kind /\ y.snap = x.snap
      BY DEF Tasks, Pcs
    <2> HIDE DEF y
    <2>4. y # None /\ GoesOn(x, y)
      BY <2>3, FuseAssumption DEF GoesOn
    <2> QED
      BY <2>2, <2>3, <2>4
  <1>7. CASE x.kind = "readdir"
    <2>1. at' = [at EXCEPT ![t] = None]
      BY <1>7 DEF WithListing, Leave
    <2> QED
      BY <1>7, <2>1
  <1>8. CASE x.kind = "plushead"
    <2>1. PICK s \in Nat : s = req[n].offset
      BY <1>0 DEF ShapeOK, ReqStates
    <2>2. at' = [at EXCEPT ![t] = RoundOf(n, s)]
      BY <1>3, <1>8, <2>1 DEF WithListing
    <2>3. PICK y \in Tasks : y # None /\ at' = [at EXCEPT ![t] = y] /\ GoesOn(x, y)
      BY <1>8, <2>2, RoundGoes
    <2> QED
      BY <2>3
  <1> QED
    BY <1>0, <1>6, <1>7, <1>8

\* A thread's step: it goes on with its task, or ends it; a read ends when
\* its slot is given back, a poll when the gate is opened.
MovesOn(t, x, y) ==
    /\ at' = [at EXCEPT ![t] = y]
    /\ y # None => GoesOn(x, y)
    /\ y = None /\ x.kind = "read" => DropSlot(t)
    /\ y = None /\ x.kind = "poll" => DropGate(t)

\* Every step of a thread is such a move.
LEMMA ThreadMove ==
  ASSUME ServiceInv, NEW t \in Threads, ThreadStep(t)
  PROVE  \E x \in Tasks, y \in Tasks \cup {None} : x = at[t] /\ x # None /\ MovesOn(t, x, y)
  <1>0. ShapeOK /\ at[t] # None
    BY DEF ServiceInv, ThreadStep, RunGetattr, RunRead, DropSlot, OpenHandle, reply_open, Probe,
           build_dir_listing, Admit, DispatchEntry, ResolveEntry, PlusSlot, finish_plus_round,
           PollRefresh, DropGate, At
  <1>1. PICK x \in Tasks : x = at[t] /\ x # None /\ TaskOK(x)
    BY <1>0 DEF ShapeOK, ServiceInv, TaskInv
  <1>2. SUFFICES \E y \in Tasks \cup {None} : MovesOn(t, x, y)
    BY <1>1
  <1>3. ASSUME NEW pc \in Pcs, Goto(t, pc) PROVE \E y \in Tasks \cup {None} : MovesOn(t, x, y)
    BY <1>0, <1>1, <1>3, GotoGoesOn DEF MovesOn
  <1>4. ASSUME Leave(t), x.kind \notin {"read", "poll"} PROVE \E y \in Tasks \cup {None} : MovesOn(t, x, y)
    BY <1>4 DEF MovesOn, Leave
  <1>5. CASE RunGetattr(t)
    BY <1>1, <1>4, <1>5 DEF RunGetattr, At
  <1>6. CASE RunRead(t) \/ ResolveEntry(t) \/ PollRefresh(t)
    <2>1. Goto(t, "guard") /\ "guard" \in Pcs
      BY <1>6 DEF RunRead, ResolveEntry, PollRefresh, Pcs
    <2> QED
      BY <1>3, <2>1
  <1>7. CASE DropSlot(t)
    <2>1. x.kind = "read" /\ Leave(t)
      BY <1>1, <1>7 DEF DropSlot, At
    <2> QED
      BY <1>7, <2>1 DEF MovesOn, Leave
  <1>8. CASE OpenHandle(t)
    <2>1. (Goto(t, "reply") \/ Leave(t)) /\ "reply" \in Pcs /\ x.kind = "open"
      BY <1>1, <1>8 DEF OpenHandle, At, Pcs
    <2> QED
      BY <1>3, <1>4, <2>1
  <1>9. CASE reply_open(t) \/ Admit(t)
    <2>1. Leave(t) /\ x.kind \in {"open", "opendir"}
      BY <1>1, <1>9 DEF reply_open, Admit, At
    <2> QED
      BY <1>4, <2>1
  <1>10. CASE Probe(t)
    <2>1. x.pc = "probe" /\ x.snap # None /\ x.snap \in Trees /\ \E l \in Listings : l.gen = x.snap.gen
      BY <1>1, <1>10, ListerOK DEF Probe
    <2>2. PICK a \in Addrs : a = x.snap.addr
      BY <2>1 DEF Trees
    <2>3. PICK l \in Listings \cup {None} : l = shared_listing(a)
      BY <1>0, <2>1, <2>2, SharedTypes
    <2>4. CASE l = None
      <3>1. Goto(t, "build") /\ "build" \in Pcs
        BY <1>1, <1>10, <2>2, <2>3, <2>4 DEF Probe, Pcs
      <3> QED
        BY <1>3, <3>1
    <2>5. CASE l # None
      <3>1. WithListing(t, l) /\ l \in Listings
        BY <1>1, <1>10, <2>2, <2>3, <2>5 DEF Probe
      <3> QED
        BY <1>1, <2>1, <3>1, ListingGoes DEF MovesOn
    <2> QED
      BY <2>4, <2>5
  <1>11. CASE build_dir_listing(t)
    <2>1. x.pc = "build" /\ x.kind \in Listers /\ x.snap # None /\ x.snap \in Trees
      BY <1>1, <1>11, ListerOK DEF build_dir_listing
    <2>2. PICK l \in Listings : l = [id |-> made + 1, gen |-> x.snap.gen]
      <3>1. made + 1 \in Nat /\ x.snap.gen \in Nat
        BY <1>0, <2>1 DEF ShapeOK, Trees
      <3> QED
        BY <3>1 DEF Listings
    <2>3. WithListing(t, l) \/ Leave(t)
      BY <1>1, <1>11, <2>2 DEF build_dir_listing
    <2>4. CASE WithListing(t, l)
      BY <1>1, <2>1, <2>4, ListingGoes DEF MovesOn
    <2> QED
      BY <1>4, <2>1, <2>3, <2>4 DEF Listers
  <1>12. CASE DispatchEntry(t)
    <2>1. x.kind = "round" /\ x.i \in Nat
      BY <1>1, <1>12 DEF DispatchEntry, At, Tasks
    <2>2. Goto(t, "guard") \/ at' = [at EXCEPT ![t].i = at[t].i + 1]
      BY <1>12 DEF DispatchEntry
    <2>3. CASE Goto(t, "guard")
      BY <1>3, <2>3 DEF Pcs
    <2>4. CASE at' = [at EXCEPT ![t].i = at[t].i + 1]
      <3>1. PICK i \in Nat : i = at[t].i + 1
        BY <1>1, <2>1
      <3> DEFINE y == [x EXCEPT !.i = i]
      <3>2. at' = [at EXCEPT ![t] = y]
        BY <1>0, <1>1, <2>4, <3>1 DEF ShapeOK
      <3>3. y \in Tasks /\ y.kind = x.kind /\ y.snap = x.snap
        BY DEF Tasks
      <3> HIDE DEF y
      <3>4. y # None /\ GoesOn(x, y)
        BY <3>3, FuseAssumption DEF GoesOn
      <3> QED
        BY <3>2, <3>3, <3>4 DEF MovesOn
    <2> QED
      BY <2>2, <2>3, <2>4
  <1>13. CASE PlusSlot(t)
    <2>1. x.kind \in {"round", "plus"} /\ (Goto(t, "finish") \/ Leave(t)) /\ "finish" \in Pcs
      BY <1>1, <1>13 DEF PlusSlot, At, CountsOut, Pcs
    <2> QED
      BY <1>3, <1>4, <2>1
  <1>14. CASE finish_plus_round(t)
    <2>1. x.kind \in {"plus", "round"} /\ x.pc = "finish"
      <3>1. x.pc = "finish"
        BY <1>1, <1>14 DEF finish_plus_round
      <3> QED
        BY <1>1, <3>1 DEF TaskOK, StageOK, Tasks, Kinds
    <2>2. PICK n \in Requests : n = x.r
      BY <1>0, <1>1, <2>1, TaskTypes
    <2>3. PICK u \in Nat : u = fill[n].upto
      BY <1>0 DEF ShapeOK, Fills
    <2>4. Leave(t) \/ at' = [at EXCEPT ![t] = RoundOf(n, u)]
      BY <1>1, <1>14, <2>2, <2>3 DEF finish_plus_round
    <2>5. CASE at' = [at EXCEPT ![t] = RoundOf(n, u)]
      <3>1. PICK y \in Tasks : y # None /\ at' = [at EXCEPT ![t] = y] /\ GoesOn(x, y)
        BY <2>1, <2>5, RoundGoes
      <3> QED
        BY <3>1 DEF MovesOn
    <2> QED
      BY <1>4, <2>1, <2>4, <2>5
  <1>15. CASE DropGate(t)
    <2>1. x.kind = "poll" /\ Leave(t)
      BY <1>1, <1>15 DEF DropGate, At
    <2> QED
      BY <1>15, <2>1 DEF MovesOn, Leave
  <1> QED
    BY <1>5, <1>6, <1>7, <1>8, <1>9, <1>10, <1>11, <1>12, <1>13, <1>14, <1>15 DEF ThreadStep

(***************************************************************************)
(* The index of listings.                                                  *)
(***************************************************************************)
Opened == {f \in Requests : open[f] # None}

DirInv == SharedListingsAreExact /\ Cardinality(Opened) <= MAX_DIR_HANDLES

\* Requests are finitely many.
LEMMA RequestsAreFinite == IsFiniteSet(Requests) /\ \A S \in SUBSET Requests : IsFiniteSet(S)
  <1>1. IsFiniteSet(1..MaxRequests)
    BY Bounds, FS_Interval
  <1> QED
    BY <1>1, FS_Subset DEF Requests

\* What an index entry becomes when a handle is admitted on its key.
AdmitsTo(e, l, s) ==
    \/ e = None /\ s.listing = l /\ s.handles = 1
    \/ e # None /\ s.listing = e.listing /\ s.handles = e.handles + 1

\* What try_admit_dir_handle changes, if it admits the handle.
LEMMA AdmitEffect ==
  ASSUME ServiceInv, SharedListingsAreExact, NEW t \in Threads, NEW x \in Tasks, x = at[t], Admit(t)
  PROVE  \/ UNCHANGED <<open, shared>>
         \/ \E n \in Requests, a \in Addrs, l \in Listings, d \in OpenDirs, s \in SharedDirs :
               /\ n = x.r /\ a = x.snap.addr /\ x.snap # None /\ l.gen = x.snap.gen /\ open[n] = None
               /\ Cardinality(Opened) < MAX_DIR_HANDLES
               /\ open' = [open EXCEPT ![n] = d] /\ shared' = [shared EXCEPT ![a] = s]
               /\ d.key = a /\ d.listing = s.listing /\ AdmitsTo(shared[a], l, s)
  <1>1. ShapeOK /\ at[t] # None /\ at[t].pc = "admit" /\ at[t].kind = "opendir"
    BY DEF ServiceInv, Admit, At
  <1>3. x.kind \in Solo /\ x.pc # "guard" /\ x.snap \in Trees /\ x.snap # None /\ TaskOK(x)
    BY <1>1, ListerOK
  <1>4. PICK n \in Requests : n = x.r
    BY <1>3, WaitsForAll
  <1>5. open[n] = None
    BY <1>1, <1>3, <1>4, WaitsForAll
  <1>6. PICK l \in Listings : l = x.listing /\ l.gen = x.snap.gen
    BY <1>1, <1>3 DEF TaskOK, Tasks
  <1>7. PICK a \in Addrs : a = x.snap.addr
    BY <1>3 DEF Trees
  <1>8. try_admit_dir_handle(n, a, l)
    BY <1>4, <1>6, <1>7 DEF Admit
  <1>9. CASE Cardinality(Opened) >= MAX_DIR_HANDLES
    BY <1>8, <1>9 DEF try_admit_dir_handle, Opened
  <1>10. CASE ~(Cardinality(Opened) >= MAX_DIR_HANDLES)
    <2>1. Cardinality(Opened) < MAX_DIR_HANDLES
      <3>1. Cardinality(Opened) \in Nat
        BY RequestsAreFinite, FS_CardinalityType DEF Opened
      <3> QED
        BY <1>10, <3>1, Bounds
    <2>2. PICK e \in SharedDirs \cup {None} : e = shared[a]
      BY <1>1 DEF ShapeOK
    <2>3. PICK m \in Listings : m = Indexed(a, l)
      BY <1>1, SharedTypes
    <2>4. m = IF e = None THEN l ELSE e.listing
      <3>1. CASE e = None
        BY <2>2, <2>3, <3>1 DEF Indexed, shared_listing
      <3>2. CASE e # None
        <4>1. PICK f \in HandlesOn(a) : open[f].listing = e.listing
          BY <2>2, <3>2 DEF SharedListingsAreExact
        <4>2. Strong(e.listing)
          BY <4>1 DEF Strong, HandlesOn
        <4>3. e.listing \in Listings /\ e.listing # None
          BY <3>2, FuseAssumption DEF SharedDirs
        <4> QED
          BY <2>2, <2>3, <3>2, <4>2, <4>3 DEF Indexed, shared_listing
      <3> QED
        BY <3>1, <3>2
    <2>5. PICK d \in OpenDirs : d = [key |-> a, listing |-> m] /\ d.key = a /\ d.listing = m
      <3>1. [key |-> a, listing |-> m] \in OpenDirs
        BY DEF OpenDirs
      <3> QED
        BY <3>1
    <2>6. PICK s \in SharedDirs : /\ s = IF e = None THEN [listing |-> l, handles |-> 1]
                                         ELSE [listing |-> e.listing, handles |-> e.handles + 1]
                                  /\ AdmitsTo(e, l, s) /\ s.listing = m
      <3>1. CASE e = None
        <4>1. [listing |-> l, handles |-> 1] \in SharedDirs
          BY DEF SharedDirs
        <4>2. PICK s \in SharedDirs : s = [listing |-> l, handles |-> 1]
          BY <4>1
        <4> QED
          BY <2>4, <3>1, <4>2 DEF AdmitsTo
      <3>2. CASE e # None
        <4>1. e.listing \in Listings /\ e.handles \in Nat \ {0}
          BY <3>2 DEF SharedDirs
        <4>2. PICK h \in Nat \ {0} : h = e.handles + 1
          BY <4>1
        <4>3. PICK s \in SharedDirs : s = [listing |-> e.listing, handles |-> h]
          BY <4>1, <4>2 DEF SharedDirs
        <4> QED
          BY <2>4, <3>2, <4>2, <4>3 DEF AdmitsTo
      <3> QED
        BY <3>1, <3>2
    <2>7. open' = [open EXCEPT ![n] = d]
      BY <1>8, <1>10, <2>3, <2>5 DEF try_admit_dir_handle, Opened
    <2>8. shared' = [shared EXCEPT ![a] = s]
      BY <1>1, <1>8, <1>10, <2>2, <2>6 DEF try_admit_dir_handle, Opened, ShapeOK
    <2> QED
      BY <1>3, <1>4, <1>5, <1>6, <1>7, <2>1, <2>2, <2>5, <2>6, <2>7, <2>8
  <1> QED
    BY <1>9, <1>10

\* An admitted handle is counted, holds the indexed copy and keeps to the
\* cap.
LEMMA AdmitDirs ==
  ASSUME ServiceInv, DirInv, NEW t \in Threads, NEW x \in Tasks, x = at[t], Admit(t)
  PROVE  DirInv'
  <1>0. ShapeOK
    BY DEF ServiceInv
  <1>1. CASE UNCHANGED <<open, shared>>
    BY <1>1 DEF DirInv, SharedListingsAreExact, HandlesOn, Opened
  <1>2. CASE \E n \in Requests, a \in Addrs, l \in Listings, d \in OpenDirs, s \in SharedDirs :
               /\ n = x.r /\ a = x.snap.addr /\ x.snap # None /\ l.gen = x.snap.gen /\ open[n] = None
               /\ Cardinality(Opened) < MAX_DIR_HANDLES
               /\ open' = [open EXCEPT ![n] = d] /\ shared' = [shared EXCEPT ![a] = s]
               /\ d.key = a /\ d.listing = s.listing /\ AdmitsTo(shared[a], l, s)
    <2>1. PICK n \in Requests, a \in Addrs, l \in Listings, d \in OpenDirs, s \in SharedDirs :
               /\ open[n] = None /\ Cardinality(Opened) < MAX_DIR_HANDLES
               /\ open' = [open EXCEPT ![n] = d] /\ shared' = [shared EXCEPT ![a] = s]
               /\ d.key = a /\ d.listing = s.listing /\ AdmitsTo(shared[a], l, s)
      BY <1>2
    <2>2. /\ open'[n] = d /\ d # None /\ \A f \in Requests : f # n => open'[f] = open[f]
          /\ shared'[a] = s /\ s # None /\ \A b \in Addrs : b # a => shared'[b] = shared[b]
      BY <1>0, <2>1, FuseAssumption DEF ShapeOK
    <2>3. HandlesOn(a)' = HandlesOn(a) \cup {n} /\ n \notin HandlesOn(a)
      BY <2>1, <2>2 DEF HandlesOn
    <2>4. \A b \in Addrs : b # a => HandlesOn(b)' = HandlesOn(b)
      BY <2>1, <2>2 DEF HandlesOn
    <2>5. IsFiniteSet(HandlesOn(a)) /\ IsFiniteSet(Opened)
      BY RequestsAreFinite DEF HandlesOn, Opened
    <2>6. Cardinality(HandlesOn(a)') = Cardinality(HandlesOn(a)) + 1
      BY <2>3, <2>5, FS_AddElement
    <2>7. Opened' = Opened \cup {n} /\ n \notin Opened
      BY <2>1, <2>2 DEF Opened
    <2>8. Cardinality(Opened') <= MAX_DIR_HANDLES
      <3>1. Cardinality(Opened') = Cardinality(Opened) + 1 /\ Cardinality(Opened) \in Nat
        BY <2>5, <2>7, FS_AddElement, FS_CardinalityType
      <3> QED
        BY <2>1, <3>1, Bounds
    <2>9. ASSUME NEW b \in Addrs
          PROVE  IF shared'[b] = None THEN HandlesOn(b)' = {}
                 ELSE /\ shared'[b].handles = Cardinality(HandlesOn(b)') /\ HandlesOn(b)' # {}
                      /\ \A f \in HandlesOn(b)' : open'[f].listing = shared'[b].listing
      <3>1. CASE b # a
        <4>1. shared'[b] = shared[b] /\ HandlesOn(b)' = HandlesOn(b)
          BY <2>2, <2>4, <3>1
        <4>2. \A f \in HandlesOn(b) : open'[f] = open[f]
          BY <2>1, <2>2 DEF HandlesOn
        <4> QED
          BY <4>1, <4>2 DEF DirInv, SharedListingsAreExact
      <3>2. CASE b = a
        <4>1. CASE shared[a] = None
          <5>1. HandlesOn(a) = {} /\ s.handles = 1 /\ Cardinality(HandlesOn(a)) = 0
            BY <2>1, <4>1, FS_EmptySet DEF AdmitsTo, DirInv, SharedListingsAreExact
          <5>2. Cardinality(HandlesOn(a)') = 1 /\ HandlesOn(a)' = {n}
            BY <2>3, <2>6, <5>1
          <5>3. \A f \in {n} : open'[f].listing = s.listing
            BY <2>1, <2>2
          <5> QED
            BY <2>2, <3>2, <5>1, <5>2, <5>3
        <4>2. CASE shared[a] # None
          <5>1. /\ s.listing = shared[a].listing /\ s.handles = shared[a].handles + 1
                /\ shared[a].handles = Cardinality(HandlesOn(a))
                /\ \A f \in HandlesOn(a) : open[f].listing = shared[a].listing
            BY <2>1, <4>2 DEF AdmitsTo, DirInv, SharedListingsAreExact
          <5>2. \A f \in HandlesOn(a) : open'[f] = open[f]
            BY <2>2, <2>3 DEF HandlesOn
          <5> QED
            BY <2>1, <2>2, <2>3, <2>6, <3>2, <5>1, <5>2
        <4> QED
          BY <4>1, <4>2
      <3> QED
        BY <3>1, <3>2
    <2> QED
      BY <2>8, <2>9 DEF DirInv, SharedListingsAreExact
  <1> QED
    BY <1>1, <1>2, AdmitEffect DEF DirInv

\* A released handle is counted out, and takes the entry if it was the
\* last.
LEMMA ReleaseDirs ==
  ASSUME ServiceInv, DirInv, NEW f \in Requests, open[f] # None, release_dir_handle(f)
  PROVE  /\ DirInv'
         /\ \A a \in Addrs : shared'[a] # None => /\ shared[a] # None
                                                  /\ shared'[a].listing = shared[a].listing
  <1>0. ShapeOK
    BY DEF ServiceInv
  <1>1. PICK a \in Addrs : a = open[f].key
    BY <1>0 DEF ShapeOK, OpenDirs
  <1>2. f \in HandlesOn(a)
    BY <1>1 DEF HandlesOn
  <1>3. /\ shared[a] # None /\ shared[a].handles = Cardinality(HandlesOn(a))
        /\ \A g \in HandlesOn(a) : open[g].listing = shared[a].listing
    BY <1>2 DEF DirInv, SharedListingsAreExact
  <1>4. PICK e \in SharedDirs : e = shared[a]
    BY <1>0, <1>3 DEF ShapeOK
  <1>5. e.listing \in Listings /\ e.handles \in Nat \ {0}
    BY DEF SharedDirs
  <1>6. PICK s \in SharedDirs \cup {None} :
           /\ s = IF e.handles = 1 THEN None ELSE [listing |-> e.listing, handles |-> e.handles - 1]
           /\ (s = None <=> e.handles = 1)
           /\ s # None => s.listing = e.listing /\ s.handles = e.handles - 1
    <2>1. CASE e.handles = 1
      BY <2>1
    <2>2. CASE e.handles # 1
      <3>1. PICK h \in Nat \ {0} : h = e.handles - 1
        BY <1>5, <2>2
      <3>2. PICK s \in SharedDirs : s = [listing |-> e.listing, handles |-> h]
        BY <1>5, <3>1 DEF SharedDirs
      <3> QED
        BY <2>2, <3>1, <3>2, FuseAssumption
    <2> QED
      BY <2>1, <2>2
  <1>7. shared' = [shared EXCEPT ![a] = s] /\ open' = [open EXCEPT ![f] = None]
    BY <1>0, <1>1, <1>4, <1>6 DEF release_dir_handle, ShapeOK
  <1>8. /\ open'[f] = None /\ \A g \in Requests : g # f => open'[g] = open[g]
        /\ shared'[a] = s /\ \A b \in Addrs : b # a => shared'[b] = shared[b]
    BY <1>0, <1>7 DEF ShapeOK
  <1>9. HandlesOn(a)' = HandlesOn(a) \ {f}
    BY <1>8 DEF HandlesOn
  <1>10. \A b \in Addrs : b # a => HandlesOn(b)' = HandlesOn(b)
    BY <1>1, <1>8 DEF HandlesOn
  <1>11. IsFiniteSet(HandlesOn(a)) /\ IsFiniteSet(Opened) /\ IsFiniteSet(HandlesOn(a)')
    BY RequestsAreFinite DEF HandlesOn, Opened
  <1>12. /\ Cardinality(HandlesOn(a)') = Cardinality(HandlesOn(a)) - 1
         /\ Cardinality(HandlesOn(a)') \in Nat /\ Cardinality(HandlesOn(a)) \in Nat
    BY <1>2, <1>9, <1>11, FS_RemoveElement, FS_CardinalityType
  <1>13. Cardinality(Opened') <= MAX_DIR_HANDLES
    <2>1. Opened' \subseteq Opened
      BY <1>8 DEF Opened
    <2>2. Cardinality(Opened') <= Cardinality(Opened) /\ Cardinality(Opened') \in Nat /\ Cardinality(Opened) \in Nat
      BY <1>11, <2>1, FS_Subset, FS_CardinalityType
    <2> QED
      BY <2>2, Bounds DEF DirInv
  <1>14. ASSUME NEW b \in Addrs
         PROVE  IF shared'[b] = None THEN HandlesOn(b)' = {}
                ELSE /\ shared'[b].handles = Cardinality(HandlesOn(b)') /\ HandlesOn(b)' # {}
                     /\ \A g \in HandlesOn(b)' : open'[g].listing = shared'[b].listing
    <2>1. CASE b # a
      <3>1. shared'[b] = shared[b] /\ HandlesOn(b)' = HandlesOn(b)
        BY <1>8, <1>10, <2>1
      <3>2. \A g \in HandlesOn(b) : open'[g] = open[g]
        BY <1>1, <1>8, <2>1 DEF HandlesOn
      <3> QED
        BY <3>1, <3>2 DEF DirInv, SharedListingsAreExact
    <2>2. CASE b = a /\ s = None
      <3>1. Cardinality(HandlesOn(a)') = 0
        BY <1>3, <1>4, <1>6, <1>12, <2>2
      <3>2. HandlesOn(a)' = {}
        BY <1>11, <3>1, FS_EmptySet
      <3> QED
        BY <1>8, <2>2, <3>2
    <2>3. CASE b = a /\ s # None
      <3>1. s.handles = Cardinality(HandlesOn(a)') /\ s.handles # 0
        BY <1>3, <1>4, <1>5, <1>6, <1>12, <2>3
      <3>2. HandlesOn(a)' # {}
        BY <3>1, FS_EmptySet
      <3>3. \A g \in HandlesOn(a)' : open'[g].listing = s.listing
        BY <1>3, <1>4, <1>6, <1>8, <1>9, <2>3 DEF HandlesOn
      <3> QED
        BY <1>8, <2>3, <3>1, <3>2, <3>3
    <2> QED
      BY <2>1, <2>2, <2>3
  <1>15. DirInv'
    BY <1>13, <1>14 DEF DirInv, SharedListingsAreExact
  <1> QED
    BY <1>3, <1>4, <1>6, <1>8, <1>15

(***************************************************************************)
(* Addresses and generations.                                              *)
(***************************************************************************)

\* What is held was held before.
LEMMA HeldKeeps ==
  ASSUME GenInv, tree' = tree,
         \A u \in Threads : at'[u] # None /\ at'[u].snap # None =>
             HeldGen(at'[u].snap.addr, at'[u].snap.gen),
         \A a \in Addrs : shared'[a] # None => HeldGen(a, shared'[a].listing.gen)
  PROVE  GenInv'
  <1>1. ASSUME NEW a \in Addrs, NEW g, HeldGen(a, g)' PROVE HeldGen(a, g)
    <2>1. CASE tree'.addr = a /\ tree'.gen = g
      BY <2>1 DEF HeldGen
    <2>2. CASE \E t \in Threads : /\ at'[t] # None /\ at'[t].snap # None
                                  /\ at'[t].snap.addr = a /\ at'[t].snap.gen = g
      BY <2>2
    <2>3. CASE shared'[a] # None /\ shared'[a].listing.gen = g
      BY <2>3
    <2> QED
      BY <1>1, <2>1, <2>2, <2>3 DEF HeldGen
  <1> QED
    BY <1>1 DEF GenInv

\* A thread that goes on, or ends its task, holds no tree it did not hold.
LEMMA SnapsHeld ==
  ASSUME ShapeOK, NEW t \in Threads, NEW x \in Tasks \cup {None}, x = at[t],
         NEW y \in Tasks \cup {None}, at' = [at EXCEPT ![t] = y],
         y # None => y.snap = None \/ (x # None /\ y.snap = x.snap) \/ y.snap = tree
  PROVE  \A u \in Threads : at'[u] # None /\ at'[u].snap # None =>
             HeldGen(at'[u].snap.addr, at'[u].snap.gen)
  <1> SUFFICES ASSUME NEW u \in Threads, at'[u] # None, at'[u].snap # None
               PROVE  HeldGen(at'[u].snap.addr, at'[u].snap.gen)
    OBVIOUS
  <1>1. CASE u = t
    <2>1. at'[u] = y
      BY <1>1 DEF ShapeOK
    <2> QED
      BY <1>1, <2>1 DEF HeldGen
  <1>2. CASE u # t
    <2>1. at'[u] = at[u]
      BY <1>2 DEF ShapeOK
    <2> QED
      BY <2>1 DEF HeldGen
  <1> QED
    BY <1>1, <1>2

\* Index entries that stay hold their generation.
LEMMA SharesHeld ==
  ASSUME \A a \in Addrs : shared'[a] # None => /\ shared[a] # None
                                               /\ shared'[a].listing = shared[a].listing
  PROVE  \A a \in Addrs : shared'[a] # None => HeldGen(a, shared'[a].listing.gen)
  BY DEF HeldGen

\* A new tree goes where nobody holds one.
LEMMA PollGen ==
  ASSUME ServiceInv, GenInv, NEW t \in Threads, PollRefresh(t)
  PROVE  GenInv'
  <1>0. ShapeOK /\ shared' = shared
    BY DEF ServiceInv, PollRefresh
  <1>1. PICK x \in Tasks : x = at[t]
    BY <1>0 DEF PollRefresh, At, ShapeOK
  <1>2. PICK y \in Tasks : at' = [at EXCEPT ![t] = y] /\ y.snap = x.snap
    <2>1. Goto(t, "guard") /\ "guard" \in Pcs
      BY DEF PollRefresh, Pcs
    <2> QED
      BY <1>0, <1>1, <2>1, GotoTask
  <1>3. \A u \in Threads : at'[u] # None /\ at'[u].snap # None =>
             HeldGen(at'[u].snap.addr, at'[u].snap.gen)
    <2>1. x # None
      BY FuseAssumption
    <2> QED
      BY <1>0, <1>1, <1>2, <2>1, SnapsHeld
  <1>4. CASE tree' = tree
    BY <1>0, <1>3, <1>4, HeldKeeps, SharesHeld
  <1>5. CASE \E a \in Addrs \ LiveAddrs : tree' = [gen |-> tree.gen + 1, addr |-> a]
    <2>1. PICK a \in Addrs : a \notin LiveAddrs /\ tree'.addr = a
      BY <1>5
    <2>2. \A g : ~HeldGen(a, g)
      BY <2>1 DEF HeldGen, LiveAddrs
    <2>3. ASSUME NEW b \in Addrs, NEW g, HeldGen(b, g)'
          PROVE  (b # a => HeldGen(b, g)) /\ (b = a => g = tree'.gen)
      <3>1. CASE tree'.addr = b /\ tree'.gen = g
        BY <2>1, <3>1
      <3>2. CASE \E u \in Threads : /\ at'[u] # None /\ at'[u].snap # None
                                    /\ at'[u].snap.addr = b /\ at'[u].snap.gen = g
        <4>1. HeldGen(b, g)
          BY <1>3, <3>2
        <4> QED
          BY <2>2, <4>1
      <3>3. CASE shared'[b] # None /\ shared'[b].listing.gen = g
        <4>1. HeldGen(b, g)
          BY <1>0, <3>3 DEF HeldGen
        <4> QED
          BY <2>2, <4>1
      <3> QED
        BY <2>3, <3>1, <3>2, <3>3 DEF HeldGen
    <2> QED
      BY <2>3 DEF GenInv
  <1> QED
    BY <1>4, <1>5 DEF PollRefresh

\* Every step keeps the index and the generations of its addresses.
LEMMA IndexStep ==
  ASSUME ServiceInv, GenInv, DirInv, [Next]_vars
  PROVE  GenInv' /\ DirInv'
  <1>0. ShapeOK /\ SharedListingsAreExact /\ Dispatch \in Threads
    BY Bounds DEF ServiceInv, DirInv
  <1>s. ASSUME UNCHANGED <<open, shared>> PROVE DirInv'
    BY <1>s DEF DirInv, SharedListingsAreExact, HandlesOn, Opened
  <1>g. ASSUME tree' = tree, at' = at, \A a \in Addrs : shared'[a] # None =>
                   shared[a] # None /\ shared'[a].listing = shared[a].listing
        PROVE  GenInv'
    <2>1. \A u \in Threads : at'[u] # None /\ at'[u].snap # None =>
             HeldGen(at'[u].snap.addr, at'[u].snap.gen)
      BY <1>g DEF HeldGen
    <2> QED
      BY <1>g, <2>1, HeldKeeps, SharesHeld
  <1>1. CASE KernelStep
    <2>1. CASE Getattr \/ Opendir \/ Read \/ Open \/ (\E f \in DirHandles : Readdir(f))
               \/ (\E f \in Requests : Release(f))
      <3>1. UNCHANGED <<tree, at, open, shared>>
        BY <2>1 DEF Getattr, Opendir, Read, Open, Readdir, Release
      <3> QED
        BY <1>g, <1>s, <3>1
    <2>2. ASSUME NEW f \in DirHandles, Releasedir(f) PROVE GenInv' /\ DirInv'
      <3>1. f \in Requests /\ open[f] # None
        BY <1>0, <2>2, DirHandleTypes DEF Releasedir
      <3>2. release_dir_handle(f) /\ UNCHANGED <<tree, at>>
        BY <2>2 DEF Releasedir
      <3> QED
        BY <1>g, <3>1, <3>2, ReleaseDirs
    <2>3. ASSUME NEW f \in DirHandles, NEW p \in Pages, Readdirplus(f, p[1], p[2])
          PROVE  GenInv' /\ DirInv'
      <3>1. UNCHANGED <<tree, open, shared>>
        BY <2>3 DEF Readdirplus
      <3>2. CASE Held(f)
        <4>1. p[1] \in Nat /\ next \in Requests /\ at[Dispatch] = None
          BY <2>3, NextIsFresh, FuseAssumption DEF Readdirplus, CanSend
        <4>2. PICK y \in Tasks : y = RoundOf(next, p[1])
          BY <4>1, FreshTypes
        <4>3. at' = [at EXCEPT ![Dispatch] = y] /\ y.snap = None
          BY <2>3, <3>2, <4>2 DEF Readdirplus, RoundOf, Doing
        <4>4. \A u \in Threads : at'[u] # None /\ at'[u].snap # None =>
                 HeldGen(at'[u].snap.addr, at'[u].snap.gen)
          <5>1. PICK x \in Tasks \cup {None} : x = at[Dispatch]
            BY <4>1
          <5> QED
            BY <1>0, <4>3, <5>1, SnapsHeld
        <4> QED
          BY <1>s, <3>1, <4>4, HeldKeeps, SharesHeld
      <3>3. CASE ~Held(f)
        BY <1>g, <1>s, <2>3, <3>1, <3>3 DEF Readdirplus
      <3> QED
        BY <3>2, <3>3
    <2> QED
      BY <1>1, <2>1, <2>2, <2>3 DEF KernelStep
  <1>2. CASE PollComesDue \/ UNCHANGED vars
    <2>1. UNCHANGED <<tree, at, open, shared>>
      BY <1>2 DEF PollComesDue, vars
    <2> QED
      BY <1>g, <1>s, <2>1
  <1>3. ASSUME NEW t \in Threads, ThreadStep(t) PROVE GenInv' /\ DirInv'
    <2>1. PICK x \in Tasks, y \in Tasks \cup {None} : x = at[t] /\ x # None /\ MovesOn(t, x, y)
      BY <1>3, ThreadMove
    <2>2. /\ at' = [at EXCEPT ![t] = y]
          /\ y # None => y.snap = None \/ y.snap = x.snap
      BY <2>1 DEF MovesOn, GoesOn
    <2>3. \A u \in Threads : at'[u] # None /\ at'[u].snap # None =>
             HeldGen(at'[u].snap.addr, at'[u].snap.gen)
      BY <1>0, <2>1, <2>2, SnapsHeld
    <2>4. CASE PollRefresh(t)
      <3>1. UNCHANGED <<open, shared>>
        BY <2>4 DEF PollRefresh
      <3> QED
        BY <1>s, <2>4, <3>1, PollGen
    <2>5. CASE Admit(t)
      <3>1. tree' = tree
        BY <2>5 DEF Admit
      <3>2. CASE UNCHANGED <<open, shared>>
        BY <1>s, <2>3, <3>1, <3>2, HeldKeeps, SharesHeld
      <3>3. CASE \E n \in Requests, a \in Addrs, l \in Listings, d \in OpenDirs, s \in SharedDirs :
               /\ n = x.r /\ a = x.snap.addr /\ x.snap # None /\ l.gen = x.snap.gen /\ open[n] = None
               /\ Cardinality(Opened) < MAX_DIR_HANDLES
               /\ open' = [open EXCEPT ![n] = d] /\ shared' = [shared EXCEPT ![a] = s]
               /\ d.key = a /\ d.listing = s.listing /\ AdmitsTo(shared[a], l, s)
        <4>1. PICK a \in Addrs, l \in Listings, s \in SharedDirs :
                 /\ a = x.snap.addr /\ x.snap # None /\ l.gen = x.snap.gen
                 /\ shared' = [shared EXCEPT ![a] = s] /\ AdmitsTo(shared[a], l, s)
          BY <3>3
        <4>2. HeldGen(a, s.listing.gen)
          <5>1. HeldGen(a, x.snap.gen)
            BY <2>1, <4>1 DEF HeldGen
          <5>2. CASE shared[a] = None
            BY <4>1, <5>1, <5>2 DEF AdmitsTo
          <5>3. CASE shared[a] # None
            BY <4>1, <5>3 DEF AdmitsTo, HeldGen
          <5> QED
            BY <5>2, <5>3
        <4>3. \A b \in Addrs : shared'[b] # None => HeldGen(b, shared'[b].listing.gen)
          <5> SUFFICES ASSUME NEW b \in Addrs, shared'[b] # None
                       PROVE  HeldGen(b, shared'[b].listing.gen)
            OBVIOUS
          <5>1. CASE b = a
            BY <1>0, <4>1, <4>2, <5>1 DEF ShapeOK
          <5>2. CASE b # a
            BY <1>0, <4>1, <5>2 DEF ShapeOK, HeldGen
          <5> QED
            BY <5>1, <5>2
        <4>4. GenInv'
          BY <2>3, <3>1, <4>3, HeldKeeps
        <4> QED
          BY <2>1, <2>5, <4>4, AdmitDirs
      <3> QED
        BY <1>0, <2>1, <2>5, <3>2, <3>3, AdmitEffect
    <2>6. CASE ~PollRefresh(t) /\ ~Admit(t)
      <3>1. UNCHANGED <<tree, open, shared>>
        BY <1>3, <2>6 DEF ThreadStep, RunGetattr, RunRead, DropSlot, OpenHandle, reply_open, Probe,
           build_dir_listing, DispatchEntry, ResolveEntry, PlusSlot, finish_plus_round, DropGate
      <3> QED
        BY <1>s, <2>3, <3>1, HeldKeeps, SharesHeld
    <2> QED
      BY <2>4, <2>5, <2>6
  <1>4. ASSUME NEW w \in Workers, TakeJob(w) \/ LoseJob(w) PROVE GenInv' /\ DirInv'
    <2>1. UNCHANGED <<tree, open, shared>> /\ w \in Threads /\ queue # <<>> /\ at[w] = None
      BY <1>4 DEF TakeJob, LoseJob, Threads
    <2>2. PICK j \in Jobs : j = Head(queue)
      BY <1>0, <2>1, QueueTypes
    <2>3. PICK s \in Trees : s = tree
      BY <1>0 DEF ShapeOK
    <2>4. PICK pc \in Pcs, v \in Trees \cup {None} : /\ at' = [at EXCEPT ![w] = Doing(j, pc, v)]
                                                     /\ v = None \/ v = s
      <3>1. "probe" \in Pcs /\ "run" \in Pcs /\ "guard" \in Pcs
        BY DEF Pcs
      <3>2. CASE TakeJob(w) /\ j.kind \in Listers
        BY <2>2, <2>3, <3>1, <3>2 DEF TakeJob
      <3>3. CASE TakeJob(w) /\ j.kind \notin Listers
        BY <2>2, <3>1, <3>3 DEF TakeJob
      <3>4. CASE LoseJob(w)
        BY <2>2, <3>1, <3>4 DEF LoseJob
      <3> QED
        BY <1>4, <3>2, <3>3, <3>4
    <2>5. PICK y \in Tasks : y = Doing(j, pc, v) /\ y.snap = v
      BY DoingTask
    <2>6. PICK x \in Tasks \cup {None} : x = at[w]
      BY <2>1
    <2>7. \A u \in Threads : at'[u] # None /\ at'[u].snap # None =>
             HeldGen(at'[u].snap.addr, at'[u].snap.gen)
      BY <1>0, <2>1, <2>3, <2>4, <2>5, <2>6, SnapsHeld
    <2> QED
      BY <1>s, <2>1, <2>7, HeldKeeps, SharesHeld
  <1> QED
    BY <1>1, <1>2, <1>3, <1>4 DEF Next

(***************************************************************************)
(* The guards: what is counted when a task is queued is counted out when   *)
(* it is dropped.                                                          *)
(***************************************************************************)
KindJobs(kind) == {j \in Jobs : j.kind = kind}
KindTasks(kind) == {x \in Tasks : x.kind = kind}

Count(kind) == Live(queue, at, KindJobs(kind), KindTasks(kind))

GuardCounts == inflight = Count("read") /\ Count("poll") = One(poll_pending)

GuardInv ==
    GuardsTrackTheirTasks /\ inflight <= MAX_INFLIGHT_READS /\ PassthroughEndsWithHandle

\* The jobs and tasks of a kind, as the property counts them.
LEMMA JobsCounted ==
  ASSUME NEW q \in Seq(Jobs), NEW a \in [Threads -> Tasks \cup {None}], NEW kind
  PROVE  Cardinality({k \in 1..Len(q) : q[k].kind = kind})
         + Cardinality({t \in Threads : a[t] # None /\ a[t].kind = kind})
         = Live(q, a, KindJobs(kind), KindTasks(kind))
  <1>1. \A k \in 1..Len(q) : q[k] \in Jobs
    OBVIOUS
  <1>2. {k \in 1..Len(q) : q[k].kind = kind} = {k \in 1..Len(q) : q[k] \in KindJobs(kind)}
    BY <1>1 DEF KindJobs
  <1>3. \A t \in Threads : a[t] \in KindTasks(kind) <=> a[t] # None /\ a[t].kind = kind
    BY FuseAssumption DEF KindTasks
  <1>4. {t \in Threads : a[t] # None /\ a[t].kind = kind} = {t \in Threads : a[t] \in KindTasks(kind)}
    BY <1>3
  <1> QED
    BY <1>2, <1>4 DEF Live, InQueue, InThreads

\* The property of the guards, in terms of the counts.
LEMMA GuardsAreCounts ==
  /\ ShapeOK => (GuardsTrackTheirTasks <=> GuardCounts)
  /\ ShapeOK' => (GuardsTrackTheirTasks' <=> GuardCounts')
  <1>1. ASSUME ShapeOK PROVE JobsOf("read") = Count("read") /\ JobsOf("poll") = Count("poll")
    BY <1>1, JobsCounted DEF ShapeOK, JobsOf, Count
  <1>2. ASSUME ShapeOK' PROVE JobsOf("read")' = Count("read")' /\ JobsOf("poll")' = Count("poll")'
    BY <1>2, JobsCounted DEF ShapeOK, JobsOf, Count
  <1> QED
    BY <1>1, <1>2 DEF GuardsTrackTheirTasks, GuardCounts, One

\* How the queue's share of the counts moves.
LEMMA KindAppend ==
  ASSUME NEW q \in Seq(Jobs), NEW j \in Jobs, NEW kind
  PROVE  InQueue(Append(q, j), KindJobs(kind)) = InQueue(q, KindJobs(kind)) + One(j.kind = kind)
  <1>1. j \in KindJobs(kind) <=> j.kind = kind
    BY DEF KindJobs
  <1> QED
    BY <1>1, CountAppend DEF One

KindMoved(kind, x, y) ==
    InThreads(at', KindTasks(kind)) = InThreads(at, KindTasks(kind))
       - One(x # None /\ x.kind = kind) + One(y # None /\ y.kind = kind)

\* How the count of a kind moves with one thread's task.
LEMMA KindMove ==
  ASSUME ShapeOK, NEW t \in Threads, NEW x \in Tasks \cup {None}, x = at[t],
         NEW y \in Tasks \cup {None}, at' = [at EXCEPT ![t] = y]
  PROVE  \A kind : KindMoved(kind, x, y)
  <1> SUFFICES ASSUME NEW kind PROVE KindMoved(kind, x, y)
    OBVIOUS
  <1>1. at'[t] = y /\ \A u \in Threads : u # t => at'[u] = at[u]
    BY DEF ShapeOK
  <1>2. \A z \in Tasks \cup {None} : z \in KindTasks(kind) <=> z # None /\ z.kind = kind
    BY FuseAssumption DEF KindTasks
  <1>3. InThreads(at', KindTasks(kind)) = InThreads(at, KindTasks(kind))
            - One(at[t] \in KindTasks(kind)) + One(at'[t] \in KindTasks(kind))
    BY <1>1, ThreadMoves
  <1>4. /\ at[t] \in KindTasks(kind) <=> x # None /\ x.kind = kind
        /\ at'[t] \in KindTasks(kind) <=> y # None /\ y.kind = kind
    BY <1>1, <1>2
  <1> QED
    BY <1>3, <1>4 DEF One, KindMoved

\* The counts of a kind are natural numbers.
LEMMA KindTypes ==
  ASSUME ShapeOK, NEW kind
  PROVE  InQueue(queue, KindJobs(kind)) \in Nat /\ InThreads(at, KindTasks(kind)) \in Nat
  BY CountTypes DEF ShapeOK

\* The poll that goes ahead of a request's job shuts the gate.
LEMMA FiredKinds ==
  ASSUME ShapeOK, NEW jobs, fire_poll_refresh(jobs),
         jobs = <<>> \/ \E j \in Jobs : j.kind \notin {"read", "poll"} /\ jobs = <<j>>
  PROVE  /\ InQueue(queue', KindJobs("read")) = InQueue(queue, KindJobs("read"))
         /\ InQueue(queue', KindJobs("poll")) = InQueue(queue, KindJobs("poll")) + One(Fires)
         /\ poll_pending' = (poll_pending \/ due)
  <1>0. queue \in Seq(Jobs)
    BY DEF ShapeOK
  <1>p. Job("poll", None, 0) \in Jobs /\ Job("poll", None, 0).kind = "poll"
    BY DEF Jobs, Job
  <1>1. PICK p \in Jobs : p = Job("poll", None, 0) /\ p.kind = "poll"
    BY <1>p
  <1>2. PICK q \in Seq(Jobs) : /\ q = IF Fires THEN Append(queue, p) ELSE queue
                               /\ jobs = <<>> => queue' = q
                               /\ \A j \in Jobs : jobs = <<j>> => queue' = Append(q, j)
    <2>1. jobs = <<>> \/ \E j \in Jobs : jobs = <<j>>
      OBVIOUS
    <2> QED
      BY <1>0, <1>1, <2>1, FiredQueue
  <1>3. /\ InQueue(q, KindJobs("read")) = InQueue(queue, KindJobs("read"))
        /\ InQueue(q, KindJobs("poll")) = InQueue(queue, KindJobs("poll")) + One(Fires)
    <2>1. InQueue(queue, KindJobs("read")) \in Nat /\ InQueue(queue, KindJobs("poll")) \in Nat
      BY KindTypes
    <2>2. CASE Fires
      <3>1. q = Append(queue, p)
        BY <1>2, <2>2
      <3>2. /\ InQueue(q, KindJobs("read")) = InQueue(queue, KindJobs("read")) + One(p.kind = "read")
            /\ InQueue(q, KindJobs("poll")) = InQueue(queue, KindJobs("poll")) + One(p.kind = "poll")
        BY <1>0, <3>1, KindAppend
      <3> QED
        BY <1>1, <2>1, <2>2, <3>2 DEF One
    <2>3. CASE ~Fires
      <3>1. q = queue
        BY <1>2, <2>3
      <3> QED
        BY <2>1, <2>3, <3>1 DEF One
    <2> QED
      BY <2>2, <2>3
  <1>4. InQueue(q, KindJobs("read")) \in Nat /\ InQueue(q, KindJobs("poll")) \in Nat
    BY CountTypes
  <1>5. InQueue(queue', KindJobs("read")) = InQueue(q, KindJobs("read"))
        /\ InQueue(queue', KindJobs("poll")) = InQueue(q, KindJobs("poll"))
    <2>1. CASE jobs = <<>>
      BY <1>2, <2>1
    <2>2. ASSUME NEW j \in Jobs, j.kind \notin {"read", "poll"}, jobs = <<j>>
          PROVE  InQueue(queue', KindJobs("read")) = InQueue(q, KindJobs("read"))
                 /\ InQueue(queue', KindJobs("poll")) = InQueue(q, KindJobs("poll"))
      <3>1. queue' = Append(q, j)
        BY <1>2, <2>2
      <3>2. /\ InQueue(queue', KindJobs("read")) = InQueue(q, KindJobs("read")) + One(j.kind = "read")
            /\ InQueue(queue', KindJobs("poll")) = InQueue(q, KindJobs("poll")) + One(j.kind = "poll")
        BY <3>1, KindAppend
      <3> QED
        BY <1>4, <2>2, <3>2 DEF One
    <2> QED
      BY <2>1, <2>2
  <1>6. poll_pending' = (poll_pending \/ due)
    BY DEF fire_poll_refresh
  <1> QED
    BY <1>3, <1>5, <1>6

\* A request that arrives shuts the gate for the poll it brings.
LEMMA FiredGuards ==
  ASSUME ShapeOK, GuardCounts, NEW jobs, fire_poll_refresh(jobs), inflight' = inflight,
         jobs = <<>> \/ \E j \in Jobs : j.kind \notin {"read", "poll"} /\ jobs = <<j>>,
         \A kind \in {"read", "poll"} :
            InThreads(at', KindTasks(kind)) = InThreads(at, KindTasks(kind))
  PROVE  GuardCounts'
  <1>1. /\ InQueue(queue', KindJobs("read")) = InQueue(queue, KindJobs("read"))
        /\ InQueue(queue', KindJobs("poll")) = InQueue(queue, KindJobs("poll")) + One(Fires)
        /\ poll_pending' = (poll_pending \/ due)
    BY FiredKinds
  <1>2. /\ InQueue(queue, KindJobs("read")) \in Nat /\ InThreads(at, KindTasks("read")) \in Nat
        /\ InQueue(queue, KindJobs("poll")) \in Nat /\ InThreads(at, KindTasks("poll")) \in Nat
    BY KindTypes
  <1>3. due \in BOOLEAN /\ poll_pending \in BOOLEAN
    BY DEF ShapeOK
  <1>4. One(poll_pending) + One(Fires) = One(poll_pending')
    <2>1. poll_pending' <=> (poll_pending \/ due)
      BY <1>1
    <2>2. CASE poll_pending
      BY <2>1, <2>2 DEF One, Fires
    <2>3. CASE ~poll_pending
      BY <2>1, <2>3 DEF One, Fires
    <2> QED
      BY <2>2, <2>3
  <1>5. /\ InThreads(at', KindTasks("read")) = InThreads(at, KindTasks("read"))
        /\ InThreads(at', KindTasks("poll")) = InThreads(at, KindTasks("poll"))
    OBVIOUS
  <1>6. One(poll_pending) \in Nat /\ One(Fires) \in Nat
    BY DEF One
  <1>7. inflight' = InQueue(queue', KindJobs("read")) + InThreads(at', KindTasks("read"))
    BY <1>1, <1>5 DEF GuardCounts, Count, Live
  <1>8. InQueue(queue, KindJobs("poll")) + InThreads(at, KindTasks("poll")) = One(poll_pending)
    BY DEF GuardCounts, Count, Live
  <1>9. InQueue(queue', KindJobs("poll")) + InThreads(at', KindTasks("poll")) = One(poll_pending')
    BY <1>1, <1>2, <1>4, <1>5, <1>6, <1>8
  <1> QED
    BY <1>7, <1>9 DEF GuardCounts, Count, Live

\* A thread gives back what its task held, at its end only.
LEMMA ThreadGuards ==
  ASSUME ServiceInv, GuardCounts, NEW t \in Threads, ThreadStep(t)
  PROVE  GuardCounts' /\ inflight' <= inflight
  <1>0. ShapeOK /\ queue \in Seq(Jobs) /\ inflight \in Int /\ poll_pending \in BOOLEAN
    BY DEF ServiceInv, ShapeOK
  <1>1. PICK x \in Tasks, y \in Tasks \cup {None} : x = at[t] /\ x # None /\ MovesOn(t, x, y)
    BY ThreadMove
  <1>2. at' = [at EXCEPT ![t] = y] /\ at'[t] = y
    BY <1>0, <1>1 DEF MovesOn, ShapeOK
  <1>3. \A kind : InQueue(queue, KindJobs(kind)) \in Nat /\ InThreads(at, KindTasks(kind)) \in Nat
    BY <1>0, KindTypes
  <1>4. InQueue(queue', KindJobs("read")) = InQueue(queue, KindJobs("read"))
        /\ InQueue(queue', KindJobs("poll")) = InQueue(queue, KindJobs("poll"))
    <2>1. CASE UNCHANGED queue
      BY <2>1
    <2>2. CASE DispatchEntry(t)
      <3>1. x.kind = "round"
        BY <1>1, <2>2 DEF DispatchEntry, At
      <3>2. PICK n \in Requests : n = x.r
        BY <1>0, <1>1, <3>1, TaskTypes
      <3>3. PICK i \in Nat : i = x.i
        BY <1>1 DEF Tasks
      <3>4. Job("plus", n, i) \in Jobs /\ Job("plus", n, i).kind = "plus"
        BY DEF Job, Jobs
      <3>5. queue' = queue \/ queue' = Append(queue, Job("plus", n, i))
        BY <1>1, <2>2, <3>2, <3>3 DEF DispatchEntry
      <3>6. PICK j \in Jobs : j.kind = "plus" /\ j = Job("plus", n, i)
        BY <3>4
      <3>7. CASE queue' = Append(queue, j)
        <4>1. /\ InQueue(queue', KindJobs("read"))
                 = InQueue(queue, KindJobs("read")) + One(j.kind = "read")
              /\ InQueue(queue', KindJobs("poll"))
                 = InQueue(queue, KindJobs("poll")) + One(j.kind = "poll")
          BY <1>0, <3>7, KindAppend
        <4> QED
          BY <1>3, <3>6, <4>1 DEF One
      <3> QED
        BY <2>1, <3>5, <3>6, <3>7
    <2> QED
      BY <2>1, <2>2 DEF ThreadStep, RunGetattr, RunRead, DropSlot, OpenHandle, reply_open, Probe,
         build_dir_listing, Admit, ResolveEntry, PlusSlot, finish_plus_round, PollRefresh, DropGate
  <1>5. \A kind : InThreads(at', KindTasks(kind)) = InThreads(at, KindTasks(kind))
                     - One(x.kind = kind) + One(y # None /\ y.kind = kind)
    <2> SUFFICES ASSUME NEW kind
                 PROVE  InThreads(at', KindTasks(kind)) = InThreads(at, KindTasks(kind))
                           - One(x.kind = kind) + One(y # None /\ y.kind = kind)
      OBVIOUS
    <2>1. KindMoved(kind, x, y)
      BY <1>0, <1>1, <1>2, KindMove
    <2> QED
      BY <1>1, <2>1 DEF One, KindMoved
  <1>6. y # None => /\ x.kind = "read" <=> y.kind = "read"
                    /\ x.kind = "poll" <=> y.kind = "poll"
    BY <1>1 DEF MovesOn, GoesOn
  <1>7. inflight' = inflight - One(y = None /\ x.kind = "read")
    <2>1. CASE DropSlot(t)
      <3>1. x.kind = "read" /\ y = None /\ inflight' = inflight - 1
        BY <1>0, <1>1, <1>2, <2>1 DEF DropSlot, At, Leave, ShapeOK
      <3> QED
        BY <3>1 DEF One
    <2>2. CASE ~DropSlot(t)
      <3>1. inflight' = inflight
        BY <2>2 DEF ThreadStep, RunGetattr, RunRead, OpenHandle, reply_open, Probe,
           build_dir_listing, Admit, DispatchEntry, ResolveEntry, PlusSlot, finish_plus_round,
           PollRefresh, DropGate
      <3>2. ~(y = None /\ x.kind = "read")
        BY <1>1, <2>2 DEF MovesOn
      <3> QED
        BY <1>0, <3>1, <3>2 DEF One
    <2> QED
      BY <2>1, <2>2
  <1>8. poll_pending' = IF y = None /\ x.kind = "poll" THEN FALSE ELSE poll_pending
    <2>1. CASE DropGate(t)
      BY <1>0, <1>1, <1>2, <2>1 DEF DropGate, GateFreed, At, Leave, ShapeOK
    <2>2. CASE ~DropGate(t)
      <3>1. poll_pending' = poll_pending
        BY <2>2 DEF ThreadStep, RunGetattr, RunRead, DropSlot, OpenHandle, reply_open, Probe,
           build_dir_listing, Admit, DispatchEntry, ResolveEntry, PlusSlot, finish_plus_round,
           PollRefresh
      <3>2. ~(y = None /\ x.kind = "poll")
        BY <1>1, <2>2 DEF MovesOn
      <3> QED
        BY <3>1, <3>2
    <2> QED
      BY <2>1, <2>2
  <1>9. /\ inflight = InQueue(queue, KindJobs("read")) + InThreads(at, KindTasks("read"))
        /\ InQueue(queue, KindJobs("poll")) + InThreads(at, KindTasks("poll")) = One(poll_pending)
    BY DEF GuardCounts, Count, Live
  <1>10. inflight' = InQueue(queue', KindJobs("read")) + InThreads(at', KindTasks("read"))
         /\ inflight' <= inflight
    <2>1. InThreads(at', KindTasks("read")) = InThreads(at, KindTasks("read"))
             - One(x.kind = "read") + One(y # None /\ y.kind = "read")
      BY <1>5
    <2>2. -One(x.kind = "read") + One(y # None /\ y.kind = "read") = -One(y = None /\ x.kind = "read")
      BY <1>6 DEF One
    <2>3. /\ One(x.kind = "read") \in Nat /\ One(y # None /\ y.kind = "read") \in Nat
          /\ One(y = None /\ x.kind = "read") \in Nat
      BY DEF One
    <2>4. InQueue(queue, KindJobs("read")) \in Nat /\ InThreads(at, KindTasks("read")) \in Nat
      BY <1>3
    <2>5. InThreads(at', KindTasks("read")) = InThreads(at, KindTasks("read"))
             - One(y = None /\ x.kind = "read")
      BY <2>1, <2>2, <2>3, <2>4
    <2> QED
      BY <1>4, <1>7, <1>9, <2>3, <2>4, <2>5
  <1>11. InQueue(queue', KindJobs("poll")) + InThreads(at', KindTasks("poll")) = One(poll_pending')
    <2>1. InThreads(at', KindTasks("poll")) = InThreads(at, KindTasks("poll"))
             - One(x.kind = "poll") + One(y # None /\ y.kind = "poll")
      BY <1>5
    <2>2. CASE y = None /\ x.kind = "poll"
      <3>1. at[t] \in KindTasks("poll")
        BY <1>1, <2>2 DEF KindTasks
      <3>2. InThreads(at, KindTasks("poll")) >= 1
        BY <3>1, CountedTask
      <3>3. InThreads(at', KindTasks("poll")) = InThreads(at, KindTasks("poll")) - 1
        BY <1>3, <2>1, <2>2 DEF One
      <3>4. One(poll_pending) <= 1 /\ One(poll_pending) \in Nat /\ One(poll_pending') = 0
        BY <1>8, <2>2 DEF One
      <3> QED
        BY <1>3, <1>4, <1>9, <3>2, <3>3, <3>4
    <2>3. CASE ~(y = None /\ x.kind = "poll")
      <3>1. -One(x.kind = "poll") + One(y # None /\ y.kind = "poll") = 0
            /\ One(x.kind = "poll") \in Nat /\ One(y # None /\ y.kind = "poll") \in Nat
        BY <1>6, <2>3 DEF One
      <3>2. poll_pending' = poll_pending
        BY <1>8, <2>3
      <3>3. InThreads(at', KindTasks("poll")) = InThreads(at, KindTasks("poll"))
        BY <1>3, <2>1, <3>1
      <3> QED
        BY <1>4, <1>9, <3>2, <3>3
    <2> QED
      BY <2>2, <2>3
  <1> QED
    BY <1>10, <1>11 DEF GuardCounts, Count, Live

\* A task takes its job's place in the counts.
LEMMA TakenGuards ==
  ASSUME ServiceInv, GuardCounts, NEW w \in Workers, TakeJob(w) \/ LoseJob(w)
  PROVE  GuardCounts'
  <1>0. ShapeOK /\ queue \in Seq(Jobs)
    BY DEF ServiceInv, ShapeOK
  <1>1. /\ queue # <<>> /\ at[w] = None /\ w \in Threads /\ queue' = Tail(queue)
        /\ UNCHANGED <<inflight, poll_pending>>
    BY DEF TakeJob, LoseJob, Threads
  <1>2. PICK j \in Jobs : j = Head(queue)
    BY <1>0, <1>1, QueueTypes
  <1>3. PICK pc \in Pcs, v \in Trees \cup {None} : at' = [at EXCEPT ![w] = Doing(j, pc, v)]
    <2>1. "probe" \in Pcs /\ "run" \in Pcs /\ "guard" \in Pcs
      BY DEF Pcs
    <2>2. tree \in Trees
      BY <1>0 DEF ShapeOK
    <2>3. CASE TakeJob(w) /\ j.kind \in Listers
      BY <1>2, <2>1, <2>2, <2>3 DEF TakeJob
    <2>4. CASE TakeJob(w) /\ j.kind \notin Listers
      BY <1>2, <2>1, <2>4 DEF TakeJob
    <2>5. CASE LoseJob(w)
      BY <1>2, <2>1, <2>5 DEF LoseJob
    <2> QED
      BY <2>3, <2>4, <2>5
  <1>4. PICK y \in Tasks : y = Doing(j, pc, v)
    BY DoingTask
  <1>5. y.kind = j.kind
    BY <1>4 DEF Doing
  <1>6. PICK x \in Tasks \cup {None} : x = at[w] /\ x = None
    BY <1>1
  <1>7. y # None
    BY FuseAssumption
  <1>8. ASSUME NEW kind PROVE Count(kind)' = Count(kind)
    <2>1. KindMoved(kind, x, y)
      <3>1. at' = [at EXCEPT ![w] = y]
        BY <1>3, <1>4
      <3>2. \A k : KindMoved(k, x, y)
        BY <1>0, <1>1, <1>6, <3>1, KindMove
      <3> QED
        BY <3>2
    <2>2. InQueue(queue, KindJobs(kind)) = InQueue(queue', KindJobs(kind)) + One(j \in KindJobs(kind))
      BY <1>0, <1>1, <1>2, CountTail
    <2>3. /\ InQueue(queue, KindJobs(kind)) \in Nat /\ InThreads(at, KindTasks(kind)) \in Nat
          /\ InQueue(queue', KindJobs(kind)) \in Nat
      <3>1. queue' \in Seq(Jobs)
        BY <1>0, <1>1
      <3> QED
        BY <1>0, <3>1, KindTypes, CountTypes
    <2>4. One(x # None /\ x.kind = kind) = 0
      BY <1>6 DEF One
    <2>5. One(y # None /\ y.kind = kind) = One(j \in KindJobs(kind)) /\ One(j \in KindJobs(kind)) \in Nat
      BY <1>5, <1>7 DEF One, KindJobs
    <2>6. InQueue(queue', KindJobs(kind)) + InThreads(at', KindTasks(kind))
          = InQueue(queue, KindJobs(kind)) + InThreads(at, KindTasks(kind))
      BY <2>1, <2>2, <2>3, <2>4, <2>5 DEF KindMoved
    <2> QED
      BY <2>6 DEF Count, Live
  <1>9. Count("read")' = Count("read") /\ Count("poll")' = Count("poll")
    BY <1>8
  <1> QED
    BY <1>1, <1>9 DEF GuardCounts

\* A read that is queued takes a slot that was free.
LEMMA KernelGuards ==
  ASSUME ServiceInv, GuardCounts, inflight <= MAX_INFLIGHT_READS, KernelStep
  PROVE  GuardCounts' /\ inflight' <= MAX_INFLIGHT_READS
  <1>0. /\ ShapeOK /\ queue \in Seq(Jobs) /\ inflight \in Int /\ Dispatch \in Threads
        /\ MAX_INFLIGHT_READS \in Nat
    BY Bounds DEF ServiceInv, ShapeOK
  <1>1. ASSUME at' = at
        PROVE  \A kind \in {"read", "poll"} :
                  InThreads(at', KindTasks(kind)) = InThreads(at, KindTasks(kind))
    BY <1>1
  <1>2. ASSUME NEW op, CanSend(op) PROVE next \in Requests
    BY <1>0, <1>2, NextIsFresh DEF CanSend, ServiceInv
  <1>3. CASE Getattr \/ Opendir
    <2>1. PICK kind \in {"getattr", "opendir"} :
             fire_poll_refresh(<<Job(kind, next, 0)>>) /\ UNCHANGED <<at, inflight>> /\ CanSend(kind)
      BY <1>3 DEF Getattr, Opendir
    <2>2. Job(kind, next, 0) \in Jobs /\ Job(kind, next, 0).kind \notin {"read", "poll"}
      BY <1>2, <2>1 DEF Job, Jobs, Solo
    <2>3. GuardCounts'
      BY <1>0, <1>1, <2>1, <2>2, FiredGuards
    <2> QED
      BY <2>1, <2>3
  <1>4. CASE Open
    <2>1. queue' = Append(queue, Job("open", next, 0)) /\ CanSend("open")
          /\ UNCHANGED <<at, inflight, poll_pending>>
      BY <1>4 DEF Open
    <2>2. Job("open", next, 0) \in Jobs /\ Job("open", next, 0).kind = "open"
      BY <1>2, <2>1 DEF Job, Jobs, Solo
    <2>3. PICK j \in Jobs : j = Job("open", next, 0) /\ j.kind = "open"
      BY <2>2
    <2>4. /\ InQueue(queue', KindJobs("read"))
             = InQueue(queue, KindJobs("read")) + One(j.kind = "read")
          /\ InQueue(queue', KindJobs("poll"))
             = InQueue(queue, KindJobs("poll")) + One(j.kind = "poll")
      BY <1>0, <2>1, <2>3, KindAppend
    <2>5. InQueue(queue, KindJobs("read")) \in Nat /\ InQueue(queue, KindJobs("poll")) \in Nat
      BY <1>0, KindTypes
    <2>6. /\ InQueue(queue', KindJobs("read")) = InQueue(queue, KindJobs("read"))
          /\ InQueue(queue', KindJobs("poll")) = InQueue(queue, KindJobs("poll"))
      BY <2>3, <2>4, <2>5 DEF One
    <2> QED
      BY <2>1, <2>6 DEF GuardCounts, Count, Live
  <1>5. CASE Read
    <2>1. CASE SlotsFull
      <3>1. UNCHANGED <<queue, at, inflight, poll_pending>>
        BY <1>5, <2>1 DEF Read
      <3> QED
        BY <3>1 DEF GuardCounts, Count
    <2>2. CASE ~SlotsFull
      <3>1. /\ queue' = Append(queue, Job("read", next, 0)) /\ CanSend("read")
            /\ inflight' = inflight + 1 /\ UNCHANGED <<at, poll_pending>>
        BY <1>5, <2>2 DEF Read
      <3>2. Job("read", next, 0) \in Jobs /\ Job("read", next, 0).kind = "read"
        BY <1>2, <3>1 DEF Job, Jobs, Solo
      <3>3. PICK j \in Jobs : j = Job("read", next, 0) /\ j.kind = "read"
        BY <3>2
      <3>4. /\ InQueue(queue', KindJobs("read"))
               = InQueue(queue, KindJobs("read")) + One(j.kind = "read")
            /\ InQueue(queue', KindJobs("poll"))
               = InQueue(queue, KindJobs("poll")) + One(j.kind = "poll")
        BY <1>0, <3>1, <3>3, KindAppend
      <3>5. /\ InQueue(queue, KindJobs("read")) \in Nat /\ InQueue(queue, KindJobs("poll")) \in Nat
            /\ InThreads(at, KindTasks("read")) \in Nat
        BY <1>0, KindTypes
      <3>6. /\ InQueue(queue', KindJobs("read")) = InQueue(queue, KindJobs("read")) + 1
            /\ InQueue(queue', KindJobs("poll")) = InQueue(queue, KindJobs("poll"))
        BY <3>3, <3>4, <3>5 DEF One
      <3>7. inflight = InQueue(queue, KindJobs("read")) + InThreads(at, KindTasks("read"))
        BY DEF GuardCounts, Count, Live
      <3>8. inflight' = InQueue(queue', KindJobs("read")) + InThreads(at, KindTasks("read"))
        BY <3>1, <3>5, <3>6, <3>7
      <3>9. inflight' <= MAX_INFLIGHT_READS
        BY <1>0, <2>2, <3>1 DEF SlotsFull
      <3> QED
        BY <3>1, <3>6, <3>8, <3>9 DEF GuardCounts, Count, Live
    <2> QED
      BY <2>1, <2>2
  <1>6. ASSUME NEW f \in DirHandles, Readdir(f) PROVE GuardCounts' /\ inflight' <= MAX_INFLIGHT_READS
    <2>1. UNCHANGED <<at, inflight>> /\ CanSend("readdir")
      BY <1>6 DEF Readdir
    <2>2. Job("readdir", next, 0) \in Jobs /\ Job("readdir", next, 0).kind \notin {"read", "poll"}
      BY <1>2, <2>1 DEF Job, Jobs, Solo
    <2>3. fire_poll_refresh(<<>>) \/ fire_poll_refresh(<<Job("readdir", next, 0)>>)
      BY <1>6 DEF Readdir
    <2>4. GuardCounts'
      BY <1>0, <1>1, <2>1, <2>2, <2>3, FiredGuards
    <2> QED
      BY <2>1, <2>4
  <1>7. ASSUME NEW f \in DirHandles, NEW p \in Pages, Readdirplus(f, p[1], p[2])
        PROVE  GuardCounts' /\ inflight' <= MAX_INFLIGHT_READS
    <2>1. CanSend("readdirplus") /\ UNCHANGED inflight
      BY <1>7 DEF Readdirplus
    <2>2. CASE ~Held(f)
      <3>1. at' = at /\ fire_poll_refresh(<<Job("plushead", next, 0)>>)
        BY <1>7, <2>2 DEF Readdirplus
      <3>2. Job("plushead", next, 0) \in Jobs /\ Job("plushead", next, 0).kind \notin {"read", "poll"}
        BY <1>2, <2>1 DEF Job, Jobs, Solo
      <3>3. GuardCounts'
        BY <1>0, <1>1, <2>1, <3>1, <3>2, FiredGuards
      <3> QED
        BY <2>1, <3>3
    <2>3. CASE Held(f)
      <3>1. fire_poll_refresh(<<>>) /\ at' = [at EXCEPT ![Dispatch] = RoundOf(next, p[1])]
        BY <1>7, <2>3 DEF Readdirplus
      <3>2. p[1] \in Nat
        BY FuseAssumption
      <3>3. PICK y \in Tasks : y = RoundOf(next, p[1])
        BY <1>2, <2>1, <3>2, FreshTypes
      <3>4. y.kind = "round"
        BY <3>3 DEF RoundOf, Doing, Job
      <3>5. PICK x \in Tasks \cup {None} : x = at[Dispatch] /\ x = None
        BY <2>1 DEF CanSend
      <3>6. \A k : KindMoved(k, x, y)
        BY <1>0, <3>1, <3>3, <3>5, KindMove
      <3>7. ASSUME NEW kind \in {"read", "poll"}
            PROVE  InThreads(at', KindTasks(kind)) = InThreads(at, KindTasks(kind))
        <4>1. KindMoved(kind, x, y) /\ InThreads(at, KindTasks(kind)) \in Nat
          BY <1>0, <3>6, KindTypes
        <4>2. One(x # None /\ x.kind = kind) = 0 /\ One(y # None /\ y.kind = kind) = 0
          BY <3>4, <3>5 DEF One
        <4> QED
          BY <4>1, <4>2 DEF KindMoved
      <3>8. GuardCounts'
        BY <1>0, <2>1, <3>1, <3>7, FiredGuards
      <3> QED
        BY <2>1, <3>8
    <2> QED
      BY <2>2, <2>3
  <1>8. CASE (\E f \in DirHandles : Releasedir(f)) \/ (\E f \in Requests : Release(f))
    <2>1. UNCHANGED <<queue, at, inflight, poll_pending>>
      BY <1>8 DEF Releasedir, Release
    <2> QED
      BY <2>1 DEF GuardCounts, Count
  <1> QED
    BY <1>3, <1>4, <1>5, <1>6, <1>7, <1>8 DEF KernelStep

\* A registration is filed for an open handle, and goes with it.
LEMMA RegistrationsKept ==
  ASSUME ServiceInv, PassthroughEndsWithHandle, [Next]_vars
  PROVE  PassthroughEndsWithHandle'
  <1>0. ShapeOK
    BY DEF ServiceInv
  <1>1. ASSUME NEW t \in Threads, reply_open(t) PROVE PassthroughEndsWithHandle'
    <2>1. at[t] # None /\ at[t].pc = "reply"
      BY <1>1 DEF reply_open, At
    <2>2. at[t].r \in slab
      BY <2>1 DEF ServiceInv, TaskInv, TaskOK
    <2>3. slab' = slab /\ backing' \subseteq backing \cup {at[t].r}
      BY <1>1 DEF reply_open
    <2> QED
      BY <2>2, <2>3 DEF PassthroughEndsWithHandle
  <1>2. ASSUME NEW t \in Threads, OpenHandle(t) PROVE PassthroughEndsWithHandle'
    BY <1>2 DEF OpenHandle, PassthroughEndsWithHandle
  <1>3. ASSUME NEW f \in Requests, Release(f) PROVE PassthroughEndsWithHandle'
    BY <1>3 DEF Release, PassthroughEndsWithHandle
  <1>4. CASE UNCHANGED <<slab, backing>>
    BY <1>4 DEF PassthroughEndsWithHandle
  <1>5. CASE KernelStep
    BY <1>3, <1>4, <1>5 DEF KernelStep, Getattr, Opendir, Read, Open, Readdir, Readdirplus, Releasedir
  <1>6. ASSUME NEW t \in Threads, ThreadStep(t) PROVE PassthroughEndsWithHandle'
    BY <1>1, <1>2, <1>4, <1>6 DEF ThreadStep, RunGetattr, RunRead, DropSlot, Probe,
       build_dir_listing, Admit, DispatchEntry, ResolveEntry, PlusSlot, finish_plus_round,
       PollRefresh, DropGate
  <1>7. CASE PollComesDue \/ (\E w \in Workers : TakeJob(w) \/ LoseJob(w)) \/ UNCHANGED vars
    BY <1>4, <1>7 DEF PollComesDue, TakeJob, LoseJob, vars
  <1> QED
    BY <1>5, <1>6, <1>7 DEF Next

\* Every step keeps guards and tasks in their relation.
LEMMA GuardStep ==
  ASSUME ServiceInv, GenInv, SharedListingsAreExact, GuardInv, [Next]_vars
  PROVE  GuardInv'
  <1>0. ShapeOK /\ ShapeOK' /\ inflight \in Int /\ inflight <= MAX_INFLIGHT_READS
    BY ShapeStep DEF ServiceInv, ShapeOK, GuardInv
  <1>1. GuardCounts
    BY <1>0, GuardsAreCounts DEF GuardInv
  <1>2. PassthroughEndsWithHandle'
    BY RegistrationsKept DEF GuardInv
  <1>3. GuardCounts' /\ inflight' <= MAX_INFLIGHT_READS
    <2>1. CASE KernelStep
      BY <1>0, <1>1, <2>1, KernelGuards
    <2>2. ASSUME NEW t \in Threads, ThreadStep(t) PROVE GuardCounts' /\ inflight' <= MAX_INFLIGHT_READS
      <3>1. GuardCounts' /\ inflight' <= inflight
        BY <1>1, <2>2, ThreadGuards
      <3>2. inflight' \in Int /\ MAX_INFLIGHT_READS \in Nat
        BY <1>0, Bounds DEF ShapeOK
      <3> QED
        BY <1>0, <3>1, <3>2
    <2>3. ASSUME NEW w \in Workers, TakeJob(w) \/ LoseJob(w)
          PROVE  GuardCounts' /\ inflight' <= MAX_INFLIGHT_READS
      <3>1. GuardCounts' /\ inflight' = inflight
        BY <1>1, <2>3, TakenGuards DEF TakeJob, LoseJob
      <3> QED
        BY <1>0, <3>1
    <2>4. CASE PollComesDue \/ UNCHANGED vars
      <3>1. UNCHANGED <<queue, at, inflight, poll_pending>>
        BY <2>4 DEF PollComesDue, vars
      <3> QED
        BY <1>0, <1>1, <3>1 DEF GuardCounts, Count
    <2> QED
      BY <2>1, <2>2, <2>3, <2>4 DEF Next
  <1> QED
    BY <1>0, <1>2, <1>3, GuardsAreCounts DEF GuardInv

(***************************************************************************)
(* The invariant of the adapter.                                           *)
(***************************************************************************)
AdapterInv == ServiceInv /\ GenInv /\ DirInv /\ GuardInv

\* At first nothing is queued or running.
LEMMA NothingCounted ==
  ASSUME Init
  PROVE  \A J, K : None \notin K => InQueue(queue, J) = 0 /\ InThreads(at, K) = 0
  <1> SUFFICES ASSUME NEW J, NEW K, None \notin K
               PROVE  InQueue(queue, J) = 0 /\ InThreads(at, K) = 0
    OBVIOUS
  <1>1. queue = <<>> /\ \A t \in Threads : at[t] = None
    BY DEF Init
  <1>2. {k \in 1..Len(queue) : queue[k] \in J} = {}
    BY <1>1
  <1>3. InQueue(queue, J) = 0
    BY <1>2, FS_EmptySet DEF InQueue
  <1>4. InThreads(at, K) = 0
    BY <1>1, NoneCounted
  <1> QED
    BY <1>3, <1>4

\* The invariant holds at first.
LEMMA AdapterInit == Init => AdapterInv
  <1> SUFFICES ASSUME Init PROVE AdapterInv
    OBVIOUS
  <1>1. /\ queue = <<>> /\ \A t \in Threads : at[t] = None
        /\ \A r \in Requests : req[r] = NoReq /\ fill[r] = NoFill /\ open[r] = None
        /\ \A a \in Addrs : shared[a] = None
        /\ next = 1
    BY DEF Init
  <1>2. ShapeOK
    <2>1. (CHOOSE a \in Addrs : TRUE) \in Addrs
      BY FuseAssumption
    <2>2. tree \in Trees
      BY <2>1 DEF Init, Trees
    <2>3. NoReq \in ReqStates /\ NoFill \in Fills
      BY FreshTypes
    <2>4. next \in 1..(MaxRequests + 1)
      BY Bounds DEF Init
    <2>5. queue \in Seq(Jobs) /\ at \in [Threads -> Tasks \cup {None}] /\ made \in Nat
      BY DEF Init
    <2>6. /\ req \in [Requests -> ReqStates] /\ fill \in [Requests -> Fills]
          /\ open \in [Requests -> OpenDirs \cup {None}]
          /\ shared \in [Addrs -> SharedDirs \cup {None}]
      BY <2>3 DEF Init
    <2>7. {due, poll_pending, disabled} \subseteq BOOLEAN
      BY DEF Init
    <2>8. inflight \in Int /\ slab \subseteq Requests /\ backing \subseteq Requests
      BY DEF Init
    <2> QED
      BY <1>1, <2>2, <2>4, <2>5, <2>6, <2>7, <2>8 DEF ShapeOK
  <1>3. TaskInv
    BY <1>1 DEF TaskInv
  <1>4. RequestInv
    <2> SUFFICES ASSUME NEW r \in Requests PROVE RequestOK(r)
      BY DEF RequestInv
    <2>1. r >= next
      BY <1>1 DEF Requests
    <2>2. /\ NoReq.state = "unsent" /\ NoReq.replies = 0 /\ NoReq.listing = None
          /\ NoReq.entries = <<>> /\ \A i \in 1..Len(Entries) : NoReq.fate[i] = "none"
      BY DEF NoReq
    <2>3. NoFill.reply = "none"
      BY DEF NoFill
    <2> QED
      BY <1>1, <2>1, <2>2, <2>3 DEF RequestOK
  <1>5. CountInv
    <2> SUFFICES ASSUME NEW r \in Requests PROVE CountOK(r)
      BY DEF CountInv
    <2>1. /\ None \notin OwnTasks(r) /\ None \notin RoundTasks(r)
          /\ None \notin DispatchTasks(r) /\ None \notin FinishTasks(r)
      BY FuseAssumption DEF OwnTasks, RoundTasks, DispatchTasks, FinishTasks
    <2>2. Owners(r) = 0 /\ Uncounted(r) = 0 /\ Dispatchers(r) = 0 /\ Finishers(r) = 0
      BY <2>1, NothingCounted DEF Owners, Uncounted, Dispatchers, Finishers, Live
    <2>3. req[r].state = "unsent" /\ fill[r].reply = "none" /\ fill[r].outstanding = 0
      BY <1>1 DEF NoReq, NoFill
    <2> QED
      BY <2>2, <2>3 DEF CountOK, One
  <1>6. GenInv
    BY <1>1 DEF GenInv, HeldGen
  <1>7. DirInv
    <2>1. \A a \in Addrs : HandlesOn(a) = {}
      BY <1>1 DEF HandlesOn
    <2>2. SharedListingsAreExact
      BY <1>1, <2>1 DEF SharedListingsAreExact
    <2>3. Opened = {}
      BY <1>1 DEF Opened
    <2> QED
      BY <2>2, <2>3, FS_EmptySet, Bounds DEF DirInv
  <1>8. GuardInv
    <2>1. None \notin KindTasks("read") /\ None \notin KindTasks("poll")
      BY FuseAssumption DEF KindTasks
    <2>2. Count("read") = 0 /\ Count("poll") = 0
      BY <2>1, NothingCounted DEF Count, Live
    <2>3. GuardCounts
      BY <2>2 DEF GuardCounts, One, Init
    <2>4. inflight <= MAX_INFLIGHT_READS /\ PassthroughEndsWithHandle
      BY Bounds DEF Init, PassthroughEndsWithHandle
    <2> QED
      BY <1>2, <2>3, <2>4, GuardsAreCounts DEF GuardInv
  <1> QED
    BY <1>2, <1>3, <1>4, <1>5, <1>6, <1>7, <1>8 DEF AdapterInv, ServiceInv

\* Every step keeps the invariant.
LEMMA AdapterStep == AdapterInv /\ [Next]_vars => AdapterInv'
  <1> SUFFICES ASSUME AdapterInv, [Next]_vars PROVE AdapterInv'
    OBVIOUS
  <1>1. ServiceInv /\ GenInv /\ DirInv /\ GuardInv /\ SharedListingsAreExact
    BY DEF AdapterInv, DirInv
  <1>2. ServiceInv'
    BY <1>1, ServiceStep
  <1>3. GenInv' /\ DirInv'
    BY <1>1, IndexStep
  <1>4. GuardInv'
    BY <1>1, GuardStep
  <1> QED
    BY <1>2, <1>3, <1>4 DEF AdapterInv

\* Every step of the dispatch thread, of a worker and of the poll, and every
\* job that is lost, keeps the adapter's tables, rounds, tasks and guards in
\* the relation the code relies on.
THEOREM AdapterIsConsistent == Spec => []AdapterInv
  <1>1. Init => AdapterInv
    BY AdapterInit
  <1>2. AdapterInv /\ [Next]_vars => AdapterInv'
    BY AdapterStep
  <1> QED
    BY <1>1, <1>2, PTL DEF Spec

(***************************************************************************)
(* What follows from it.                                                   *)
(***************************************************************************)

\* The reply objects, try_admit_dir_handle and reserve_read_slot: no request
\* is answered twice, a round never counts more tasks than its directory has
\* entries, plus its dispatcher, and neither cap is ever exceeded.
THEOREM FuseTypes == Spec => []TypeOK
  <1>1. AdapterInv => TypeOK
    <2> SUFFICES ASSUME AdapterInv PROVE TypeOK
      OBVIOUS
    <2>1. ShapeOK /\ ServiceInv
      BY DEF AdapterInv, ServiceInv
    <2>2. ASSUME NEW r \in Requests
          PROVE  /\ req[r].state \in {"unsent", "sent", "answered", "failed"}
                 /\ req[r].replies <= 1
                 /\ fill[r].outstanding \in 0..(Len(Entries) + 1)
      <3>1. RequestOK(r) /\ CountOK(r)
        BY <2>1 DEF ServiceInv, RequestInv, CountInv
      <3>2. fill[r].outstanding = Uncounted(r) /\ Uncounted(r) \in Nat
        <4>1. InQueue(queue, PlusJobs(r)) \in Nat /\ InThreads(at, RoundTasks(r)) \in Nat
              /\ Uncounted(r) = InQueue(queue, PlusJobs(r)) + InThreads(at, RoundTasks(r))
          BY <2>1, CountsOfRequest
        <4> QED
          BY <3>1, <4>1 DEF CountOK
      <3>3. PICK o \in Nat : o = fill[r].outstanding
        BY <3>2
      <3>4. o <= Len(Entries) + 1
        <4>1. fill[r].reply \in {"none", "held", "sent"}
          BY <2>1 DEF ShapeOK, Fills
        <4>2. CASE fill[r].reply = "held"
          BY <3>1, <3>3, <4>2 DEF RequestOK, PageOK
        <4>3. CASE fill[r].reply # "held"
          <5>1. fill[r].outstanding = 0
            BY <3>1, <4>1, <4>3 DEF RequestOK, NoFill
          <5> QED
            BY <3>3, <5>1, Bounds
        <4> QED
          BY <4>2, <4>3
      <3>5. o \in 0..(Len(Entries) + 1)
        BY <3>4, Bounds
      <3>6. req[r].state \in {"unsent", "sent", "answered", "failed"}
        BY <2>1 DEF ShapeOK, ReqStates
      <3>7. req[r].replies <= 1
        BY <3>1 DEF RequestOK
      <3> QED
        BY <3>3, <3>5, <3>6, <3>7
    <2>3. inflight \in 0..MAX_INFLIGHT_READS
      <3>1. inflight <= MAX_INFLIGHT_READS /\ GuardCounts
        BY <2>1, GuardsAreCounts DEF AdapterInv, GuardInv
      <3>2. inflight = InQueue(queue, KindJobs("read")) + InThreads(at, KindTasks("read"))
        BY <3>1 DEF GuardCounts, Count, Live
      <3>3. inflight \in Nat
        BY <2>1, <3>2, KindTypes
      <3> QED
        BY <3>1, <3>3, Bounds
    <2>4. Cardinality({f \in Requests : open[f] # None}) <= MAX_DIR_HANDLES
      BY DEF AdapterInv, DirInv, Opened
    <2>5. tree.addr \in Addrs /\ next \in 1..(MaxRequests + 1) /\ slab \subseteq Requests
          /\ {due, poll_pending, disabled} \subseteq BOOLEAN
      BY <2>1 DEF ShapeOK, Trees
    <2> QED
      BY <2>2, <2>3, <2>4, <2>5 DEF TypeOK
  <1> QED
    BY <1>1, AdapterIsConsistent, PTL

\* probe_dir_listing finds a listing by the address of a tree, and addresses
\* are reused: whatever the poll replaced in between, what a request is
\* answered with was listed from the generation it pinned, or its handle was
\* opened on.
THEOREM ListingsOfTheirGeneration == Spec => []ListingIsOfItsGeneration
  <1>1. AdapterInv => ListingIsOfItsGeneration
    BY DEF AdapterInv, ServiceInv, RequestInv, RequestOK, ListingIsOfItsGeneration
  <1> QED
    BY <1>1, AdapterIsConsistent, PTL

\* try_admit_dir_handle and release_dir_handle count the handles of an index
\* entry exactly, whatever order openers and releases come in.
THEOREM SharedListingsStayExact == Spec => []SharedListingsAreExact
  <1>1. AdapterInv => SharedListingsAreExact
    BY DEF AdapterInv, DirInv
  <1> QED
    BY <1>1, AdapterIsConsistent, PTL

\* finish_plus_round emits what the tasks of its rounds resolved, whichever
\* finished last and whichever were lost, for pages and directories of any
\* size.
THEOREM PlusPagesAreExact == Spec => []PlusPageIsExact
  <1>1. AdapterInv => PlusPageIsExact
    BY DEF AdapterInv, ServiceInv, RequestInv, RequestOK, ExactPage, PlusPageIsExact
  <1> QED
    BY <1>1, AdapterIsConsistent, PTL

\* ReadSlotGuard and PollPendingGuard give back on every way out exactly
\* what the dispatch thread took, so neither leaks and neither is given
\* back twice.
THEOREM GuardsTrackTasks == Spec => []GuardsTrackTheirTasks
  <1>1. AdapterInv => GuardsTrackTheirTasks
    BY DEF AdapterInv, GuardInv
  <1> QED
    BY <1>1, AdapterIsConsistent, PTL

\* reply_open files a registration only while its handle is open, and
\* release drops both.
THEOREM RegistrationsEndWithHandles == Spec => []PassthroughEndsWithHandle
  <1>1. AdapterInv => PassthroughEndsWithHandle
    BY DEF AdapterInv, GuardInv
  <1> QED
    BY <1>1, AdapterIsConsistent, PTL

\* A request the kernel waits for has exactly one job or task that will
\* answer it, or it is in a round of readdirplus that counts its tasks, and
\* exactly one thread has it to finish once they are counted out; one the
\* kernel does not wait for has none.
NoRequestIsForgotten ==
    \A r \in Requests :
        /\ Owners(r) = One(req[r].state = "sent" /\ fill[r].reply = "none")
        /\ req[r].state = "sent" /\ fill[r].reply # "none" =>
              /\ fill[r].outstanding = Uncounted(r)
              /\ Finishers(r) = One(Uncounted(r) = 0)

\* Work is left somewhere as long as the kernel waits for anything: with
\* the queue empty and every thread idle, all requests are answered.
NothingOwedAtRest ==
    (queue = <<>> /\ \A t \in Threads : at[t] = None) =>
        \A r \in Requests : req[r].state # "sent"

\* The invariant gives a waiting request its owner.
LEMMA RequestsHaveOwners == AdapterInv => NoRequestIsForgotten
  <1> SUFFICES ASSUME AdapterInv, NEW r \in Requests
               PROVE  /\ Owners(r) = One(req[r].state = "sent" /\ fill[r].reply = "none")
                      /\ req[r].state = "sent" /\ fill[r].reply # "none" =>
                            /\ fill[r].outstanding = Uncounted(r)
                            /\ Finishers(r) = One(Uncounted(r) = 0)
    BY DEF NoRequestIsForgotten
  <1>1. RequestOK(r) /\ CountOK(r) /\ fill[r].reply \in {"none", "held", "sent"}
    BY DEF AdapterInv, ServiceInv, RequestInv, CountInv, ShapeOK, Fills
  <1>2. req[r].state = "sent" => fill[r].reply # "sent"
    BY <1>1 DEF RequestOK
  <1> QED
    BY <1>1, <1>2 DEF CountOK, One

\* No handler drops a reply on any path: a request that was sent keeps its
\* owner through the queue, the pool, lost jobs and the rounds.
THEOREM NoRequestForgotten == Spec => []NoRequestIsForgotten
  BY RequestsHaveOwners, AdapterIsConsistent, PTL

\* The safety half of EveryRequestIsAnswered: the adapter never comes to
\* rest with a system call hanging.
THEOREM RestMeansAnswered == Spec => []NothingOwedAtRest
  <1>1. AdapterInv => NothingOwedAtRest
    <2> SUFFICES ASSUME AdapterInv, queue = <<>>, \A t \in Threads : at[t] = None,
                        NEW r \in Requests
                 PROVE  req[r].state # "sent"
      BY DEF NothingOwedAtRest
    <2>1. /\ Owners(r) = One(req[r].state = "sent" /\ fill[r].reply = "none")
          /\ req[r].state = "sent" /\ fill[r].reply # "none" => Finishers(r) = One(Uncounted(r) = 0)
      BY RequestsHaveOwners DEF NoRequestIsForgotten
    <2>2. ASSUME NEW J, NEW K, None \notin K PROVE InQueue(queue, J) = 0 /\ InThreads(at, K) = 0
      <3>1. {k \in 1..Len(queue) : queue[k] \in J} = {}
        OBVIOUS
      <3>2. InQueue(queue, J) = 0
        BY <3>1, FS_EmptySet DEF InQueue
      <3> QED
        BY <2>2, <3>2, NoneCounted
    <2>3. None \notin OwnTasks(r) /\ None \notin RoundTasks(r) /\ None \notin FinishTasks(r)
      BY FuseAssumption DEF OwnTasks, RoundTasks, FinishTasks
    <2>4. Owners(r) = 0 /\ Uncounted(r) = 0 /\ Finishers(r) = 0
      BY <2>2, <2>3 DEF Owners, Uncounted, Finishers, Live
    <2> QED
      BY <2>1, <2>4 DEF One
  <1> QED
    BY <1>1, AdapterIsConsistent, PTL

=============================================================================
