----------------------------- MODULE ReadAhead -----------------------------
(***************************************************************************)
(* Backing read-ahead: musefs-core/src/readahead.rs and the serve_backing, *)
(* open_handle and release_handle of facade.rs that drive it.  Every open  *)
(* handle has a buffer of windows of its backing file; all buffers share   *)
(* one byte budget, charged and uncharged by atomics outside any lock.     *)
(* Readers hold their own buffer's mutex while they look for room and only *)
(* try the mutexes of the streams they evict; prefetch workers store what  *)
(* a read planned for them; a handle is dropped by whoever holds it last.  *)
(*                                                                         *)
(* Offsets and lengths are in units of a kernel read.  A window remembers  *)
(* which version of the file its bytes came from.  The registry mutex is a *)
(* leaf in the code, so what is done under it is one step here.            *)
(***************************************************************************)
EXTENDS Windows

CONSTANTS
    Handles, Readers, Workers,
    QueueCap,        \* slots of the prefetch channel
    ReleaseWaits,    \* the kernel sends RELEASE only after a handle's reads
    MaxRewrites,     \* bound: in-place rewrites of the backing file
    MaxReads,        \* bound: reads of all readers
    None

VARIABLES
    ra,        \* handle -> its ReadAhead buffer
    owner,     \* handle -> who holds the buffer's mutex
    h,         \* handle -> [state, registered, epoch, upto, layout]
    streams,   \* the registered handles, least recently served first
    charged,   \* the pool's byte counter; negative when the u64 has wrapped
    rd,        \* reader -> what its read has got to
    wk,        \* worker -> what its job has got to
    queue,     \* the prefetch channel
    drops,     \* handle -> progress of its Drop
    file,      \* version of the backing file's bytes
    indexed,   \* version the store's row was scanned at
    reads,     \* how many reads were started
    stale      \* ghost: a read has served bytes older than its layout

vars == <<ra, owner, h, streams, charged, rd, wk, queue, drops,
          file, indexed, stale, reads>>

ASSUME ReadAheadAssumption ==
    /\ {QueueCap, MaxRewrites, MaxReads} \subseteq Nat /\ ReleaseWaits \in BOOLEAN
    /\ None \notin Handles \cup Readers \cup Workers
    /\ IsFiniteSet(Handles) /\ IsFiniteSet(Readers) /\ IsFiniteSet(Workers)

(***************************************************************************)
(* The pool.                                                               *)
(***************************************************************************)

\* budget.saturating_sub(charged): a wrapped counter leaves no room.
Room == IF charged < 0 THEN 0 ELSE Max({0, Budget - charged})

has_room_for(n) == Room >= n

\* Registered streams other than mine, coldest first.  The registry is a map:
\* a stream is in it once.
Coldest(mine) == RemoveFirst(streams, mine)

(***************************************************************************)
(* Handles.                                                                *)
(***************************************************************************)
Closed == [state |-> "closed", registered |-> FALSE, epoch |-> 0, upto |-> 0, layout |-> 0]

Holding(k) == {r \in Readers : rd[r].pc # "idle" /\ rd[r].h = k}

\* open_handle: resolve, open the file and validate it; else no handle.
open_handle(k) ==
    /\ h[k].state = "closed" /\ indexed = file
    /\ h' = [h EXCEPT ![k] = [Closed EXCEPT !.state = "open", !.layout = indexed]]
    /\ ra' = [ra EXCEPT ![k] = NewBuffer]
    /\ UNCHANGED <<owner, streams, charged, rd, wk, queue, drops, file,
                   indexed, stale, reads>>

\* release_handle: bump the epoch and leave the slab.  Dropping is up to the
\* last reader.
release_handle(k) ==
    /\ h[k].state = "open"
    /\ ReleaseWaits => Holding(k) = {}
    /\ h' = [h EXCEPT ![k].state = "released", ![k].epoch = @ + 1]
    /\ UNCHANGED <<ra, owner, streams, charged, rd, wk, queue, drops, file,
                   indexed, stale, reads>>

\* deregister, first half: take the entry out of the registry.
Deregister(k) ==
    /\ h[k].state = "released" /\ Holding(k) = {} /\ drops[k].pc = "held"
    /\ streams' = Coldest(k)
    /\ drops' = [drops EXCEPT ![k].pc = IF Contains(streams, k) THEN "clear" ELSE "dropped"]
    /\ UNCHANGED <<ra, owner, h, charged, rd, wk, queue, file, indexed, stale, reads>>

\* Seeded fault: the buffer is measured, not cleared.
DeregisterMeasure(k) ==
    /\ drops[k].pc = "clear" /\ owner[k] = None
    /\ drops' = [drops EXCEPT ![k] = [pc |-> "uncharge", freed |-> Size(ra[k])]]
    /\ UNCHANGED <<ra, owner, h, streams, charged, rd, wk, queue, file, indexed, stale, reads>>

\* deregister, second half: clear under the buffer's own mutex...
DeregisterClear(k) ==
    /\ drops[k].pc = "clear" /\ owner[k] = None
    /\ ra' = [ra EXCEPT ![k] = clear(ra[k])]
    /\ drops' = [drops EXCEPT ![k] = [pc |-> "uncharge", freed |-> Size(ra[k])]]
    /\ UNCHANGED <<owner, h, streams, charged, rd, wk, queue, file, indexed, stale, reads>>

\* ... and uncharge what was cleared.
DeregisterUncharge(k) ==
    /\ drops[k].pc = "uncharge"
    /\ charged' = charged - drops[k].freed
    /\ drops' = [drops EXCEPT ![k] = [pc |-> "dropped", freed |-> 0]]
    /\ UNCHANGED <<ra, owner, h, streams, rd, wk, queue, file, indexed, stale, reads>>

(***************************************************************************)
(* A read: serve_backing, BackingReader::read_exact_at, permitted_window.  *)
(***************************************************************************)
Idle == [pc |-> "idle", h |-> None, off |-> 0, room |-> 0, cands |-> <<>>, freed |-> 0,
            plan |-> 0, window |-> 0, starts |-> <<>>]

\* read_into_inner: re-resolve when the store moved on, and validate the file.
\* A read of a file nobody has rescanned yet fails without touching anything.
\* Then register the stream on its first read.
ReadStart(r, k, off) ==
    /\ rd[r].pc = "idle" /\ h[k].state = "open"
    /\ reads < MaxReads /\ reads' = reads + 1
    /\ indexed = file
    /\ h' = [h EXCEPT ![k].layout = indexed, ![k].registered = TRUE]
    /\ streams' = IF h[k].registered THEN streams ELSE Append(streams, k)
    /\ rd' = [rd EXCEPT ![r] = [Idle EXCEPT !.pc = "lock", !.h = k, !.off = off]]
    /\ UNCHANGED <<ra, owner, charged, wk, queue, drops, file, indexed, stale>>

\* The buffer after a served read: with prefetch on, the ring is resized and
\* the frontier and window are captured for planning.
Resized(b) == [b EXCEPT !.max = prefetch_depth(b.window) + 1]

Planned(r, b) == [rd EXCEPT ![r].pc = "plan", ![r].plan = b.next, ![r].window = b.window]

\* touch runs after the buffer's mutex is free and skips a busy registry.
Touch(k) ==
    streams' \in {streams} \cup {Append(Coldest(k), k) : x \in {k} \cap ToSet(streams)}

\* A hit: everything under the mutex, no waiting.
ReadHit(r) ==
    LET k == rd[r].h
        b == Resized([ra[k] EXCEPT !.next = rd[r].off + 1])
    IN  /\ rd[r].pc = "lock" /\ owner[k] = None
        /\ Containing(ra[k], rd[r].off) # {}
        /\ ra' = [ra EXCEPT ![k] = b]
        /\ rd' = Planned(r, b)
        /\ stale' = (stale \/ ra[k].windows[Min(Containing(ra[k], rd[r].off))].ver < h[k].layout)
        /\ Touch(k)
        /\ UNCHANGED <<owner, h, charged, wk, queue, drops, file, indexed, reads>>

\* A miss: keep the mutex; a seek makes dispatched prefetches stale.
ReadMiss(r) ==
    LET k == rd[r].h IN
    /\ rd[r].pc = "lock" /\ owner[k] = None
    /\ Containing(ra[k], rd[r].off) = {}
    /\ owner' = [owner EXCEPT ![k] = r]
    /\ h' = [h EXCEPT ![k].epoch = IF rd[r].off = ra[k].next THEN @ ELSE @ + 1]
    /\ rd' = [rd EXCEPT ![r].pc = "room"]
    /\ UNCHANGED <<ra, streams, charged, wk, queue, drops, file, indexed, stale, reads>>

\* permitted_window: enough room, or look for streams to evict.
FindRoom(r) ==
    LET k == rd[r].h
        old == Size(ra[k])
        desired == Max({per_stream_cap, old})
    IN  /\ rd[r].pc = "room"
        /\ IF Room >= desired - old
           THEN /\ ra' = [ra EXCEPT ![k] = set_cap(@, desired)]
                /\ rd' = [rd EXCEPT ![r].pc = "fill"]
           ELSE /\ rd' = [rd EXCEPT ![r].pc = "evict", ![r].room = Room, ![r].cands = Coldest(k)]
                /\ UNCHANGED ra
        /\ UNCHANGED <<owner, h, streams, charged, wk, queue, drops, file,
                       indexed, stale, reads>>

\* Nothing left to evict: take what fits.
NoVictim(r) ==
    /\ rd[r].pc = "evict" /\ rd[r].cands = <<>>
    /\ ra' = [ra EXCEPT ![rd[r].h] = set_cap(@, Size(@) + rd[r].room)]
    /\ rd' = [rd EXCEPT ![r].pc = "fill"]
    /\ UNCHANGED <<owner, h, streams, charged, wk, queue, drops, file, indexed,
                   stale, reads>>

\* Seeded fault: a busy or empty candidate counts as an eviction.
EvictAnything(r) ==
    /\ rd[r].pc = "evict" /\ rd[r].cands # <<>>
    /\ LET v == Head(rd[r].cands)
           freed == IF owner[v] = None THEN Size(ra[v]) ELSE 0
       IN  /\ ra' = [ra EXCEPT ![v] = IF owner[v] = None THEN clear(@) ELSE @]
           /\ rd' = [rd EXCEPT ![r].cands = <<>>, ![r].freed = freed, ![r].pc = "uncharge"]
    /\ UNCHANGED <<owner, h, streams, charged, wk, queue, drops, file, indexed,
                   stale, reads>>

\* evict_one_coldest: try the next candidate's mutex, skip it when it is busy
\* or empty, else clear it.  The candidate may be deregistered by now.
Evict(r) ==
    /\ rd[r].pc = "evict" /\ rd[r].cands # <<>>
    /\ LET v == Head(rd[r].cands)
           freed == IF owner[v] = None THEN Size(ra[v]) ELSE 0
       IN  /\ ra' = [ra EXCEPT ![v] = IF owner[v] = None THEN clear(@) ELSE @]
           /\ rd' = [rd EXCEPT ![r].cands = Tail(@), ![r].freed = freed,
                               ![r].pc = IF freed > 0 THEN "uncharge" ELSE @]
    /\ UNCHANGED <<owner, h, streams, charged, wk, queue, drops, file, indexed,
                   stale, reads>>

EvictUncharge(r) ==
    /\ rd[r].pc = "uncharge"
    /\ charged' = charged - rd[r].freed
    /\ rd' = [rd EXCEPT ![r].pc = "room", ![r].freed = 0, ![r].cands = <<>>]
    /\ UNCHANGED <<ra, owner, h, streams, wk, queue, drops, file, indexed, stale, reads>>

\* The pread, the insertion and its charge, all before the mutex is let go.
Fill(r) ==
    LET k == rd[r].h
        b == Refill(ra[k], rd[r].off, file)
    IN  /\ rd[r].pc = "fill"
        /\ ra' = [ra EXCEPT ![k] = Resized(b)]
        /\ charged' = charged + Size(b) - Size(ra[k])
        /\ owner' = [owner EXCEPT ![k] = None]
        /\ rd' = Planned(r, b)
        /\ Touch(k)
        /\ UNCHANGED <<h, wk, queue, drops, file, indexed, stale, reads>>

\* A failed pread returns early: the mutex is let go, nothing was inserted.
FillFails(r) ==
    LET k == rd[r].h IN
    /\ rd[r].pc = "fill"
    /\ ra' = [ra EXCEPT ![k].window = IF rd[r].off = ra[k].next THEN Min({2 * @, ra[k].cap})
                                      ELSE Min({WINDOW_FLOOR, ra[k].cap})]
    /\ owner' = [owner EXCEPT ![k] = None]
    /\ rd' = [rd EXCEPT ![r] = Idle]
    /\ UNCHANGED <<h, streams, charged, wk, queue, drops, file, indexed, stale, reads>>

\* The compare-and-swap loop on prefetched_upto: the winner claims the tail.
Plan(r) ==
    LET k == rd[r].h
        p == plan_prefetch(h[k].upto, rd[r].plan, rd[r].window,
                           prefetch_depth(rd[r].window), BackingLen)
    IN  /\ rd[r].pc = "plan"
        /\ h' = [h EXCEPT ![k].upto = p.upto]
        /\ rd' = [rd EXCEPT ![r] = IF p.starts = <<>> THEN Idle
                                   ELSE [@ EXCEPT !.pc = "dispatch", !.starts = p.starts]]
        /\ UNCHANGED <<ra, owner, streams, charged, wk, queue, drops, file,
                       indexed, stale, reads>>

\* Seeded fault: a planned window is sent even when the channel is full.
DispatchUnbounded(r) ==
    LET k == rd[r].h
        Job(s) == [h |-> k, start |-> s, len |-> rd[r].window, epoch |-> h[k].epoch]
    IN  /\ rd[r].pc = "dispatch"
        /\ queue' = queue \o [i \in DOMAIN rd[r].starts |-> Job(rd[r].starts[i])]
        /\ rd' = [rd EXCEPT ![r] = Idle]
        /\ UNCHANGED <<ra, owner, h, streams, charged, wk, drops, file, indexed, stale, reads>>

\* Load the epoch and send one job per window; a full channel drops the rest.
Dispatch(r) ==
    LET k == rd[r].h
        Job(s) == [h |-> k, start |-> s, len |-> rd[r].window, epoch |-> h[k].epoch]
        all == queue \o [i \in DOMAIN rd[r].starts |-> Job(rd[r].starts[i])]
    IN  /\ rd[r].pc = "dispatch"
        /\ queue' = SubSeq(all, 1, Min({Len(all), QueueCap}))
        /\ rd' = [rd EXCEPT ![r] = Idle]
        /\ UNCHANGED <<ra, owner, h, streams, charged, wk, drops, file, indexed,
                       stale, reads>>

(***************************************************************************)
(* Prefetch workers: run_job, try_store_prefetch.                          *)
(***************************************************************************)
Resting == [pc |-> "idle", job |-> None, ver |-> 0, delta |-> 0]

Want(j) == Min({j.len, BackingLen - j.start})

\* Take a job; drop it when it is stale, empty or would not fit.
TakeJob(w) ==
    /\ wk[w].pc = "idle" /\ queue # <<>>
    /\ queue' = Tail(queue)
    /\ LET j == Head(queue) IN
       wk' = [wk EXCEPT ![w] =
                IF h[j.h].epoch = j.epoch /\ Want(j) > 0 /\ has_room_for(Want(j))
                THEN [@ EXCEPT !.pc = "read", !.job = j] ELSE @]
    /\ UNCHANGED <<ra, owner, h, streams, charged, rd, drops, file, indexed, stale, reads>>

\* The speculative pread, which may fail.
ReadJob(w) ==
    /\ wk[w].pc = "read"
    /\ \/ wk' = [wk EXCEPT ![w].pc = "store", ![w].ver = file]
       \/ wk' = [wk EXCEPT ![w] = Resting]
    /\ UNCHANGED <<ra, owner, h, streams, charged, rd, queue, drops, file,
                   indexed, stale, reads>>

\* Seeded fault: the epoch is not looked at again under the mutex.
StoreUnchecked(w) ==
    LET j == wk[w].job
        b == insert_window(ra[j.h], j.start, [len |-> Want(j), ver |-> wk[w].ver])
    IN  /\ wk[w].pc = "store" /\ owner[j.h] = None
        /\ ra' = [ra EXCEPT ![j.h] = b]
        /\ wk' = [wk EXCEPT ![w].pc = "reconcile", ![w].delta = Size(b) - Size(ra[j.h])]
        /\ UNCHANGED <<owner, h, streams, charged, rd, queue, drops, file,
                       indexed, stale, reads>>

\* Store under the mutex if the epoch has not moved; charge afterwards.
Store(w) ==
    LET j == wk[w].job
        b == insert_window(ra[j.h], j.start, [len |-> Want(j), ver |-> wk[w].ver])
    IN  /\ wk[w].pc = "store" /\ owner[j.h] = None
        /\ IF h[j.h].epoch = j.epoch
           THEN /\ ra' = [ra EXCEPT ![j.h] = b]
                /\ wk' = [wk EXCEPT ![w].pc = "reconcile", ![w].delta = Size(b) - Size(ra[j.h])]
           ELSE /\ wk' = [wk EXCEPT ![w] = Resting]
                /\ UNCHANGED ra
        /\ UNCHANGED <<owner, h, streams, charged, rd, queue, drops, file,
                       indexed, stale, reads>>

Reconcile(w) ==
    /\ wk[w].pc = "reconcile"
    /\ charged' = charged + wk[w].delta
    /\ wk' = [wk EXCEPT ![w] = Resting]
    /\ UNCHANGED <<ra, owner, h, streams, rd, queue, drops, file, indexed, stale, reads>>

(***************************************************************************)
(* Outside: the file is rewritten in place and scanned again.              *)
(***************************************************************************)
Rewrite ==
    /\ file < MaxRewrites
    /\ file' = file + 1
    /\ UNCHANGED <<ra, owner, h, streams, charged, rd, wk, queue, drops, indexed,
                   stale, reads>>

Rescan ==
    /\ indexed # file
    /\ indexed' = file
    /\ UNCHANGED <<ra, owner, h, streams, charged, rd, wk, queue, drops, file,
                   stale, reads>>

Init ==
    /\ ra = [k \in Handles |-> NewBuffer]
    /\ owner = [k \in Handles |-> None]
    /\ h = [k \in Handles |-> Closed]
    /\ streams = <<>> /\ charged = 0
    /\ rd = [r \in Readers |-> Idle]
    /\ wk = [w \in Workers |-> Resting]
    /\ queue = <<>>
    /\ drops = [k \in Handles |-> [pc |-> "held", freed |-> 0]]
    /\ file = 0 /\ indexed = 0 /\ stale = FALSE /\ reads = 0

DropStep(k) == Deregister(k) \/ DeregisterClear(k) \/ DeregisterUncharge(k)

ReadStep(r) ==
    \/ ReadHit(r) \/ ReadMiss(r) \/ FindRoom(r) \/ NoVictim(r) \/ Evict(r) \/ EvictUncharge(r)
    \/ Fill(r) \/ FillFails(r) \/ Plan(r) \/ Dispatch(r)

WorkerStep(w) == TakeJob(w) \/ ReadJob(w) \/ Store(w) \/ Reconcile(w)

\* Nothing is in flight.
Quiet ==
    /\ \A r \in Readers : rd[r].pc = "idle"
    /\ \A w \in Workers : wk[w].pc = "idle"
    /\ queue = <<>>
    /\ \A k \in Handles : h[k].state = "released" => drops[k].pc = "dropped"

Next ==
    \/ \E k \in Handles : open_handle(k) \/ release_handle(k) \/ DropStep(k)
    \/ \E r \in Readers, k \in Handles, off \in 0..(BackingLen - 1) : ReadStart(r, k, off)
    \/ \E r \in Readers : ReadStep(r)
    \/ \E w \in Workers : WorkerStep(w)
    \/ Rewrite \/ Rescan
    \/ Quiet /\ UNCHANGED vars

\* The scheduler runs some thread that can move; nobody promises another
\* read, open, release or scan.
Progress ==
    \/ \E r \in Readers : ReadStep(r)
    \/ \E w \in Workers : WorkerStep(w)
    \/ \E k \in Handles : DropStep(k)

Spec == Init /\ [][Next]_vars /\ WF_vars(Progress)

(***************************************************************************)
(* Properties.                                                             *)
(***************************************************************************)

\* The type of every variable.
TypeOK ==
    /\ charged \in Int
    /\ owner \in [Handles -> Readers \cup {None}]
    /\ \A k \in Handles :
         /\ \A s \in DOMAIN ra[k].windows : End(ra[k].windows, s) <= BackingLen
         /\ Cardinality(DOMAIN ra[k].windows) <= 5 /\ Size(ra[k]) \in Nat
         /\ h[k].state \in {"closed", "open", "released"} /\ h[k].upto \in 0..BackingLen
         /\ drops[k].pc \in {"held", "clear", "uncharge", "dropped"}
    /\ \A r \in Readers : rd[r].h \in Handles \cup {None}
    /\ Len(queue) <= QueueCap

\* The counter is exact at every instant: it differs from the bytes buffered
\* only by what some thread has stored and not yet charged, or cleared and
\* not yet uncharged.  Neither a racing eviction nor a racing deregistration
\* ever counts a buffer twice.
ChargedIsExact ==
    charged + SumFunction([w \in Workers |-> wk[w].delta])
      = SumFunction([k \in Handles |-> Size(ra[k])])
        + SumFunction([r \in Readers |-> rd[r].freed])
        + SumFunction([k \in Handles |-> drops[k].freed])

\* Handle's Drop: "so the budget never leaks".  When nothing is in flight,
\* only the buffers of open handles are charged.
BudgetNeverLeaks ==
    Quiet => charged = SumFunction([k \in {i \in Handles : h[i].state = "open"} |-> Size(ra[k])])

\* Nobody waits for ever on a buffer and no search for room goes round in
\* circles: every read ends, every job is stored or dropped, and every
\* released handle is torn down.
EverythingEnds == []<>Quiet

\* "Freshness semantics are untouched": no read serves bytes of an older
\* version of the file than the one it was validated against.
ServedIsFresh == ~stale
=============================================================================
