-------------------------------- MODULE Scan --------------------------------
(***************************************************************************)
(* One run of musefs scan or musefs revalidate: musefs-core/src/scan.rs    *)
(* and byte_budget.rs.  The caller's thread walks the root, decides which  *)
(* files to look at, and then writes what a pool of probe workers sends it *)
(* over a bounded channel, in batched transactions; workers reserve the    *)
(* bytes they hold from a budget that only a commit gives back.  Files are *)
(* rewritten, moved and removed under the run, and curated tags are edited *)
(* in the store.                                                           *)
(*                                                                         *)
(* A path is a number; a file has a content (a member of Contents, whose   *)
(* kind says what the parsers and the store make of it) and a stamp (size, *)
(* mtime and ctime: one number that every change of the file renews).      *)
(***************************************************************************)
EXTENDS Naturals, Sequences, FiniteSets, SequencesExt

CONSTANTS
    Paths,          \* 1..N
    Root,           \* the paths under the scanned root
    Contents,
    Kind,           \* content -> "ok", "unparseable", "oversize", "rejected"
    Fingerprint,    \* content -> digest of what the probe parses
    Weight,         \* content -> bytes of payload the probe keeps
    OptionSet,      \* the ScanOptions a run may have
    Workers,
    Cap,            \* batch_bytes
    BATCH_FILES,
    ChannelCap,     \* jobs * 2
    StoreFails,     \* whether a statement may fail for another reason
    MaxChanges,     \* bound: changes to the file system during the run
    InitialFiles,   \* what may be on disk: path -> content or None
    InitialTracks,  \* what earlier scans may have found there
    Collect(_, _),  \* the walk: files that are there, links followed? -> sequence
    None

VARIABLES
    opts,       \* [mode, force, tier, strictness, prune, follow_symlinks]
    disk,       \* path -> [content, stamp] or None
    clock,      \* the last stamp given out
    rows,       \* the store's tracks
    files,      \* what is left to dispatch, then the dispatched sequence
    phase,      \* where the calling thread is
    cursor,     \* next index of files to claim
    worker,     \* worker -> [pc, path, fd, s1, unit]
    chan,       \* the bounded channel
    rx,         \* whether the receiver is still there
    batch,      \* units received and not yet written
    txn,        \* [rows, left, done, weight] of an open transaction, or None
    budget,     \* ByteBudget: [in_flight, closed]
    count,      \* the run's counters
    todo,       \* the rows the prune pass still has to look at
    result,     \* ghost: path -> what became of a dispatched file
    gone,       \* ghost: paths that were absent at some point of the run
    history     \* ghost: every <<stamp, content>> a file has had

vars == <<opts, disk, clock, rows, files, phase, cursor, worker, chan, rx,
          batch, txn, budget, count, todo, result, gone, history>>

Options ==
    [mode : {"scan", "revalidate"}, force : BOOLEAN, tier : {"None", "Fingerprint", "Full"},
     strictness : {"Fast", "Auto", "Strict"}, prune : BOOLEAN, follow_symlinks : BOOLEAN]

\* A file on disk, what a worker makes of it, and the store's row for it.
Files == [content : Contents, stamp : Nat]

Prints == {Fingerprint[c] : c \in Contents} \cup {None}

Units == [path : Paths, stamp : Nat, content : Contents, fingerprint : Prints,
          content_hash : Contents \cup {None}]

Rows == [id : Nat, path : Paths, stamp : Nat, content : Contents, fingerprint : Prints,
         content_hash : Contents \cup {None}, curated : BOOLEAN]

Transactions == [rows : SUBSET Rows, done : Seq(Paths), weight : Nat]

ASSUME ScanAssumption ==
    /\ IsFiniteSet(Paths) /\ Paths = 1..Cardinality(Paths) /\ Root \subseteq Paths
    /\ IsFiniteSet(Workers) /\ Workers # {} /\ OptionSet \subseteq Options
    /\ {Cap, BATCH_FILES, ChannelCap} \subseteq Nat \ {0}
    /\ MaxChanges \in Nat /\ StoreFails \in BOOLEAN
    /\ \A c \in Contents : Weight[c] \in Nat
    /\ InitialFiles \cup InitialTracks \subseteq [Paths -> Contents \cup {None}]
    /\ None \notin Contents \cup Workers /\ None \notin Paths
    /\ None \notin Files /\ None \notin Units /\ None \notin Transactions

\* The walk finds the files that are there, those under the root among them,
\* and each of them once.
ASSUME CollectAssumption ==
    \A S \in SUBSET Paths, follow \in BOOLEAN :
        LET found == Collect(S, follow) IN
        /\ found \in Seq(S)
        /\ \A i, j \in 1..Len(found) : found[i] = found[j] => i = j
        /\ \A p \in S \cap Root : Contains(found, p)

Idle == [pc |-> "claim", path |-> None, fd |-> None, s1 |-> 0, unit |-> None]

Counters == {"failed", "raced", "tallied", "scanned", "finished", "seen", "unchanged", "pruned", "skip_failed"}

(***************************************************************************)
(* What the parsers and the store make of a content.                       *)
(***************************************************************************)

\* probe_body finds no audio in it, or an MP4 payload above the caps.
unparseable(c) == Kind[c] = "unparseable"

\* Its art, binary tags and structural blocks are within the store's caps.
check_storable(c) == Kind[c] # "oversize"

\* The store refuses its rows by a constraint nobody checks beforehand.
is_store_rejection(c) == Kind[c] = "rejected"

\* The digest of everything the probe parsed, bounds and tags included; the
\* audio itself is not in it.
fingerprint_of(c) == Fingerprint[c]

payload_weight(u) == Weight[u.content]

\* The digest of all bytes of the file at p, as it is now.
full_file_hash(p) == IF disk[p] = None THEN None ELSE disk[p].content

(***************************************************************************)
(* The store.                                                              *)
(***************************************************************************)
track_exists_at(rs, p) == \E r \in rs : r.path = p

FreshId(rs) == CHOOSE i \in 1..(Cardinality(rs) + 1) : \A r \in rs : r.id # i

coalesce(new, old) == IF new = None THEN old ELSE new

\* upsert_track and set_track_checksums: a row keeps its id and its curated
\* tags, and a checksum that was not computed keeps its old value.
upsert_track(rs, u, curated) ==
    LET old == {r \in rs : r.path = u.path}
        Updated(r) == [r EXCEPT !.stamp = u.stamp, !.content = u.content,
                                !.fingerprint = coalesce(u.fingerprint, @),
                                !.content_hash = coalesce(u.content_hash, @),
                                !.curated = IF curated THEN @ ELSE FALSE]
        New == [id |-> FreshId(rs), path |-> u.path, stamp |-> u.stamp, content |-> u.content,
                fingerprint |-> u.fingerprint, content_hash |-> u.content_hash, curated |-> FALSE]
    IN  (rs \ old) \cup (IF old = {} THEN {New} ELSE {Updated(r) : r \in old})

\* ingest_into replaces the tags and art by the file's own.
ingest_into(rs, u) == upsert_track(rs, u, FALSE)

\* refresh_structural_into leaves them alone.
refresh_structural_into(rs, u) == upsert_track(rs, u, TRUE)

retarget_track(rs, cand, u, hash) ==
    (rs \ {cand}) \cup
    {[cand EXCEPT !.path = u.path, !.stamp = u.stamp, !.content = u.content,
                  !.fingerprint = coalesce(u.fingerprint, @),
                  !.content_hash = coalesce(hash, @)]}

(***************************************************************************)
(* ingest_unit: a file at an unknown path takes over the row of a file     *)
(* that went missing when exactly one missing file has its fingerprint.    *)
(***************************************************************************)

\* Seeded fault: candidates whose file is still there are kept.
candidates_present(rs, u) ==
    {r \in rs : u.fingerprint # None /\ r.fingerprint = u.fingerprint}

candidates(rs, u) ==
    {r \in rs : /\ u.fingerprint # None /\ r.fingerprint = u.fingerprint
                /\ disk[r.path] = None}

\* The new file's full hash: the worker's, or read now if it is needed.
new_hash(cand, u) ==
    IF u.content_hash # None THEN u.content_hash
    ELSE IF opts.strictness = "Fast" \/ cand.content_hash = None THEN None
    ELSE full_file_hash(u.path)

confirmed(cand, u) ==
    \/ opts.strictness = "Fast"
    \/ cand.content_hash = None /\ opts.strictness = "Auto"
    \/ cand.content_hash # None /\ new_hash(cand, u) = cand.content_hash

ingest_unit(rs, u) ==
    IF opts.mode = "revalidate" THEN refresh_structural_into(rs, u)
    ELSE IF track_exists_at(rs, u.path) \/ Cardinality(candidates(rs, u)) # 1
         THEN ingest_into(rs, u)
    ELSE LET cand == CHOOSE r \in candidates(rs, u) : TRUE
         IN  IF confirmed(cand, u) THEN retarget_track(rs, cand, u, new_hash(cand, u))
             ELSE ingest_into(rs, u)

(***************************************************************************)
(* Walk and selection, on the calling thread.                              *)
(***************************************************************************)
\* collect_audio_with: the files that are there.
Walk ==
    /\ phase = "walk"
    /\ files' = Collect({p \in Paths : disk[p] # None}, opts.follow_symlinks)
    /\ phase' = "select"
    /\ UNCHANGED <<opts, disk, clock, rows, cursor, worker, chan, rx, batch, txn,
                   budget, count, todo, result, gone, history>>

RowAt(p) == CHOOSE r \in rows : r.path = p

needs_checksum(r) ==
    \/ opts.tier # "None" /\ r.fingerprint = None
    \/ opts.tier = "Full" /\ r.content_hash = None

\* revalidate_with keeps a file whose row is there and does not match it.
Changed(p) ==
    /\ disk[p] # None /\ track_exists_at(rows, p)
    /\ disk[p].stamp # RowAt(p).stamp \/ needs_checksum(RowAt(p))

\* scan_directory_with keeps what the store does not know, or all of it.
Selected(p) ==
    IF opts.mode = "scan" THEN opts.force \/ ~track_exists_at(rows, p) ELSE Changed(p)

\* The n-th of a set of numbers.
Nth(S, n) == CHOOSE i \in S : Cardinality({j \in S : j <= i}) = n

\* What is left of a sequence: its elements at the indices S, in order.
Keep(s, S) == [n \in 1..Cardinality(S) |-> s[Nth(S, n)]]

\* How many files of the walk are in T.
Tally(T) == Cardinality({i \in 1..Len(files) : files[i] \in T})

Select ==
    /\ phase = "select"
    /\ files' = Keep(files, {i \in 1..Len(files) : Selected(files[i])})
    /\ result' = [p \in Paths |-> IF Contains(files', p) THEN "pending" ELSE "idle"]
    /\ count' = IF opts.mode = "scan" THEN count
                ELSE [count EXCEPT !["skip_failed"] = Tally({p \in Paths : disk[p] = None}),
                                   !["tallied"] = Tally({p \in Paths : disk[p] = None}),
                                   !["unchanged"] = Tally({p \in Paths :
                                       disk[p] # None /\ track_exists_at(rows, p) /\ ~Changed(p)})]
    /\ phase' = "recv"
    /\ UNCHANGED <<opts, disk, clock, rows, cursor, worker, chan, rx, batch, txn,
                   budget, todo, gone, history>>

InPipeline == phase \notin {"walk", "select", "prune", "delete", "prune_error", "ok", "error"}

(***************************************************************************)
(* Probe workers.                                                          *)
(***************************************************************************)

\* A failure is tallied by its reason and counted.
Failed(p) ==
    /\ count' = [count EXCEPT !["failed"] = @ + 1, !["tallied"] = @ + 1]
    /\ result' = [result EXCEPT ![p] = "failed"]

ToStart(w) == worker' = [worker EXCEPT ![w] = Idle]

\* Claim the next index, open the file and take its first stamp.
Claim(w) ==
    /\ InPipeline /\ worker[w].pc = "claim"
    /\ cursor' = cursor + 1
    /\ IF cursor > Len(files)
       THEN /\ worker' = [worker EXCEPT ![w].pc = "exited"]
            /\ UNCHANGED <<count, result>>
       ELSE LET p == files[cursor] IN
            IF disk[p] = None THEN Failed(p) /\ UNCHANGED worker
            ELSE /\ worker' = [worker EXCEPT ![w] = [@ EXCEPT !.pc = "read", !.path = p,
                                                     !.fd = disk[p], !.s1 = disk[p].stamp]]
                 /\ UNCHANGED <<count, result>>
    /\ UNCHANGED <<opts, disk, clock, rows, files, phase, chan, rx, batch, txn, budget, todo,
                   gone, history>>

\* probe_body: what the parsers see of the open file.
ProbeBody(w) ==
    /\ worker[w].pc = "read"
    /\ worker' = [worker EXCEPT ![w].pc = "restat",
                    ![w].unit = [path |-> worker[w].path, stamp |-> worker[w].s1,
                                 content |-> worker[w].fd.content,
                                 fingerprint |-> None, content_hash |-> None]]
    /\ UNCHANGED <<opts, disk, clock, rows, files, phase, cursor, chan, rx, batch, txn, budget,
                   count, todo, result, gone, history>>

\* Seeded fault: the second stamp is not compared.
SettledUnchecked(w) == TRUE

\* s1 == s2: the open file did not change while it was parsed.
Settled(w) == worker[w].fd.stamp = worker[w].s1

\* The verdict on a probed file; check_storable speaks only when tags and
\* art are going to be written.
Verdict(w) ==
    /\ worker[w].pc = "restat"
    /\ LET u == worker[w].unit
       IN  IF ~Settled(w)
           THEN /\ count' = [count EXCEPT !["raced"] = @ + 1]
                /\ result' = [result EXCEPT ![u.path] = "raced"]
                /\ ToStart(w)
           ELSE IF unparseable(u.content) \/ (opts.mode = "scan" /\ ~check_storable(u.content))
           THEN Failed(u.path) /\ ToStart(w)
           ELSE /\ worker' = [worker EXCEPT ![w].pc = "acquire", ![w].fd = None]
                /\ UNCHANGED <<count, result>>
    /\ UNCHANGED <<opts, disk, clock, rows, files, phase, cursor, chan, rx, batch, txn, budget,
                   todo, gone, history>>

\* ByteBudget::acquire waits for room, but not for ever for a payload that
\* is larger than the cap, and not at all once the budget is closed.
MayAcquire(n) == budget.closed \/ budget.in_flight = 0 \/ budget.in_flight + n <= Cap

release(n) == [budget EXCEPT !.in_flight = IF n > @ THEN 0 ELSE @ - n]

Acquire(w) ==
    /\ worker[w].pc = "acquire" /\ MayAcquire(payload_weight(worker[w].unit))
    /\ budget' = [budget EXCEPT !.in_flight = @ + payload_weight(worker[w].unit)]
    /\ worker' = [worker EXCEPT ![w].pc = IF opts.tier = "Full" THEN "hash" ELSE "send",
                    ![w].unit.fingerprint =
                        IF opts.tier = "None" THEN None ELSE fingerprint_of(worker[w].unit.content)]
    /\ UNCHANGED <<opts, disk, clock, rows, files, phase, cursor, chan, rx, batch, txn,
                   count, todo, result, gone, history>>

\* full_file_hash opens the file again, by its path.
FullFileHash(w) ==
    /\ worker[w].pc = "hash"
    /\ worker' = [worker EXCEPT ![w].pc = "send",
                                ![w].unit.content_hash = full_file_hash(worker[w].path)]
    /\ UNCHANGED <<opts, disk, clock, rows, files, phase, cursor, chan, rx, batch, txn, budget,
                   count, todo, result, gone, history>>

\* Seeded fault: the channel takes any number of units.
SendUnbounded(w) ==
    /\ worker[w].pc = "send" /\ rx
    /\ chan' = Append(chan, worker[w].unit) /\ ToStart(w) /\ UNCHANGED budget
    /\ UNCHANGED <<opts, disk, clock, rows, files, phase, cursor, rx, batch, txn,
                   count, todo, result, gone, history>>

Send(w) ==
    /\ worker[w].pc = "send"
    /\ \/ /\ rx /\ Len(chan) < ChannelCap
          /\ chan' = Append(chan, worker[w].unit) /\ ToStart(w)
          /\ UNCHANGED budget
       \/ /\ ~rx
          /\ budget' = release(payload_weight(worker[w].unit))
          /\ worker' = [worker EXCEPT ![w] = [Idle EXCEPT !.pc = "exited"]]
          /\ UNCHANGED chan
    /\ UNCHANGED <<opts, disk, clock, rows, files, phase, cursor, rx, batch, txn,
                   count, todo, result, gone, history>>

WorkerStep(w) ==
    Claim(w) \/ ProbeBody(w) \/ Verdict(w) \/ Acquire(w) \/ FullFileHash(w) \/ Send(w)

Exited == \A w \in Workers : worker[w].pc = "exited"

(***************************************************************************)
(* The writer: the calling thread once the workers run.                    *)
(***************************************************************************)

\* Seeded fault: races do not advance the progress sequence.
uncommitted_total_failed == count["failed"]

\* Dispatched files that finished without being committed.
uncommitted_total == count["failed"] + count["raced"]

catch_up ==
    [count EXCEPT !["finished"] = @ + (uncommitted_total - count["seen"]),
                  !["seen"] = uncommitted_total]

SumWeights(s) == FoldLeft(LAMBDA n, u : n + payload_weight(u), 0, s)

Take(whenFull) ==
    /\ chan # <<>>
    /\ batch' = Append(batch, Head(chan)) /\ chan' = Tail(chan)
    /\ phase' = IF Len(batch') >= BATCH_FILES \/ SumWeights(batch') >= Cap
                THEN whenFull ELSE "recv"

\* Seeded fault: an empty channel is waited on with the batch in hand.
TryRecvParks ==
    /\ phase = "recv" /\ count' = catch_up
    /\ \/ Take("flush_recv")
       \/ /\ chan = <<>> /\ phase' = IF Exited THEN "flush_final" ELSE "block"
          /\ UNCHANGED <<batch, chan>>
    /\ UNCHANGED <<opts, disk, clock, rows, files, cursor, worker, rx, txn, budget, todo,
                   result, gone, history>>

\* The top of the loop: an empty channel flushes the batch before parking.
TryRecv ==
    /\ phase = "recv" /\ count' = catch_up
    /\ \/ Take("flush_recv")
       \/ /\ chan = <<>> /\ phase' = IF Exited THEN "flush_final" ELSE "flush_block"
          /\ UNCHANGED <<batch, chan>>
    /\ UNCHANGED <<opts, disk, clock, rows, files, cursor, worker, rx, txn, budget, todo,
                   result, gone, history>>

\* recv() wakes for a unit or for the last sender's exit.
Recv ==
    /\ phase = "block"
    /\ \/ Take("flush_recv")
       \/ chan = <<>> /\ Exited /\ phase' = "flush_final" /\ UNCHANGED <<batch, chan>>
    /\ UNCHANGED <<opts, disk, clock, rows, files, cursor, worker, rx, txn, budget, count, todo,
                   result, gone, history>>

Flushing == phase \in {"flush_recv", "flush_block", "flush_final"}

AfterFlush == CASE phase = "flush_recv" -> "recv"
                [] phase = "flush_block" -> "block"
                [] phase = "flush_final" -> "final"

FlushNothing ==
    /\ Flushing /\ batch = <<>> /\ txn = None
    /\ phase' = AfterFlush
    /\ UNCHANGED <<opts, disk, clock, rows, files, cursor, worker, chan, rx, batch, txn, budget,
                   count, todo, result, gone, history>>

Transaction == IF txn = None THEN [rows |-> rows, done |-> <<>>, weight |-> 0] ELSE txn

\* Seeded fault: a rejected file's bytes are not given back.
released_committed(u) == IF is_store_rejection(u.content) THEN 0 ELSE payload_weight(u)

\* What the commit gives back for a unit, whatever became of it.
released(u) == payload_weight(u)

\* One savepoint: the unit's rows go in, or the store rejects them and only
\* this file has failed.
FlushItem ==
    /\ Flushing /\ batch # <<>>
    /\ LET u == Head(batch)
           t == [Transaction EXCEPT !.weight = @ + released(u)]
       IN  IF is_store_rejection(u.content)
           THEN txn' = t /\ Failed(u.path)
           ELSE /\ txn' = [t EXCEPT !.rows = ingest_unit(t.rows, u), !.done = Append(@, u.path)]
                /\ UNCHANGED <<count, result>>
    /\ batch' = Tail(batch)
    /\ UNCHANGED <<opts, disk, clock, rows, files, phase, cursor, worker, chan, rx, budget, todo,
                   gone, history>>

FlushCommit ==
    /\ Flushing /\ batch = <<>> /\ txn # None
    /\ rows' = txn.rows
    /\ count' = [count EXCEPT !["scanned"] = @ + Len(txn.done), !["finished"] = @ + Len(txn.done)]
    /\ result' = [p \in Paths |-> IF Contains(txn.done, p) THEN "committed" ELSE result[p]]
    /\ budget' = release(txn.weight)
    /\ txn' = None /\ phase' = AfterFlush
    /\ UNCHANGED <<opts, disk, clock, files, cursor, worker, chan, rx, batch, todo, gone, history>>

\* Any other error of the store, on a statement or on the commit.
FlushFails ==
    /\ StoreFails /\ Flushing /\ (batch # <<>> \/ txn # None)
    /\ batch' = <<>> /\ txn' = None /\ phase' = "fatal"
    /\ UNCHANGED <<opts, disk, clock, rows, files, cursor, worker, chan, rx, budget, count, todo,
                   result, gone, history>>

close == [budget EXCEPT !.closed = TRUE]

\* drop(rx) and budget.close(): no sender and no producer stays parked.
Teardown ==
    /\ phase = "fatal"
    /\ rx' = FALSE /\ chan' = <<>>
    /\ budget' = close
    /\ phase' = "join"
    /\ UNCHANGED <<opts, disk, clock, rows, files, cursor, worker, batch, txn, count, todo,
                   result, gone, history>>

\* Join the workers after a failure, or after the last catch-up.
Join ==
    /\ phase \in {"join", "final"} /\ Exited
    /\ count' = IF phase = "final" THEN catch_up ELSE count
    /\ phase' = IF phase = "join" THEN "error"
                ELSE IF opts.mode = "revalidate" /\ opts.prune THEN "prune" ELSE "ok"
    /\ todo' = IF phase' = "prune" THEN rows ELSE todo
    /\ UNCHANGED <<opts, disk, clock, rows, files, cursor, worker, chan, rx, batch, txn, budget,
                   result, gone, history>>

(***************************************************************************)
(* The prune pass of revalidate_with.                                      *)
(***************************************************************************)
NextRow == CHOOSE r \in todo : \A q \in todo : r.id <= q.id

InScope(r) == r.path \in Root

PruneStat ==
    /\ phase = "prune"
    /\ IF todo = {} THEN phase' = "ok" /\ UNCHANGED todo
       ELSE IF InScope(NextRow) /\ disk[NextRow.path] = None
       THEN phase' = "delete" /\ UNCHANGED todo
       ELSE todo' = todo \ {NextRow} /\ UNCHANGED phase
    /\ UNCHANGED <<opts, disk, clock, rows, files, cursor, worker, chan, rx, batch, txn, budget,
                   count, result, gone, history>>

PruneDelete ==
    /\ phase = "delete"
    /\ \/ /\ rows' = {r \in rows : r.id # NextRow.id}
          /\ count' = [count EXCEPT !["pruned"] = @ + 1]
          /\ todo' = todo \ {NextRow} /\ phase' = "prune"
       \/ /\ StoreFails /\ phase' = "prune_error" /\ UNCHANGED <<rows, count, todo>>
    /\ UNCHANGED <<opts, disk, clock, files, cursor, worker, chan, rx, batch, txn, budget,
                   result, gone, history>>

CallerStep ==
    \/ Walk \/ Select \/ TryRecv \/ Recv \/ FlushNothing \/ FlushItem \/ FlushCommit
    \/ FlushFails \/ Teardown \/ Join \/ PruneStat \/ PruneDelete

(***************************************************************************)
(* The world around the run.                                               *)
(***************************************************************************)
Ended == phase \in {"ok", "error", "prune_error"}

\* A change to the file at p: its stamp is renewed, also for whoever has it
\* open; it ends up at q (p itself, another path or nowhere).
Change(p, q, c) ==
    /\ ~Ended /\ clock < Cardinality(Paths) + MaxChanges /\ disk[p] # None
    /\ LET f == [content |-> c, stamp |-> clock + 1] IN
       /\ disk' = [x \in Paths |-> IF x = q THEN f ELSE IF x = p THEN None ELSE disk[x]]
       /\ worker' = [w \in Workers |->
              IF worker[w].fd # None /\ worker[w].fd = disk[p]
              THEN [worker[w] EXCEPT !.fd = f] ELSE worker[w]]
       /\ history' = history \cup {<<f.stamp, c>>}
    /\ clock' = clock + 1
    /\ gone' = IF q = p THEN gone ELSE gone \cup {p}
    /\ UNCHANGED <<opts, rows, files, phase, cursor, chan, rx, batch, txn, budget, count, todo,
                   result>>

Rewrite(p) == \E c \in Contents : Change(p, p, c)

Move(p, q) == disk[q] = None /\ q # p /\ Change(p, q, disk[p].content)

Unlink(p) == Change(p, None, disk[p].content)

\* Someone edits a track's tags; a batch that has begun to write shuts
\* other writers out.
Curate ==
    /\ ~Ended /\ txn = None
    /\ \E r \in rows :
        /\ ~r.curated
        /\ rows' = (rows \ {r}) \cup {[r EXCEPT !.curated = TRUE]}
    /\ UNCHANGED <<opts, disk, clock, files, phase, cursor, worker, chan, rx, batch, txn, budget,
                   count, todo, result, gone, history>>

World ==
    \/ \E p \in Paths : Rewrite(p) \/ Unlink(p) \/ \E q \in Paths : Move(p, q)
    \/ Curate

\* Rows an earlier scan left behind: their stamp is the file's own unless
\* the file has changed since.
Known(d, t) ==
    {[id |-> p, path |-> p, content |-> t[p], curated |-> TRUE,
      stamp |-> IF d[p] = t[p] THEN p ELSE 0, fingerprint |-> fingerprint_of(t[p]),
      content_hash |-> IF opts.tier = "Full" THEN t[p] ELSE None] :
        p \in {x \in Paths : t[x] # None}}

Init ==
    /\ opts \in OptionSet
    /\ \E d \in InitialFiles, t \in InitialTracks :
        /\ disk = [p \in Paths |-> IF d[p] = None THEN None
                                   ELSE [content |-> d[p], stamp |-> p]]
        /\ rows = Known(d, t)
        /\ gone = {p \in Paths : d[p] = None}
        /\ history = {<<p, d[p]>> : p \in {x \in Paths : d[x] # None}}
    /\ clock = Cardinality(Paths)
    /\ files = <<>> /\ phase = "walk" /\ cursor = 1
    /\ worker = [w \in Workers |-> Idle]
    /\ chan = <<>> /\ rx = TRUE /\ batch = <<>> /\ txn = None
    /\ budget = [in_flight |-> 0, closed |-> FALSE]
    /\ count = [c \in Counters |-> 0]
    /\ todo = {}
    /\ result = [p \in Paths |-> "idle"]

Next == CallerStep \/ (\E w \in Workers : WorkerStep(w)) \/ World

\* The threads run: none of them waits but on the channel, the budget and
\* the joins.  The world need not do anything.
Spec == Init /\ [][Next]_vars /\ WF_vars(CallerStep) /\ \A w \in Workers : WF_vars(WorkerStep(w))

(***************************************************************************)
(* Properties.                                                             *)
(***************************************************************************)
Phases == {"walk", "select", "recv", "block", "flush_recv", "flush_block", "flush_final",
           "fatal", "join", "final", "prune", "delete", "prune_error", "ok", "error"}

\* Variables have their types; the channel never holds more than its
\* capacity, a batch never more than BATCH_FILES units, and no two rows
\* share an id or a path.
TypeOK ==
    /\ opts \in OptionSet /\ phase \in Phases
    /\ \A p \in Paths : disk[p] = None \/ (disk[p].content \in Contents /\ disk[p].stamp \in 1..clock)
    /\ \A p \in 1..Len(files) : files[p] \in Paths
    /\ cursor \in 1..(Len(files) + Cardinality(Workers) + 1)
    /\ Len(chan) <= ChannelCap /\ Len(batch) <= BATCH_FILES
    /\ budget.in_flight \in Nat /\ budget.closed \in BOOLEAN /\ rx \in BOOLEAN
    /\ \A c \in Counters : count[c] \in Nat
    /\ \A r, q \in rows : (r.id = q.id \/ r.path = q.path) => r = q

\* The stamp sandwich of probe_file: what a row says about a file (bounds,
\* tags, fingerprint) was parsed from the very bytes its stamp stands for,
\* whoever rewrote, moved or replaced the file during the probe.
RowsAreHonest ==
    \A r \in rows : r.stamp = 0 \/ <<r.stamp, r.content>> \in history

Settles(v) == Cardinality({p \in Paths : result[p] = v})

\* The two debug_asserts at the end of run_pipeline and what they are for:
\* a run that succeeds has settled every dispatched file once, its counters
\* partition them, every failure has a reason and progress reached the end.
\* A scan has passed over no file that was under its root all along, whatever
\* links lead to it or back: the file has a row or was counted.
EveryFileAccountedFor ==
    phase \in {"prune", "ok"} =>
        /\ Settles("pending") = 0
        /\ count["scanned"] = Settles("committed")
        /\ count["failed"] = Settles("failed") /\ count["raced"] = Settles("raced")
        /\ count["tallied"] - count["skip_failed"] = count["failed"]
        /\ count["finished"] = Len(files)
        /\ opts.mode = "scan" =>
             \A p \in Root \ gone : result[p] # "idle" \/ track_exists_at(rows, p)

\* Bytes reserved by workers that have not handed their unit on.
Holding == {w \in Workers : worker[w].pc \in {"hash", "send"}}

HeldUnits == {worker[w].unit : w \in Holding} \cup Range(chan) \cup Range(batch)

PayloadBytes(units) == SumFunction([u \in units |-> payload_weight(u)])

OpenBytes == IF txn = None THEN 0 ELSE txn.weight

\* Until a fatal error, ByteBudget counts exactly the payloads in memory:
\* those of workers past acquire, in the channel, in the batch and in the
\* open transaction; and they exceed the cap only when there is but one.
\* (A file is in one place at a time: units are told apart by their paths.)
BudgetCoversHeldBytes ==
    phase \notin {"fatal", "join", "error"} =>
        /\ budget.in_flight = PayloadBytes(HeldUnits) + OpenBytes
        /\ budget.in_flight > Cap =>
             Cardinality({u \in HeldUnits : payload_weight(u) > 0}) <= 1

\* Without --force a run never touches the identity, path or curated tags
\* of a track whose file was there all along, and revalidate none outside
\* its root: a bare scan is additive, a retarget takes only rows of missing
\* files, revalidate refreshes structural facts and prunes missing files.
CurationIsKept ==
    [][~opts.force =>
        \A r \in rows : r.path \notin gone \/ (opts.mode = "revalidate" /\ r.path \notin Root) =>
            \E q \in rows' : /\ q.id = r.id /\ q.path = r.path
                             /\ r.curated => q.curated]_vars

\* The run does what ScanResult promises; in particular it ends.
Outcome == INSTANCE ScanResult WITH
    Files <- Paths,
    status <- CASE phase \in {"walk", "select"} -> "idle"
                [] phase \in {"prune", "delete", "prune_error", "ok"} -> "ok"
                [] phase = "error" -> "error"
                [] OTHER -> "running"

KeepsItsPromise == Outcome!Spec
=============================================================================
