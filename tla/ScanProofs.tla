----------------------------- MODULE ScanProofs -----------------------------
(***************************************************************************)
(* What a scan does to the store, proved for any number of files, workers  *)
(* and batches, and for a walk that meets CollectAssumption.               *)
(***************************************************************************)
EXTENDS Scan, SumProofs, FiniteSetTheorems, SequenceTheorems, WellFoundedInduction, TLAPS

WorkerPcs == {"claim", "read", "restat", "acquire", "hash", "send", "exited"}

WorkerStates ==
    [pc : WorkerPcs, path : Paths \cup {None}, fd : Files \cup {None}, s1 : Nat,
     unit : Units \cup {None}]

\* No two rows share an id or a path.
Keyed(rs) == \A r, q \in rs : (r.id = q.id \/ r.path = q.path) => r = q

RowsOK(rs) == rs \subseteq Rows /\ IsFiniteSet(rs) /\ Keyed(rs)

\* The inductive type invariant.
ShapeOK ==
    /\ opts \in Options /\ opts \in OptionSet /\ phase \in Phases
    /\ disk \in [Paths -> Files \cup {None}]
    /\ clock \in Nat /\ cursor \in Nat \ {0}
    /\ files \in Seq(Paths)
    /\ RowsOK(rows)
    /\ worker \in [Workers -> WorkerStates]
    /\ chan \in Seq(Units) /\ batch \in Seq(Units) /\ rx \in BOOLEAN
    /\ txn # None => txn \in Transactions /\ RowsOK(txn.rows)
    /\ budget \in [in_flight : Nat, closed : BOOLEAN]
    /\ todo \subseteq Rows

\* A stamp stands for one content, and this is it.
Honest(u) == <<u.stamp, u.content>> \in history

HonestRows(rs) == \A r \in rs : r.stamp = 0 \/ Honest(r)

\* The stamp sandwich as a worker goes through it: the open file may have
\* been renewed since its first stamp, but then its second stamp shows it.
WorkerOK(m) ==
    /\ m.pc \in {"claim", "exited"} => m = [Idle EXCEPT !.pc = m.pc]
    /\ m.pc \notin {"claim", "exited"} => m.path \in Paths
    /\ m.pc \in {"read", "restat"} => m.fd # None /\ m.s1 <= m.fd.stamp
    /\ m.pc \in {"restat", "acquire", "hash", "send"} => m.unit # None /\ m.unit.path = m.path
    /\ m.pc = "restat" => m.unit.stamp = m.s1 /\ (m.fd.stamp = m.s1 => m.unit.content = m.fd.content)
    /\ m.pc \in {"acquire", "hash", "send"} => Honest(m.unit)
    /\ m.s1 <= clock
    /\ m.fd # None => m.fd.stamp <= clock /\ Honest(m.fd)

\* Every fact on its way to the store was parsed from the bytes its stamp
\* stands for.
HonestOK ==
    /\ \A p \in Paths : disk[p] # None => disk[p].stamp \in 1..clock /\ Honest(disk[p])
    /\ \A w \in Workers : WorkerOK(worker[w])
    /\ \A i \in 1..Len(chan) : Honest(chan[i])
    /\ \A i \in 1..Len(batch) : Honest(batch[i])
    /\ txn # None => HonestRows(txn.rows)
    /\ HonestRows(rows)

HonestInv == ShapeOK /\ HonestOK

-----------------------------------------------------------------------------
(***************************************************************************)
(* The store's operators.                                                  *)
(***************************************************************************)

\* An id that no row has is found.
LEMMA FreshIdProps ==
  ASSUME NEW rs, RowsOK(rs)
  PROVE  FreshId(rs) \in Nat /\ \A r \in rs : r.id # FreshId(rs)
  <1> DEFINE n == Cardinality(rs)
  <1>1. n \in Nat
    BY FS_CardinalityType DEF RowsOK
  <1>2. \E i \in 1..(n + 1) : \A r \in rs : r.id # i
    <2> SUFFICES ASSUME \A i \in 1..(n + 1) : \E r \in rs : r.id = i PROVE FALSE
      OBVIOUS
    <2> DEFINE f == [i \in 1..(n + 1) |-> CHOOSE r \in rs : r.id = i]
    <2>1. \A i \in 1..(n + 1) : f[i] \in rs /\ f[i].id = i
      OBVIOUS
    <2>2. f \in [1..(n + 1) -> rs]
      BY <2>1
    <2>3. IsFiniteSet(1..(n + 1)) /\ Cardinality(1..(n + 1)) = n + 1
      BY <1>1, FS_Interval
    <2> HIDE DEF f
    <2>4. \E i, j \in 1..(n + 1) : i # j /\ f[i] = f[j]
      BY <1>1, <2>2, <2>3, FS_PigeonHole DEF RowsOK
    <2> QED
      BY <2>1, <2>4
  <1> QED
    BY <1>1, <1>2 DEF FreshId

\* Adding a row with an id and a path of its own keeps the table keyed.
LEMMA AddRow ==
  ASSUME NEW rs, RowsOK(rs), NEW r \in Rows,
         \A q \in rs : q.id # r.id /\ q.path # r.path
  PROVE  RowsOK(rs \cup {r})
  BY FS_AddElement DEF RowsOK, Keyed

\* Replacing a row by one of the same id, at its path or at a free one.
LEMMA ReplaceRow ==
  ASSUME NEW rs, RowsOK(rs), NEW old \in rs, NEW r \in Rows, r.id = old.id,
         \A q \in rs : q.path = r.path => q = old
  PROVE  RowsOK((rs \ {old}) \cup {r})
  <1>1. RowsOK(rs \ {old})
    BY FS_RemoveElement DEF RowsOK, Keyed
  <1>2. \A q \in rs \ {old} : q.id # r.id /\ q.path # r.path
    BY DEF RowsOK, Keyed
  <1> QED
    BY <1>1, <1>2, AddRow

Row0(rs, u) ==
    [id |-> FreshId(rs), path |-> u.path, stamp |-> u.stamp, content |-> u.content,
     fingerprint |-> u.fingerprint, content_hash |-> u.content_hash, curated |-> FALSE]

Row1(r, u, curated) ==
    [r EXCEPT !.stamp = u.stamp, !.content = u.content,
              !.fingerprint = coalesce(u.fingerprint, @),
              !.content_hash = coalesce(u.content_hash, @),
              !.curated = IF curated THEN @ ELSE FALSE]

\* An upsert inserts one row or changes the one at the unit's path.
LEMMA UpsertCases ==
  ASSUME NEW rs, RowsOK(rs), NEW u \in Units, NEW curated \in BOOLEAN
  PROVE  \/ /\ ~track_exists_at(rs, u.path)
            /\ upsert_track(rs, u, curated) = rs \cup {Row0(rs, u)}
         \/ \E r \in rs : /\ r.path = u.path
                          /\ upsert_track(rs, u, curated) = (rs \ {r}) \cup {Row1(r, u, curated)}
  <1>1. CASE ~track_exists_at(rs, u.path)
    <2>1. {r \in rs : r.path = u.path} = {}
      BY <1>1 DEF track_exists_at
    <2>2. rs \ {} = rs
      OBVIOUS
    <2>3. upsert_track(rs, u, curated) = (rs \ {}) \cup {Row0(rs, u)}
      BY <2>1 DEF upsert_track, Row0
    <2> QED
      BY <1>1, <2>2, <2>3
  <1>2. CASE track_exists_at(rs, u.path)
    <2>1. PICK r \in rs : r.path = u.path
      BY <1>2 DEF track_exists_at
    <2>2. {q \in rs : q.path = u.path} = {r}
      BY <2>1 DEF RowsOK, Keyed
    <2>3. {Row1(q, u, curated) : q \in {r}} = {Row1(r, u, curated)}
      OBVIOUS
    <2>4. upsert_track(rs, u, curated) = (rs \ {r}) \cup {Row1(r, u, curated)}
      BY <2>2, <2>3 DEF upsert_track, Row1
    <2> QED
      BY <2>1, <2>4
  <1> QED
    BY <1>1, <1>2

\* The two rows an upsert may write.
LEMMA UpsertRows ==
  ASSUME NEW rs, RowsOK(rs), NEW u \in Units, NEW curated \in BOOLEAN
  PROVE  /\ Row0(rs, u) \in Rows
         /\ \A r \in rs : /\ Row1(r, u, curated) \in Rows
                          /\ Row1(r, u, curated).id = r.id
                          /\ Row1(r, u, curated).path = r.path
                          /\ Row1(r, u, curated).stamp = u.stamp
                          /\ Row1(r, u, curated).content = u.content
                          /\ Row1(r, u, curated).curated = (curated /\ r.curated)
  <1>1. Row0(rs, u) \in Rows
    BY FreshIdProps DEF Row0, Rows, Units
  <1>2. ASSUME NEW r \in rs
        PROVE  /\ Row1(r, u, curated) \in Rows
               /\ Row1(r, u, curated).id = r.id
               /\ Row1(r, u, curated).path = r.path
               /\ Row1(r, u, curated).stamp = u.stamp
               /\ Row1(r, u, curated).content = u.content
               /\ Row1(r, u, curated).curated = (curated /\ r.curated)
    <2>1. r \in Rows
      BY DEF RowsOK
    <2> QED
      BY <2>1 DEF Row1, Rows, Units, coalesce
  <1> QED
    BY <1>1, <1>2

\* The candidate a unit takes over, when there is exactly one.
Cand(rs, u) == CHOOSE r \in candidates(rs, u) : TRUE

Row2(cand, u) ==
    [cand EXCEPT !.path = u.path, !.stamp = u.stamp, !.content = u.content,
                 !.fingerprint = coalesce(u.fingerprint, @),
                 !.content_hash = coalesce(new_hash(cand, u), @)]

\* What an ingest makes of the table: a new row, a changed one, or the row
\* of a missing file moved to a path that had none.
LEMMA IngestCases ==
  ASSUME ShapeOK, NEW rs, RowsOK(rs), NEW u \in Units
  PROVE  \/ /\ ~track_exists_at(rs, u.path)
            /\ ingest_unit(rs, u) = rs \cup {Row0(rs, u)}
         \/ \E r \in rs, curated \in BOOLEAN :
               /\ r.path = u.path /\ (opts.mode = "revalidate" => curated = TRUE)
               /\ ingest_unit(rs, u) = (rs \ {r}) \cup {Row1(r, u, curated)}
         \/ \E r \in rs : /\ ~track_exists_at(rs, u.path) /\ opts.mode = "scan"
                          /\ disk[r.path] = None
                          /\ ingest_unit(rs, u) = (rs \ {r}) \cup {Row2(r, u)}
  <1>1. CASE opts.mode = "revalidate"
    <2>1. PICK c \in BOOLEAN : c = TRUE
      OBVIOUS
    <2>2. ingest_unit(rs, u) = upsert_track(rs, u, c)
      BY <1>1, <2>1 DEF ingest_unit, refresh_structural_into
    <2>3. \/ /\ ~track_exists_at(rs, u.path)
             /\ upsert_track(rs, u, c) = rs \cup {Row0(rs, u)}
          \/ \E r \in rs : /\ r.path = u.path
                           /\ upsert_track(rs, u, c) = (rs \ {r}) \cup {Row1(r, u, c)}
      BY UpsertCases
    <2> QED
      BY <2>1, <2>2, <2>3
  <1>2. CASE opts.mode # "revalidate" /\ ingest_unit(rs, u) = ingest_into(rs, u)
    <2>1. PICK c \in BOOLEAN : c = FALSE
      OBVIOUS
    <2>2. ingest_unit(rs, u) = upsert_track(rs, u, c)
      BY <1>2, <2>1 DEF ingest_into
    <2>3. \/ /\ ~track_exists_at(rs, u.path)
             /\ upsert_track(rs, u, c) = rs \cup {Row0(rs, u)}
          \/ \E r \in rs : /\ r.path = u.path
                           /\ upsert_track(rs, u, c) = (rs \ {r}) \cup {Row1(r, u, c)}
      BY UpsertCases
    <2> QED
      BY <1>2, <2>2, <2>3
  <1>3. CASE opts.mode # "revalidate" /\ ingest_unit(rs, u) # ingest_into(rs, u)
    <2>1. /\ ~track_exists_at(rs, u.path) /\ Cardinality(candidates(rs, u)) = 1
          /\ ingest_unit(rs, u) = retarget_track(rs, Cand(rs, u), u, new_hash(Cand(rs, u), u))
      BY <1>3 DEF ingest_unit, Cand
    <2>2. IsFiniteSet(candidates(rs, u))
      BY FS_Subset DEF RowsOK, candidates
    <2>3. candidates(rs, u) # {}
      BY <2>1, <2>2, FS_EmptySet
    <2>4. Cand(rs, u) \in candidates(rs, u)
      BY <2>3 DEF Cand
    <2>5. Cand(rs, u) \in rs /\ disk[Cand(rs, u).path] = None
      BY <2>4 DEF candidates
    <2>6. opts.mode = "scan"
      BY <1>3 DEF ShapeOK, Options
    <2>7. ingest_unit(rs, u) = (rs \ {Cand(rs, u)}) \cup {Row2(Cand(rs, u), u)}
      BY <2>1 DEF retarget_track, Row2
    <2> QED
      BY <2>1, <2>5, <2>6, <2>7
  <1> QED
    BY <1>1, <1>2, <1>3

\* The row a retarget writes.
LEMMA RetargetRow ==
  ASSUME ShapeOK, NEW rs, RowsOK(rs), NEW u \in Units, NEW r \in rs
  PROVE  /\ Row2(r, u) \in Rows
         /\ Row2(r, u).id = r.id /\ Row2(r, u).path = u.path
         /\ Row2(r, u).stamp = u.stamp /\ Row2(r, u).content = u.content
  <1>1. r \in Rows
    BY DEF RowsOK
  <1>2. full_file_hash(u.path) \in Contents \cup {None}
    BY DEF full_file_hash, ShapeOK, Files, Units
  <1>3. new_hash(r, u) \in Contents \cup {None}
    BY <1>2 DEF new_hash, Units
  <1> QED
    BY <1>1, <1>3 DEF Row2, Rows, Units, coalesce

\* An ingest keeps the table keyed and honest.
LEMMA IngestKeeps ==
  ASSUME ShapeOK, NEW rs, RowsOK(rs), HonestRows(rs), NEW u \in Units, Honest(u)
  PROVE  RowsOK(ingest_unit(rs, u)) /\ HonestRows(ingest_unit(rs, u))
  <1>1. CASE /\ ~track_exists_at(rs, u.path)
             /\ ingest_unit(rs, u) = rs \cup {Row0(rs, u)}
    <2>1. Row0(rs, u).id = FreshId(rs) /\ Row0(rs, u).path = u.path /\ Honest(Row0(rs, u))
      BY DEF Row0, Honest
    <2>2. \A q \in rs : q.id # Row0(rs, u).id /\ q.path # Row0(rs, u).path
      BY <1>1, <2>1, FreshIdProps DEF track_exists_at
    <2>3. Row0(rs, u) \in Rows
      BY UpsertRows
    <2>4. RowsOK(rs \cup {Row0(rs, u)})
      BY <2>2, <2>3, AddRow
    <2> QED
      BY <1>1, <2>1, <2>4 DEF HonestRows
  <1>2. CASE \E r \in rs, curated \in BOOLEAN :
               /\ r.path = u.path
               /\ ingest_unit(rs, u) = (rs \ {r}) \cup {Row1(r, u, curated)}
    <2>1. PICK r \in rs, curated \in BOOLEAN :
               /\ r.path = u.path
               /\ ingest_unit(rs, u) = (rs \ {r}) \cup {Row1(r, u, curated)}
      BY <1>2
    <2> DEFINE n == Row1(r, u, curated)
    <2>2. n \in Rows /\ n.id = r.id /\ n.path = r.path /\ n.stamp = u.stamp /\ n.content = u.content
      BY UpsertRows
    <2> HIDE DEF n
    <2>3. \A q \in rs : q.path = n.path => q = r
      BY <2>2 DEF RowsOK, Keyed
    <2>4. RowsOK((rs \ {r}) \cup {n})
      BY <2>2, <2>3, ReplaceRow
    <2>5. Honest(n)
      BY <2>2 DEF Honest
    <2>6. ingest_unit(rs, u) = (rs \ {r}) \cup {n}
      BY <2>1 DEF n
    <2> QED
      BY <2>4, <2>5, <2>6 DEF HonestRows
  <1>3. CASE \E r \in rs : /\ ~track_exists_at(rs, u.path)
                           /\ ingest_unit(rs, u) = (rs \ {r}) \cup {Row2(r, u)}
    <2>1. PICK r \in rs : /\ ~track_exists_at(rs, u.path)
                          /\ ingest_unit(rs, u) = (rs \ {r}) \cup {Row2(r, u)}
      BY <1>3
    <2>2. /\ Row2(r, u) \in Rows /\ Row2(r, u).id = r.id /\ Row2(r, u).path = u.path
          /\ Honest(Row2(r, u))
      BY RetargetRow DEF Honest
    <2>3. \A q \in rs : q.path = Row2(r, u).path => q = r
      BY <2>1, <2>2 DEF track_exists_at
    <2>4. RowsOK((rs \ {r}) \cup {Row2(r, u)})
      BY <2>2, <2>3, ReplaceRow
    <2> QED
      BY <2>1, <2>2, <2>4 DEF HonestRows
  <1> QED
    BY <1>1, <1>2, <1>3, IngestCases

-----------------------------------------------------------------------------
(***************************************************************************)
(* The steps keep HonestInv.                                               *)
(***************************************************************************)

\* A store starts with honest rows.
LEMMA InitHonest == Init => HonestInv
  <1> SUFFICES ASSUME Init PROVE HonestInv
    OBVIOUS
  <1>1. PICK d \in InitialFiles, t \in InitialTracks :
          /\ disk = [p \in Paths |-> IF d[p] = None THEN None ELSE [content |-> d[p], stamp |-> p]]
          /\ rows = Known(d, t)
          /\ history = {<<p, d[p]>> : p \in {x \in Paths : d[x] # None}}
    BY DEF Init
  <1>2. d \in [Paths -> Contents \cup {None}] /\ t \in [Paths -> Contents \cup {None}]
    BY ScanAssumption
  <1>3. IsFiniteSet(Paths) /\ Cardinality(Paths) \in Nat /\ Paths = 1..Cardinality(Paths)
    BY ScanAssumption, FS_CardinalityType
  <1>4. opts \in Options /\ opts \in OptionSet
    BY ScanAssumption DEF Init
  <1>5. RowsOK(rows) /\ HonestRows(rows)
    <2> DEFINE S == {x \in Paths : t[x] # None}
               R(p) == [id |-> p, path |-> p, content |-> t[p], curated |-> TRUE,
                        stamp |-> IF d[p] = t[p] THEN p ELSE 0, fingerprint |-> fingerprint_of(t[p]),
                        content_hash |-> IF opts.tier = "Full" THEN t[p] ELSE None]
    <2>1. rows = {R(p) : p \in S}
      BY <1>1 DEF Known
    <2>2. IsFiniteSet(S)
      BY <1>3, FS_Subset
    <2>3. \A p \in S : R(p) \in Rows /\ R(p).id = p /\ R(p).path = p
                       /\ (R(p).stamp = 0 \/ Honest(R(p)))
      BY <1>1, <1>2, <1>3 DEF Rows, Prints, fingerprint_of, Honest
    <2> HIDE DEF S, R
    <2>4. IsFiniteSet(rows)
      <3> DEFINE f == [p \in S |-> R(p)]
      <3>1. f \in Surjection(S, rows)
        BY <2>1 DEF Surjection
      <3> QED
        BY <2>2, <3>1, FS_Surjection
    <2> QED
      BY <2>1, <2>3, <2>4 DEF RowsOK, Keyed, HonestRows
  <1>6. disk \in [Paths -> Files \cup {None}]
    BY <1>1, <1>2, <1>3 DEF Files
  <1>7. \A p \in Paths : disk[p] # None => disk[p].stamp \in 1..clock /\ Honest(disk[p])
    BY <1>1, <1>2, <1>3 DEF Honest, Init
  <1>8. worker \in [Workers -> WorkerStates] /\ \A w \in Workers : worker[w] = Idle
    BY DEF Init, Idle, WorkerStates, WorkerPcs
  <1>9. \A w \in Workers : WorkerOK(worker[w])
    BY <1>3, <1>8 DEF WorkerOK, Idle, Init
  <1>10. ShapeOK
    BY <1>3, <1>4, <1>5, <1>6, <1>8 DEF Init, ShapeOK, Phases
  <1> QED
    BY <1>5, <1>7, <1>9, <1>10 DEF HonestInv, HonestOK, Init

\* A step that touches none of the facts on their way to the store.
LEMMA QuietStep ==
  ASSUME HonestInv,
         UNCHANGED <<opts, disk, clock, rows, worker, chan, batch, txn, history>>,
         phase' \in Phases, cursor' \in Nat \ {0}, files' \in Seq(Paths), todo' \subseteq Rows,
         rx' \in BOOLEAN, budget' \in [in_flight : Nat, closed : BOOLEAN]
  PROVE  HonestInv'
  BY DEF HonestInv, ShapeOK, HonestOK, WorkerOK, Honest, HonestRows, RowsOK, Keyed

\* A step of one worker.
LEMMA WorkerFrame ==
  ASSUME HonestInv, NEW w \in Workers, NEW m \in WorkerStates, WorkerOK(m),
         worker' = [worker EXCEPT ![w] = m],
         UNCHANGED <<opts, disk, clock, rows, files, phase, batch, txn, todo, rx, history>>,
         cursor' \in Nat \ {0}, budget' \in [in_flight : Nat, closed : BOOLEAN],
         chan' \in Seq(Units), \A i \in 1..Len(chan') : Honest(chan'[i])
  PROVE  HonestInv'
  <1>1. worker' \in [Workers -> WorkerStates]
    BY DEF HonestInv, ShapeOK
  <1>2. \A v \in Workers : WorkerOK(worker'[v])
    BY DEF HonestInv, ShapeOK, HonestOK
  <1>3. ShapeOK'
    BY <1>1 DEF HonestInv, ShapeOK, RowsOK, Keyed
  <1>4. (\A v \in Workers : WorkerOK(worker[v]))'
    BY <1>2 DEF WorkerOK, Honest
  <1> QED
    BY <1>3, <1>4 DEF HonestInv, HonestOK, Honest, HonestRows

\* What a state says of one worker.
LEMMA OfWorker ==
  ASSUME HonestInv, NEW w \in Workers
  PROVE  worker[w] \in WorkerStates /\ WorkerOK(worker[w])
  BY DEF HonestInv, ShapeOK, HonestOK

\* A worker that claims a file describes nothing yet.
LEMMA ClaimStep ==
  ASSUME HonestInv, NEW w \in Workers, Claim(w)
  PROVE  HonestInv'
  <1> DEFINE p == files[cursor]
  <1>0. worker[w] = Idle
    BY OfWorker DEF WorkerOK, Claim, Idle
  <1>1. UNCHANGED <<opts, disk, clock, rows, files, phase, chan, rx, batch, txn, budget, todo, history>>
    BY DEF Claim
  <1>2. cursor' \in Nat \ {0}
    BY DEF Claim, HonestInv, ShapeOK
  <1>3. CASE cursor > Len(files)
    <2> DEFINE m == [Idle EXCEPT !.pc = "exited"]
    <2>1. worker' = [worker EXCEPT ![w] = m]
      BY <1>0, <1>3 DEF Claim
    <2>2. m \in WorkerStates /\ WorkerOK(m)
      BY DEF WorkerStates, WorkerPcs, WorkerOK, Idle, HonestInv, ShapeOK
    <2> HIDE DEF m
    <2> QED
      BY <1>1, <1>2, <2>1, <2>2, WorkerFrame DEF HonestInv, ShapeOK, HonestOK
  <1>4. CASE ~(cursor > Len(files))
    <2>1. p \in Paths
      BY <1>4 DEF HonestInv, ShapeOK
    <2>2. CASE disk[p] = None
      BY <1>1, <1>2, <1>4, <2>2, QuietStep DEF Claim, HonestInv, ShapeOK
    <2>3. CASE disk[p] # None
      <3> DEFINE m == [Idle EXCEPT !.pc = "read", !.path = p, !.fd = disk[p], !.s1 = disk[p].stamp]
      <3>1. worker' = [worker EXCEPT ![w] = m]
        BY <1>0, <1>4, <2>3 DEF Claim
      <3>2. disk[p] \in Files /\ disk[p].stamp \in 1..clock /\ Honest(disk[p])
        BY <2>1, <2>3 DEF HonestInv, ShapeOK, HonestOK
      <3>3. m \in WorkerStates /\ WorkerOK(m)
        <4>1. m \in WorkerStates
          BY <2>1, <3>2 DEF WorkerStates, WorkerPcs, Idle, Files
        <4>2. m.pc = "read" /\ m.path = p /\ m.fd = disk[p] /\ m.s1 = disk[p].stamp
          BY DEF Idle
        <4>3. disk[p].stamp \in Nat /\ disk[p].stamp <= clock
          BY <3>2 DEF HonestInv, ShapeOK
        <4> HIDE DEF m, p
        <4>4. WorkerOK(m)
          BY <2>1, <2>3, <3>2, <4>2, <4>3 DEF WorkerOK
        <4> QED
          BY <4>1, <4>4
      <3> HIDE DEF m
      <3> QED
        BY <1>1, <1>2, <3>1, <3>3, WorkerFrame DEF HonestInv, ShapeOK, HonestOK
    <2> QED
      BY <2>2, <2>3
  <1> QED
    BY <1>3, <1>4

\* Steps that move a worker on without the other variables of the pipeline.
LEMMA WorkerMoves ==
  ASSUME HonestInv, NEW w \in Workers, NEW m \in WorkerStates, WorkerOK(m),
         worker' = [worker EXCEPT ![w] = m],
         UNCHANGED <<opts, disk, clock, rows, files, phase, cursor, chan, rx, batch, txn, todo,
                     history>>,
         budget' \in [in_flight : Nat, closed : BOOLEAN]
  PROVE  HonestInv'
  BY WorkerFrame DEF HonestInv, ShapeOK, HonestOK

\* What probe_body parsed is of the file the worker holds open.
LEMMA ProbeBodyStep ==
  ASSUME HonestInv, NEW w \in Workers, ProbeBody(w)
  PROVE  HonestInv'
  <1> DEFINE u == [path |-> worker[w].path, stamp |-> worker[w].s1,
                   content |-> worker[w].fd.content, fingerprint |-> None, content_hash |-> None]
             m == [worker[w] EXCEPT !.pc = "restat", !.unit = u]
  <1>1. worker[w] \in WorkerStates /\ WorkerOK(worker[w]) /\ worker[w].pc = "read"
    BY OfWorker DEF ProbeBody
  <1>2. worker' = [worker EXCEPT ![w] = m]
    BY <1>1 DEF ProbeBody
  <1>3. worker[w].fd \in Files /\ worker[w].path \in Paths /\ worker[w].s1 \in Nat
    BY <1>1 DEF WorkerStates, WorkerOK
  <1>4. u \in Units /\ u # None
    BY <1>3, ScanAssumption DEF Units, Files, Prints
  <1>5. m \in WorkerStates
    BY <1>1, <1>4 DEF WorkerStates, WorkerPcs
  <1>6. m.pc = "restat" /\ m.path = worker[w].path /\ m.fd = worker[w].fd
        /\ m.s1 = worker[w].s1 /\ m.unit = u
    BY <1>1 DEF WorkerStates
  <1>7. WorkerOK(m)
    <2> HIDE DEF m
    <2> QED
      BY <1>1, <1>3, <1>4, <1>6 DEF WorkerOK
  <1> HIDE DEF m, u
  <1> QED
    BY <1>2, <1>5, <1>7, WorkerMoves DEF ProbeBody, HonestInv, ShapeOK

\* A worker with nothing in hand describes nothing.
LEMMA IdleOK ==
  ASSUME HonestInv, NEW pc \in {"claim", "exited"}
  PROVE  [Idle EXCEPT !.pc = pc] \in WorkerStates /\ WorkerOK([Idle EXCEPT !.pc = pc])
  <1> DEFINE m == [Idle EXCEPT !.pc = pc]
  <1>1. m \in WorkerStates /\ m = [Idle EXCEPT !.pc = m.pc]
        /\ m.pc = pc /\ m.s1 = 0 /\ m.fd = None
    BY DEF WorkerStates, WorkerPcs, Idle
  <1>2. clock \in Nat
    BY DEF HonestInv, ShapeOK
  <1> HIDE DEF m
  <1>3. WorkerOK(m)
    BY <1>1, <1>2 DEF WorkerOK
  <1> QED
    BY <1>1, <1>3 DEF m

\* The same of the idle worker itself.
LEMMA IdleAgain ==
  ASSUME HonestInv
  PROVE  Idle \in WorkerStates /\ WorkerOK(Idle)
  BY DEF WorkerStates, WorkerPcs, WorkerOK, Idle, HonestInv, ShapeOK

\* Only a file whose two stamps agree goes on to the store.
LEMMA VerdictStep ==
  ASSUME HonestInv, NEW w \in Workers, Verdict(w)
  PROVE  HonestInv'
  <1>1. worker[w] \in WorkerStates /\ WorkerOK(worker[w]) /\ worker[w].pc = "restat"
    BY OfWorker DEF Verdict
  <1>2. CASE ToStart(w)
    BY <1>2, IdleAgain, WorkerMoves DEF Verdict, ToStart, HonestInv, ShapeOK
  <1>3. CASE Settled(w) /\ worker' = [worker EXCEPT ![w].pc = "acquire", ![w].fd = None]
    <2> DEFINE m == [worker[w] EXCEPT !.pc = "acquire", !.fd = None]
    <2>1. worker' = [worker EXCEPT ![w] = m]
      BY <1>1, <1>3 DEF HonestInv, ShapeOK
    <2>2. m \in WorkerStates
      BY <1>1 DEF WorkerStates, WorkerPcs
    <2>3. m.pc = "acquire" /\ m.path = worker[w].path /\ m.fd = None
          /\ m.s1 = worker[w].s1 /\ m.unit = worker[w].unit
      BY <1>1 DEF WorkerStates
    <2>4. worker[w].fd \in Files /\ worker[w].unit \in Units
      BY <1>1 DEF WorkerStates, WorkerOK
    <2>5. Honest(worker[w].unit)
      BY <1>1, <1>3, <2>4 DEF WorkerOK, Settled, Honest
    <2>6. WorkerOK(m)
      <3> HIDE DEF m
      <3> QED
        BY <1>1, <2>3, <2>5 DEF WorkerOK
    <2> HIDE DEF m
    <2> QED
      BY <2>1, <2>2, <2>6, WorkerMoves DEF Verdict, HonestInv, ShapeOK
  <1> QED
    BY <1>1, <1>2, <1>3 DEF Verdict

\* A worker whose unit goes on with another checksum, or as it is.
LEMMA UnitMovesOn ==
  ASSUME HonestInv, NEW w \in Workers, worker[w].pc \in {"acquire", "hash"},
         NEW pc \in {"hash", "send"}, NEW u \in Units,
         u.path = worker[w].unit.path, u.stamp = worker[w].unit.stamp,
         u.content = worker[w].unit.content,
         worker' = [worker EXCEPT ![w] = [@ EXCEPT !.pc = pc, !.unit = u]],
         UNCHANGED <<opts, disk, clock, rows, files, phase, cursor, chan, rx, batch, txn, todo,
                     history>>,
         budget' \in [in_flight : Nat, closed : BOOLEAN]
  PROVE  HonestInv'
  <1> DEFINE m == [worker[w] EXCEPT !.pc = pc, !.unit = u]
  <1>1. worker[w] \in WorkerStates /\ WorkerOK(worker[w])
    BY OfWorker
  <1>2. worker' = [worker EXCEPT ![w] = m]
    OBVIOUS
  <1>3. m \in WorkerStates
    BY <1>1 DEF WorkerStates, WorkerPcs
  <1>4. m.pc = pc /\ m.path = worker[w].path /\ m.fd = worker[w].fd
        /\ m.s1 = worker[w].s1 /\ m.unit = u
    BY <1>1 DEF WorkerStates
  <1>5. WorkerOK(m)
    <2> HIDE DEF m
    <2> QED
      BY <1>1, <1>4, ScanAssumption DEF WorkerOK, Honest
  <1> HIDE DEF m
  <1> QED
    BY <1>2, <1>3, <1>5, WorkerMoves

\* The fingerprint is of the bytes that were probed.
LEMMA AcquireStep ==
  ASSUME HonestInv, NEW w \in Workers, Acquire(w)
  PROVE  HonestInv'
  <1>1. worker[w] \in WorkerStates /\ WorkerOK(worker[w]) /\ worker[w].pc = "acquire"
    BY OfWorker DEF Acquire
  <1>2. worker[w].unit \in Units
    BY <1>1 DEF WorkerStates, WorkerOK
  <1> DEFINE v == worker[w].unit
             fp == IF opts.tier = "None" THEN None ELSE fingerprint_of(v.content)
             u == [v EXCEPT !.fingerprint = fp]
             pc == IF opts.tier = "Full" THEN "hash" ELSE "send"
  <1>3. u \in Units /\ u.path = v.path /\ u.stamp = v.stamp /\ u.content = v.content
    BY <1>2 DEF Units, Prints, fingerprint_of
  <1>4. pc \in {"hash", "send"}
    OBVIOUS
  <1>5. worker' = [worker EXCEPT ![w] = [@ EXCEPT !.pc = pc, !.unit = u]]
    BY <1>1 DEF Acquire, HonestInv, ShapeOK, WorkerStates
  <1>6. payload_weight(v) \in Nat
    BY <1>2, ScanAssumption DEF payload_weight, Units
  <1>7. budget' \in [in_flight : Nat, closed : BOOLEAN]
    BY <1>6 DEF Acquire, HonestInv, ShapeOK
  <1>8. UNCHANGED <<opts, disk, clock, rows, files, phase, cursor, chan, rx, batch, txn, todo,
                    history>>
    BY DEF Acquire
  <1> HIDE DEF pc, u
  <1> QED
    BY <1>1, <1>3, <1>4, <1>5, <1>7, <1>8, UnitMovesOn

\* The full hash changes neither the stamp nor the content of a unit.
LEMMA FullFileHashStep ==
  ASSUME HonestInv, NEW w \in Workers, FullFileHash(w)
  PROVE  HonestInv'
  <1>1. worker[w] \in WorkerStates /\ WorkerOK(worker[w]) /\ worker[w].pc = "hash"
    BY OfWorker DEF FullFileHash
  <1>2. worker[w].unit \in Units /\ worker[w].path \in Paths
    BY <1>1 DEF WorkerStates, WorkerOK
  <1> DEFINE v == worker[w].unit
             u == [v EXCEPT !.content_hash = full_file_hash(worker[w].path)]
  <1>3. u \in Units /\ u.path = v.path /\ u.stamp = v.stamp /\ u.content = v.content
    BY <1>2 DEF Units, Files, full_file_hash, HonestInv, ShapeOK
  <1>4. worker' = [worker EXCEPT ![w] = [@ EXCEPT !.pc = "send", !.unit = u]]
    BY <1>1 DEF FullFileHash, HonestInv, ShapeOK, WorkerStates
  <1>5. UNCHANGED <<opts, disk, clock, rows, files, phase, cursor, chan, rx, batch, txn, todo,
                    history, budget>>
    BY DEF FullFileHash
  <1>6. budget' \in [in_flight : Nat, closed : BOOLEAN]
    BY <1>5 DEF HonestInv, ShapeOK
  <1> HIDE DEF u
  <1> QED
    BY <1>1, <1>3, <1>4, <1>5, <1>6, UnitMovesOn

\* release never goes below zero.
LEMMA ReleaseType ==
  ASSUME HonestInv, NEW n \in Nat
  PROVE  release(n) \in [in_flight : Nat, closed : BOOLEAN]
  <1>1. budget \in [in_flight : Nat, closed : BOOLEAN]
    BY DEF HonestInv, ShapeOK
  <1> DEFINE k == IF n > budget.in_flight THEN 0 ELSE budget.in_flight - n
  <1>2. k \in Nat
    BY <1>1
  <1>3. release(n) = [budget EXCEPT !.in_flight = k]
    BY DEF release
  <1> HIDE DEF k
  <1> QED
    BY <1>1, <1>2, <1>3

\* A unit goes into the channel as it is.
LEMMA SendStep ==
  ASSUME HonestInv, NEW w \in Workers, Send(w)
  PROVE  HonestInv'
  <1>1. worker[w] \in WorkerStates /\ WorkerOK(worker[w]) /\ worker[w].pc = "send"
    BY OfWorker DEF Send
  <1>2. worker[w].unit \in Units /\ Honest(worker[w].unit)
    BY <1>1 DEF WorkerStates, WorkerOK
  <1>3. CASE chan' = Append(chan, worker[w].unit) /\ ToStart(w) /\ UNCHANGED budget
    <2>1. chan' \in Seq(Units) /\ \A i \in 1..Len(chan') : Honest(chan'[i])
      BY <1>2, <1>3 DEF HonestInv, ShapeOK, HonestOK
    <2> QED
      BY <1>3, <2>1, IdleAgain, WorkerFrame DEF Send, ToStart, HonestInv, ShapeOK
  <1>4. CASE /\ budget' = release(payload_weight(worker[w].unit)) /\ UNCHANGED chan
             /\ worker' = [worker EXCEPT ![w] = [Idle EXCEPT !.pc = "exited"]]
    <2>1. payload_weight(worker[w].unit) \in Nat
      BY <1>2, ScanAssumption DEF payload_weight, Units
    <2>2. budget' \in [in_flight : Nat, closed : BOOLEAN]
      BY <1>4, <2>1, ReleaseType
    <2>3. /\ [Idle EXCEPT !.pc = "exited"] \in WorkerStates
          /\ WorkerOK([Idle EXCEPT !.pc = "exited"])
      BY IdleOK
    <2> QED
      BY <1>4, <2>2, <2>3, WorkerMoves DEF Send
  <1> QED
    BY <1>3, <1>4 DEF Send

\* No step of a worker makes a row dishonest.
LEMMA WorkerHonest ==
  ASSUME HonestInv, NEW w \in Workers, WorkerStep(w)
  PROVE  HonestInv'
  BY ClaimStep, ProbeBodyStep, VerdictStep, AcquireStep, FullFileHashStep, SendStep DEF WorkerStep

\* The writer takes the oldest unit of the channel.
LEMMA TakeStep ==
  ASSUME HonestInv, NEW full \in Phases, Take(full),
         UNCHANGED <<opts, disk, clock, rows, files, cursor, worker, rx, txn, budget, todo, history>>
  PROVE  HonestInv'
  <1>1. /\ chan \in Seq(Units) /\ batch \in Seq(Units) /\ chan # <<>>
        /\ \A i \in 1..Len(chan) : Honest(chan[i])
        /\ \A i \in 1..Len(batch) : Honest(batch[i])
        /\ batch' = Append(batch, Head(chan)) /\ chan' = Tail(chan)
    BY DEF Take, HonestInv, ShapeOK, HonestOK
  <1>2. Head(chan) \in Units /\ Honest(Head(chan))
    BY <1>1
  <1>3. /\ chan' \in Seq(Units) /\ batch' \in Seq(Units)
        /\ \A i \in 1..Len(chan') : Honest(chan'[i])
        /\ \A i \in 1..Len(batch') : Honest(batch'[i])
    BY <1>1, <1>2
  <1>4. phase' \in Phases
    BY DEF Take, Phases
  <1> QED
    BY <1>3, <1>4
    DEF HonestInv, ShapeOK, HonestOK, WorkerOK, Honest, HonestRows, RowsOK, Keyed

\* The caller takes a unit without waiting for one.
LEMMA TryRecvStep == ASSUME HonestInv, TryRecv PROVE HonestInv'
  <1>1. CASE Take("flush_recv")
    BY <1>1, TakeStep DEF TryRecv, Phases
  <1>2. CASE chan = <<>> /\ phase' = (IF Exited THEN "flush_final" ELSE "flush_block")
             /\ UNCHANGED <<batch, chan>>
    <2>1. phase' \in Phases
      BY <1>2 DEF Phases
    <2> QED
      BY <1>2, <2>1, QuietStep DEF TryRecv, HonestInv, ShapeOK
  <1> QED
    BY <1>1, <1>2 DEF TryRecv

\* The caller takes a unit it waited for.
LEMMA RecvStep == ASSUME HonestInv, Recv PROVE HonestInv'
  <1>1. CASE Take("flush_recv")
    BY <1>1, TakeStep DEF Recv, Phases
  <1>2. CASE chan = <<>> /\ phase' = "flush_final" /\ UNCHANGED <<batch, chan>>
    <2>1. phase' \in Phases
      BY <1>2 DEF Phases
    <2> QED
      BY <1>2, <2>1, QuietStep DEF Recv, HonestInv, ShapeOK
  <1> QED
    BY <1>1, <1>2 DEF Recv

\* The walk touches no row.
LEMMA WalkStep == ASSUME HonestInv, Walk PROVE HonestInv'
  <1>1. opts.follow_symlinks \in BOOLEAN
    BY DEF HonestInv, ShapeOK, Options
  <1>2. {p \in Paths : disk[p] # None} \in SUBSET Paths
    OBVIOUS
  <1>3. files' \in Seq({p \in Paths : disk[p] # None})
    BY <1>1, <1>2, CollectAssumption DEF Walk
  <1>4. files' \in Seq(Paths)
    BY <1>3, SeqMonotonic
  <1> QED
    BY <1>4, QuietStep DEF Walk, HonestInv, ShapeOK, Phases

\* Nth numbers the members of a finite set of numbers from 1 on.
LEMMA NthProps ==
  ASSUME NEW S \in SUBSET Nat, IsFiniteSet(S)
  PROVE  /\ Cardinality(S) \in Nat
         /\ \A n \in 1..Cardinality(S) :
              Nth(S, n) \in S /\ Cardinality({j \in S : j <= Nth(S, n)}) = n
         /\ \A m, n \in 1..Cardinality(S) : Nth(S, m) = Nth(S, n) => m = n
         /\ \A i \in S : \E n \in 1..Cardinality(S) : Nth(S, n) = i
  <1> DEFINE N == Cardinality(S)
             Upto(i) == {k \in S : k <= i}
             rank == [i \in S |-> Cardinality(Upto(i))]
  <1>1. N \in Nat
    BY FS_CardinalityType
  <1>2. \A i \in S : IsFiniteSet(Upto(i)) /\ rank[i] \in 1..N
    <2> TAKE i \in S
    <2>1. Upto(i) \in SUBSET S /\ Upto(i) # {}
      OBVIOUS
    <2>2. IsFiniteSet(Upto(i)) /\ Cardinality(Upto(i)) <= N
      BY <2>1, FS_Subset
    <2>3. Cardinality(Upto(i)) \in Nat /\ Cardinality(Upto(i)) # 0
      BY <2>1, <2>2, FS_CardinalityType, FS_EmptySet
    <2> QED
      BY <1>1, <2>2, <2>3
  <1>3. \A i, j \in S : rank[i] = rank[j] => i = j
    <2>1. ASSUME NEW i \in S, NEW j \in S, i < j PROVE rank[i] # rank[j]
      <3>1. Upto(i) \in SUBSET Upto(j)
        <4>1. ASSUME NEW k \in S, k <= i PROVE k <= j
          <5>1. i \in Nat /\ j \in Nat /\ k \in Nat
            OBVIOUS
          <5> QED
            BY <2>1, <4>1, <5>1
        <4> QED
          BY <4>1
      <3>2. j \in Upto(j) /\ j \notin Upto(i)
        BY <2>1
      <3> HIDE DEF Upto
      <3>3. Cardinality(Upto(i)) # Cardinality(Upto(j))
        BY <1>2, <3>1, <3>2, FS_Subset
      <3> QED
        BY <3>3
    <2> QED
      BY <2>1
  <1>4. rank \in Injection(S, 1..N)
    BY <1>2, <1>3 DEF Injection, IsInjective
  <1>5. IsFiniteSet(1..N) /\ Cardinality(1..N) = N
    BY <1>1, FS_Interval
  <1>6. rank \in Surjection(S, 1..N)
    BY <1>4, <1>5, FS_Injection
  <1>7. \A n \in 1..N : \E i \in S : rank[i] = n
    BY <1>6 DEF Surjection
  <1>8. \A n \in 1..N : Nth(S, n) \in S /\ rank[Nth(S, n)] = n
    <2> TAKE n \in 1..N
    <2>1. \E i \in S : Cardinality({j \in S : j <= i}) = n
      BY <1>7
    <2> QED
      BY <2>1 DEF Nth
  <1>9. \A i \in S : \E n \in 1..N : Nth(S, n) = i
    <2> HIDE DEF rank, N
    <2> QED
      BY <1>2, <1>3, <1>8
  <1>10. \A m, n \in 1..N : Nth(S, m) = Nth(S, n) => m = n
    <2> HIDE DEF rank, N
    <2> QED
      BY <1>8
  <1> QED
    BY <1>1, <1>8, <1>9, <1>10

\* Keep is a sequence of the elements it keeps, once for each index.
LEMMA KeepProps ==
  ASSUME NEW T, NEW s \in Seq(T), NEW S \in SUBSET (1..Len(s))
  PROVE  /\ IsFiniteSet(S) /\ Keep(s, S) \in Seq(T) /\ Len(Keep(s, S)) = Cardinality(S)
         /\ \A n \in 1..Len(Keep(s, S)) : Nth(S, n) \in S /\ Keep(s, S)[n] = s[Nth(S, n)]
         /\ \A i \in S : \E n \in 1..Len(Keep(s, S)) : Nth(S, n) = i /\ Keep(s, S)[n] = s[i]
         /\ \A m, n \in 1..Len(Keep(s, S)) : Nth(S, m) = Nth(S, n) => m = n
  <1>0. Len(s) \in Nat
    OBVIOUS
  <1>a. IsFiniteSet(1..Len(s)) /\ (1..Len(s)) \subseteq Nat
    BY <1>0, FS_Interval
  <1>1. S \in SUBSET Nat /\ IsFiniteSet(S)
    BY <1>a, FS_Subset
  <1>2. Keep(s, S) = [n \in 1..Cardinality(S) |-> s[Nth(S, n)]]
    BY DEF Keep
  <1>3. /\ Cardinality(S) \in Nat
        /\ \A n \in 1..Cardinality(S) : Nth(S, n) \in S
        /\ \A m, n \in 1..Cardinality(S) : Nth(S, m) = Nth(S, n) => m = n
        /\ \A i \in S : \E n \in 1..Cardinality(S) : Nth(S, n) = i
    BY <1>1, NthProps
  <1>4. \A i \in S : s[i] \in T
    OBVIOUS
  <1>5. Keep(s, S) \in Seq(T) /\ Len(Keep(s, S)) = Cardinality(S)
    <2> DEFINE n == Cardinality(S)
    <2>1. Keep(s, S) \in [1..n -> T]
      BY <1>2, <1>3, <1>4
    <2>2. n \in Nat
      BY <1>3
    <2> HIDE DEF n
    <2>3. Keep(s, S) \in Seq(T) /\ Len(Keep(s, S)) = n
      BY <2>1, <2>2
    <2> QED
      BY <2>3 DEF n
  <1> QED
    BY <1>1, <1>2, <1>3, <1>5

\* Choosing the files of a run touches no row.
LEMMA SelectStep == ASSUME HonestInv, Select PROVE HonestInv'
  <1>1. files \in Seq(Paths)
    BY DEF HonestInv, ShapeOK
  <1>2. files' \in Seq(Paths)
    BY <1>1, KeepProps DEF Select
  <1> QED
    BY <1>2, QuietStep DEF Select, HonestInv, ShapeOK, Phases

\* A flush of nothing touches no row.
LEMMA FlushNothingStep == ASSUME HonestInv, FlushNothing PROVE HonestInv'
  <1>1. phase' \in Phases
    BY DEF FlushNothing, Flushing, AfterFlush, Phases
  <1> QED
    BY <1>1, QuietStep DEF FlushNothing, HonestInv, ShapeOK

\* The transaction a flush works in has rows with ids and paths of their
\* own.
LEMMA TransactionType ==
  ASSUME HonestInv
  PROVE  /\ Transaction \in Transactions /\ RowsOK(Transaction.rows)
         /\ HonestRows(Transaction.rows)
  <1>1. rows \in SUBSET Rows
    BY DEF HonestInv, ShapeOK, RowsOK
  <1>2. <<>> \in Seq(Paths)
    OBVIOUS
  <1> QED
    BY <1>1, <1>2 DEF Transaction, Transactions, HonestInv, ShapeOK, HonestOK

\* What a staged or rejected unit leaves of the transaction.
LEMMA FlushItemTxn ==
  ASSUME HonestInv, FlushItem
  PROVE  /\ txn' \in Transactions /\ txn' # None /\ RowsOK(txn'.rows) /\ HonestRows(txn'.rows)
         /\ Head(batch) \in Units /\ batch' \in Seq(Units)
         /\ \A i \in 1..Len(batch') : Honest(batch'[i])
  <1> DEFINE u == Head(batch)
             t == [Transaction EXCEPT !.weight = @ + released(u)]
  <1>1. batch \in Seq(Units) /\ batch # <<>> /\ \A i \in 1..Len(batch) : Honest(batch[i])
    BY DEF FlushItem, HonestInv, ShapeOK, HonestOK
  <1>2. /\ u \in Units /\ Honest(u) /\ batch' \in Seq(Units)
        /\ \A i \in 1..Len(batch') : Honest(batch'[i])
    BY <1>1 DEF FlushItem
  <1>3. released(u) \in Nat
    BY <1>2, ScanAssumption DEF released, payload_weight, Units
  <1>4. t \in Transactions /\ t.rows = Transaction.rows /\ t.done = Transaction.done
    BY <1>3, TransactionType DEF Transactions
  <1>5. RowsOK(t.rows) /\ HonestRows(t.rows)
    BY <1>4, TransactionType
  <1>6. txn' \in Transactions /\ RowsOK(txn'.rows) /\ HonestRows(txn'.rows)
    <2>1. CASE txn' = t
      BY <1>4, <1>5, <2>1
    <2>2. CASE txn' = [t EXCEPT !.rows = ingest_unit(t.rows, u), !.done = Append(@, u.path)]
      <3>1. RowsOK(ingest_unit(t.rows, u)) /\ HonestRows(ingest_unit(t.rows, u))
        BY <1>2, <1>5, IngestKeeps DEF HonestInv
      <3>2. ingest_unit(t.rows, u) \in SUBSET Rows
        BY <3>1 DEF RowsOK
      <3>3. Append(t.done, u.path) \in Seq(Paths)
        BY SMTT(30), <1>2, <1>4 DEF Transactions, Units
      <3>4. txn' \in Transactions /\ txn'.rows = ingest_unit(t.rows, u)
        <4> HIDE DEF t, u
        <4> QED
          BY <1>4, <2>2, <3>2, <3>3 DEF Transactions
      <3> QED
        BY <3>1, <3>4
    <2> QED
      BY <2>1, <2>2 DEF FlushItem
  <1> QED
    BY <1>2, <1>6, ScanAssumption

\* An item of a batch brings an honest row, or none.
LEMMA FlushItemStep == ASSUME HonestInv, FlushItem PROVE HonestInv'
  <1>1. UNCHANGED <<opts, disk, clock, rows, files, phase, cursor, worker, chan, rx, budget, todo,
                    history>>
    BY DEF FlushItem
  <1> QED
    BY <1>1, FlushItemTxn
    DEF HonestInv, ShapeOK, HonestOK, WorkerOK, Honest, HonestRows, RowsOK, Keyed

\* A commit publishes what its transaction has.
LEMMA FlushCommitStep == ASSUME HonestInv, FlushCommit PROVE HonestInv'
  <1>1. txn # None /\ txn \in Transactions /\ RowsOK(txn.rows) /\ HonestRows(txn.rows)
    BY DEF FlushCommit, HonestInv, ShapeOK, HonestOK
  <1>2. txn.weight \in Nat
    BY <1>1 DEF Transactions
  <1>3. budget' \in [in_flight : Nat, closed : BOOLEAN]
    BY <1>2, ReleaseType DEF FlushCommit
  <1>4. phase' \in Phases
    BY DEF FlushCommit, Flushing, AfterFlush, Phases
  <1>5. /\ rows' = txn.rows /\ txn' = None
        /\ UNCHANGED <<opts, disk, clock, files, cursor, worker, chan, rx, batch, todo, history>>
    BY DEF FlushCommit
  <1> QED
    BY <1>1, <1>3, <1>4, <1>5
    DEF HonestInv, ShapeOK, HonestOK, WorkerOK, Honest, HonestRows, RowsOK, Keyed

\* A flush that fails rolls its transaction back.
LEMMA FlushFailsStep == ASSUME HonestInv, FlushFails PROVE HonestInv'
  <1>1. phase' \in Phases /\ batch' = <<>> /\ txn' = None
        /\ UNCHANGED <<opts, disk, clock, rows, files, cursor, worker, chan, rx, budget, todo,
                       history>>
    BY DEF FlushFails, Phases
  <1>2. batch' \in Seq(Units) /\ Len(batch') = 0
    BY <1>1
  <1> QED
    BY <1>1, <1>2
    DEF HonestInv, ShapeOK, HonestOK, WorkerOK, Honest, HonestRows, RowsOK, Keyed

\* Teardown drops units and touches no row.
LEMMA TeardownStep == ASSUME HonestInv, Teardown PROVE HonestInv'
  <1>1. /\ phase' \in Phases /\ rx' \in BOOLEAN /\ chan' = <<>>
        /\ budget' \in [in_flight : Nat, closed : BOOLEAN]
        /\ UNCHANGED <<opts, disk, clock, rows, files, cursor, worker, batch, txn, todo, history>>
    BY DEF Teardown, Phases, close, HonestInv, ShapeOK
  <1>2. chan' \in Seq(Units) /\ Len(chan') = 0
    BY <1>1
  <1> QED
    BY <1>1, <1>2
    DEF HonestInv, ShapeOK, HonestOK, WorkerOK, Honest, HonestRows, RowsOK, Keyed

\* Joining the workers touches no row.
LEMMA JoinStep == ASSUME HonestInv, Join PROVE HonestInv'
  <1>1. phase' \in Phases
    BY DEF Join, Phases
  <1>2. todo' \subseteq Rows
    BY DEF Join, HonestInv, ShapeOK, RowsOK
  <1> QED
    BY <1>1, <1>2, QuietStep DEF Join, HonestInv, ShapeOK

\* Looking for a row's file touches no row.
LEMMA PruneStatStep == ASSUME HonestInv, PruneStat PROVE HonestInv'
  <1>1. phase' \in Phases /\ todo' \subseteq Rows
    BY DEF PruneStat, Phases, HonestInv, ShapeOK
  <1> QED
    BY <1>1, QuietStep DEF PruneStat, HonestInv, ShapeOK

\* Deleting a row leaves the others as they are.
LEMMA PruneDeleteStep == ASSUME HonestInv, PruneDelete PROVE HonestInv'
  <1>1. phase' \in Phases /\ todo' \subseteq Rows
    BY DEF PruneDelete, Phases, HonestInv, ShapeOK
  <1>2. rows' \in SUBSET rows
    BY DEF PruneDelete
  <1>3. RowsOK(rows') /\ HonestRows(rows')
    BY <1>2, FS_Subset DEF HonestInv, ShapeOK, HonestOK, RowsOK, Keyed, HonestRows
  <1>4. UNCHANGED <<opts, disk, clock, files, cursor, worker, chan, rx, batch, txn, budget, history>>
    BY DEF PruneDelete
  <1> QED
    BY <1>1, <1>3, <1>4
    DEF HonestInv, ShapeOK, HonestOK, WorkerOK, Honest, HonestRows, RowsOK, Keyed

\* No step of the calling thread makes a row dishonest.
LEMMA CallerHonest == ASSUME HonestInv, CallerStep PROVE HonestInv'
  BY WalkStep, SelectStep, TryRecvStep, RecvStep, FlushNothingStep, FlushItemStep, FlushCommitStep,
     FlushFailsStep, TeardownStep, JoinStep, PruneStatStep, PruneDeleteStep DEF CallerStep

\* A change renews the file's stamp for whoever has it open, so that no
\* first stamp is equal to it.
LEMMA ChangeStep ==
  ASSUME HonestInv, NEW p \in Paths, NEW q, NEW c \in Contents, Change(p, q, c)
  PROVE  HonestInv'
  <1> DEFINE f == [content |-> c, stamp |-> clock + 1]
  <1>1. clock \in Nat /\ clock' = clock + 1 /\ history' = history \cup {<<f.stamp, c>>}
        /\ disk' = [x \in Paths |-> IF x = q THEN f ELSE IF x = p THEN None ELSE disk[x]]
        /\ worker' = [v \in Workers |->
              IF worker[v].fd # None /\ worker[v].fd = disk[p]
              THEN [worker[v] EXCEPT !.fd = f] ELSE worker[v]]
        /\ UNCHANGED <<opts, rows, files, phase, cursor, chan, rx, batch, txn, budget, todo>>
    BY DEF Change, HonestInv, ShapeOK
  <1>2. f \in Files /\ f # None /\ f.stamp = clock + 1 /\ f.content = c
    BY <1>1, ScanAssumption DEF Files
  <1> HIDE DEF f
  <1>3. disk' \in [Paths -> Files \cup {None}]
    BY <1>1, <1>2 DEF HonestInv, ShapeOK
  <1>4. \A x \in Paths : disk'[x] # None =>
          disk'[x].stamp \in 1..clock' /\ <<disk'[x].stamp, disk'[x].content>> \in history'
    BY <1>1, <1>2 DEF HonestInv, ShapeOK, HonestOK, Honest
  <1>5. ASSUME NEW v \in Workers
        PROVE  worker'[v] \in WorkerStates /\ WorkerOK(worker[v])'
    <2>1. worker[v] \in WorkerStates /\ WorkerOK(worker[v])
      BY OfWorker
    <2>2. CASE ~(worker[v].fd # None /\ worker[v].fd = disk[p])
      <3>1. worker'[v] = worker[v]
        BY <1>1, <2>2
      <3>2. worker[v].s1 \in Nat /\ (worker[v].fd # None => worker[v].fd.stamp \in Nat)
        BY <2>1 DEF WorkerStates, Files
      <3>3. /\ worker[v].s1 <= clock'
            /\ worker[v].fd # None =>
                 /\ worker[v].fd.stamp <= clock'
                 /\ <<worker[v].fd.stamp, worker[v].fd.content>> \in history'
        BY <1>1, <2>1, <3>2 DEF WorkerOK, Honest
      <3>4. worker[v].pc \in {"acquire", "hash", "send"} =>
              <<worker[v].unit.stamp, worker[v].unit.content>> \in history'
        BY <1>1, <2>1 DEF WorkerOK, Honest
      <3> QED
        BY <2>1, <3>1, <3>3, <3>4 DEF WorkerOK, Honest
    <2>3. CASE worker[v].fd # None /\ worker[v].fd = disk[p]
      <3> DEFINE m == [worker[v] EXCEPT !.fd = f]
      <3>1. worker'[v] = m
        BY <1>1, <2>3
      <3>2. m \in WorkerStates /\ m.pc = worker[v].pc /\ m.path = worker[v].path /\ m.fd = f
            /\ m.s1 = worker[v].s1 /\ m.unit = worker[v].unit
        BY <1>2, <2>1 DEF WorkerStates
      <3>3. worker[v].pc \notin {"claim", "exited"}
        BY <2>1, <2>3 DEF WorkerOK, Idle
      <3>4. worker[v].s1 \in Nat /\ worker[v].s1 <= clock
        BY <2>1 DEF WorkerStates, WorkerOK
      <3> HIDE DEF m
      <3> QED
        BY <1>1, <1>2, <2>1, <3>1, <3>2, <3>3, <3>4 DEF WorkerOK, Honest
    <2> QED
      BY <2>2, <2>3
  <1>6. worker' \in [Workers -> WorkerStates]
    BY <1>1, <1>5
  <1>7. ShapeOK'
    BY <1>1, <1>3, <1>6 DEF HonestInv, ShapeOK, RowsOK, Keyed
  <1> QED
    BY <1>1, <1>4, <1>5, <1>7 DEF HonestInv, HonestOK, Honest, HonestRows

\* Curating a row keeps its stamp and content.
LEMMA CurateStep == ASSUME HonestInv, Curate PROVE HonestInv'
  <1>1. PICK r \in rows : rows' = (rows \ {r}) \cup {[r EXCEPT !.curated = TRUE]}
    BY DEF Curate
  <1> DEFINE n == [r EXCEPT !.curated = TRUE]
  <1>2. r \in Rows
    BY DEF HonestInv, ShapeOK, RowsOK
  <1>3. n \in Rows /\ n.id = r.id /\ n.path = r.path /\ n.stamp = r.stamp /\ n.content = r.content
    BY <1>2 DEF Rows
  <1> HIDE DEF n
  <1>4. \A q \in rows : q.path = n.path => q = r
    BY <1>3 DEF HonestInv, ShapeOK, RowsOK, Keyed
  <1>5. RowsOK((rows \ {r}) \cup {n})
    BY <1>3, <1>4, ReplaceRow DEF HonestInv, ShapeOK
  <1>6. HonestRows((rows \ {r}) \cup {n})
    BY <1>3 DEF HonestInv, HonestOK, HonestRows, Honest
  <1>7. rows' = (rows \ {r}) \cup {n}
    BY <1>1 DEF n
  <1>8. UNCHANGED <<opts, disk, clock, files, phase, cursor, worker, chan, rx, batch, txn, budget,
                    todo, history>>
    BY DEF Curate
  <1> QED
    BY <1>5, <1>6, <1>7, <1>8
    DEF HonestInv, ShapeOK, HonestOK, WorkerOK, Honest, HonestRows, RowsOK, Keyed

\* Nothing that happens outside a run makes a row dishonest.
LEMMA WorldHonest == ASSUME HonestInv, World PROVE HonestInv'
  <1>1. ASSUME NEW p \in Paths, Rewrite(p) PROVE HonestInv'
    BY <1>1, ChangeStep DEF Rewrite
  <1>2. ASSUME NEW p \in Paths, disk[p] # None PROVE disk[p].content \in Contents
    BY <1>2 DEF HonestInv, ShapeOK, Files
  <1>3. ASSUME NEW p \in Paths, Unlink(p) PROVE HonestInv'
    BY <1>2, <1>3, ChangeStep DEF Unlink, Change
  <1>4. ASSUME NEW p \in Paths, NEW q \in Paths, Move(p, q) PROVE HonestInv'
    BY <1>2, <1>4, ChangeStep DEF Move, Change
  <1> QED
    BY <1>1, <1>3, <1>4, CurateStep DEF World

\* Every step of the run, and of the world around it, keeps HonestInv.
LEMMA HonestStep == HonestInv /\ [Next]_vars => HonestInv'
  <1> SUFFICES ASSUME HonestInv, [Next]_vars PROVE HonestInv'
    OBVIOUS
  <1>1. CASE UNCHANGED vars
    BY <1>1, QuietStep DEF vars, HonestInv, ShapeOK
  <1> QED
    BY <1>1, CallerHonest, WorkerHonest, WorldHonest DEF Next

\* What a row says about a file was parsed from the very bytes its stamp
\* stands for, whoever rewrote, moved or replaced the file during the probe:
\* the two stamps probe_file compares enclose the parse.
THEOREM RowsStayHonest == Spec => []RowsAreHonest
  <1>1. HonestInv => RowsAreHonest
    BY DEF HonestInv, HonestOK, HonestRows, Honest, RowsAreHonest
  <1> QED
    BY <1>1, InitHonest, HonestStep, PTL DEF Spec

-----------------------------------------------------------------------------
(***************************************************************************)
(* The pipeline: where the calling thread and the workers can be, and      *)
(* where the files are that they have not settled.                         *)
(***************************************************************************)

\* The receiver and the channel by the phase of the calling thread; a worker
\* exits for good, and not before the last file is claimed unless the
\* receiver is gone.
FlowOK ==
    /\ txn # None => Flushing
    /\ phase \in {"walk", "select"} =>
         (\A w \in Workers : worker[w] = Idle) /\ chan = <<>> /\ batch = <<>> /\ cursor = 1
    /\ phase = "recv" => Len(batch) < BATCH_FILES
    /\ phase \in {"block", "fatal", "join", "error", "final", "prune", "delete", "prune_error", "ok"}
         => batch = <<>>
    /\ phase \in {"flush_final", "final", "prune", "delete", "prune_error", "ok", "error"}
         => Exited /\ chan = <<>>
    /\ phase \in {"prune", "delete", "prune_error"} => opts.mode = "revalidate"
    /\ phase = "join" => chan = <<>>
    /\ rx <=> phase \notin {"join", "error"}
    /\ rx => \A w \in Workers : worker[w].pc = "exited" => cursor > Len(files)
    /\ cursor <= Len(files) + 1 + Cardinality({w \in Workers : worker[w].pc = "exited"})
    /\ Len(chan) <= ChannelCap /\ Len(batch) <= BATCH_FILES

\* The places of a file that is not settled.
Unclaimed(p) == \E i \in cursor..Len(files) : files[i] = p
Probed(p) == \E w \in Workers : worker[w].pc \notin {"claim", "exited"} /\ worker[w].path = p
InSeq(s, p) == \E i \in 1..Len(s) : s[i].path = p
Staged(p) == txn # None /\ \E i \in 1..Len(txn.done) : txn.done[i] = p

Distinct(s) == \A i, j \in 1..Len(s) : s[i] = s[j] => i = j
DistinctPaths(s) == \A i, j \in 1..Len(s) : s[i].path = s[j].path => i = j

\* Outside the walk, a file is in one place at most, and once there.
OnePlace ==
    /\ Distinct(files) /\ DistinctPaths(chan) /\ DistinctPaths(batch)
    /\ txn # None => Distinct(txn.done)
    /\ \A v, w \in Workers :
         worker[v].pc \notin {"claim", "exited"} /\ worker[w].pc \notin {"claim", "exited"}
         /\ worker[v].path = worker[w].path => v = w
    /\ phase \notin {"walk", "select"} => \A p \in Paths :
         /\ ~(Unclaimed(p) /\ (Probed(p) \/ InSeq(chan, p) \/ InSeq(batch, p) \/ Staged(p)))
         /\ ~(Probed(p) /\ (InSeq(chan, p) \/ InSeq(batch, p) \/ Staged(p)))
         /\ ~(InSeq(chan, p) /\ (InSeq(batch, p) \/ Staged(p)))
         /\ ~(InSeq(batch, p) /\ Staged(p))

Verdicts == {"idle", "pending", "committed", "failed", "raced"}

Placed(p) == Unclaimed(p) \/ Probed(p) \/ InSeq(chan, p) \/ InSeq(batch, p) \/ Staged(p)

\* A file that is somewhere is pending, and until a fatal error a pending
\* file is somewhere.
PendingOK ==
    /\ result \in [Paths -> Verdicts]
    /\ phase \notin {"walk", "select"} =>
         /\ \A p \in Paths : result[p] # "idle" <=> \E i \in 1..Len(files) : files[i] = p
         /\ \A p \in Paths : Placed(p) => result[p] = "pending"
         /\ phase \notin {"fatal", "join", "error"} =>
              \A p \in Paths : result[p] = "pending" => Placed(p)
    /\ phase \in {"walk", "select"} => \A p \in Paths : result[p] = "idle"

PlaceInv == HonestInv /\ FlowOK /\ OnePlace /\ PendingOK

\* The counters partition what is settled; those of the caller lag behind.
CountOK ==
    /\ count \in [Counters -> Nat]
    /\ count["scanned"] = Settles("committed")
    /\ count["failed"] = Settles("failed") /\ count["raced"] = Settles("raced")
    /\ count["tallied"] = count["failed"] + count["skip_failed"]
    /\ count["finished"] = count["scanned"] + count["seen"]
    /\ count["seen"] <= count["failed"] + count["raced"]
    /\ phase \in {"prune", "delete", "prune_error", "ok"} =>
         count["seen"] = count["failed"] + count["raced"]

\* A scan knows of every file that was under its root all along.
SeenOK ==
    /\ \A p \in Paths : disk[p] = None => p \in gone
    /\ phase = "select" => \A p \in Root \ gone : Contains(files, p)
    /\ phase \notin {"walk", "select"} /\ opts.mode = "scan" =>
         \A p \in Root \ gone :
            \/ result[p] # "idle"
            \/ track_exists_at(rows, p) /\ (txn # None => track_exists_at(txn.rows, p))

\* What a run without --force may not touch.
Protected(r) == r.path \notin gone \/ (opts.mode = "revalidate" /\ r.path \notin Root)

Kept(r, rs) == \E q \in rs : q.id = r.id /\ q.path = r.path /\ (r.curated => q.curated)

\* The open transaction keeps what the store has.
StagedKeeps == ~opts.force /\ txn # None => \A r \in rows : Protected(r) => Kept(r, txn.rows)

\* A file that a bare scan works on has no row yet.
PendingIsNew ==
    ~opts.force /\ opts.mode = "scan" =>
        \A p \in Paths : result[p] = "pending" =>
            /\ ~track_exists_at(rows, p)
            /\ txn # None /\ track_exists_at(txn.rows, p) => Staged(p)

\* The prune pass looks at rows where they were, and deletes that of a
\* missing file.
TodoOK ==
    /\ phase \in {"prune", "delete"} => \A q \in rows, t \in todo : q.id = t.id => q.path = t.path
    /\ phase = "delete" => todo # {} /\ InScope(NextRow) /\ NextRow.path \in gone

CurationOK == StagedKeeps /\ PendingIsNew /\ TodoOK

ScanInv == PlaceInv /\ CountOK /\ SeenOK /\ CurationOK

\* At first no worker runs and the channel is empty.
LEMMA InitFlow == Init => FlowOK
  <1> SUFFICES ASSUME Init PROVE FlowOK
    OBVIOUS
  <1>1. \A w \in Workers : worker[w] = Idle /\ worker[w].pc = "claim"
    BY DEF Init, Idle
  <1>2. {w \in Workers : worker[w].pc = "exited"} = {}
    BY <1>1
  <1>3. Cardinality({w \in Workers : worker[w].pc = "exited"}) = 0
    BY <1>2, FS_EmptySet
  <1>4. Len(files) = 0 /\ Len(chan) = 0 /\ Len(batch) = 0 /\ cursor = 1
    BY DEF Init
  <1>5. txn = None /\ phase = "walk" /\ chan = <<>> /\ batch = <<>> /\ rx = TRUE
    BY DEF Init
  <1> QED
    BY <1>1, <1>3, <1>4, <1>5, ScanAssumption DEF FlowOK

\* The caller's steps leave the workers to themselves.
LEMMA CallerFlow ==
  ASSUME HonestInv, FlowOK, CallerStep
  PROVE  FlowOK'
  <1> DEFINE X == Cardinality({w \in Workers : worker[w].pc = "exited"})
  <1>0. BATCH_FILES \in Nat \ {0} /\ ChannelCap \in Nat \ {0}
    BY ScanAssumption
  <1>1. X \in Nat
    BY ScanAssumption, FS_Subset, FS_CardinalityType
  <1>2. /\ chan \in Seq(Units) /\ batch \in Seq(Units) /\ files \in Seq(Paths)
        /\ phase \in Phases
    BY DEF HonestInv, ShapeOK
  <1> USE DEF FlowOK, Exited
  <1>3. CASE Walk
    <2>1. files' \in Seq(Paths)
      BY <1>3, WalkStep DEF HonestInv, ShapeOK
    <2>2. Len(files') \in Nat
      BY <2>1
    <2>3. \A w \in Workers : worker[w].pc # "exited"
      BY <1>3 DEF Walk, Idle
    <2> QED
      BY <1>0, <1>1, <1>3, <2>2, <2>3 DEF Walk, Flushing
  <1>4. CASE Select
    <2>1. files' \in Seq(Paths)
      BY <1>4, SelectStep DEF HonestInv, ShapeOK
    <2>2. Len(files') \in Nat /\ Len(batch) = 0
      BY <1>4, <2>1 DEF Select
    <2>3. \A w \in Workers : worker[w].pc # "exited"
      BY <1>4 DEF Select, Idle
    <2> QED
      BY <1>0, <1>1, <1>4, <2>2, <2>3 DEF Select, Flushing
  <1>5. ASSUME Take("flush_recv"), txn = None, phase \in {"recv", "block"}, rx' = rx,
               UNCHANGED <<opts, files, cursor, worker, txn>>
        PROVE  FlowOK'
    <2>1. /\ Len(chan') <= ChannelCap /\ Len(batch') <= BATCH_FILES
          /\ Len(batch') = Len(batch) + 1
      BY <1>0, <1>2, <1>5 DEF Take
    <2>2. phase' \in {"recv", "flush_recv"} /\ (phase' = "recv" => Len(batch') < BATCH_FILES)
      BY <1>0, <1>2, <1>5, <2>1 DEF Take
    <2> QED
      BY <1>5, <2>1, <2>2 DEF Flushing
  <1>6. CASE TryRecv
    <2>1. txn = None
      BY <1>6 DEF TryRecv, Flushing
    <2>2. CASE Take("flush_recv")
      BY <1>5, <1>6, <2>1, <2>2 DEF TryRecv
    <2>3. CASE chan = <<>> /\ phase' = (IF Exited THEN "flush_final" ELSE "flush_block")
               /\ UNCHANGED <<batch, chan>>
      BY <1>6, <2>1, <2>3 DEF TryRecv, Flushing
    <2> QED
      BY <1>6, <2>2, <2>3 DEF TryRecv
  <1>7. CASE Recv
    <2>1. txn = None
      BY <1>7 DEF Recv, Flushing
    <2>2. CASE Take("flush_recv")
      BY <1>5, <1>7, <2>1, <2>2 DEF Recv
    <2>3. CASE chan = <<>> /\ Exited /\ phase' = "flush_final" /\ UNCHANGED <<batch, chan>>
      BY <1>7, <2>1, <2>3 DEF Recv, Flushing
    <2> QED
      BY <1>7, <2>2, <2>3 DEF Recv
  <1>8. CASE FlushNothing
    <2>1. Len(batch') = 0
      BY <1>8 DEF FlushNothing
    <2> QED
      BY <1>0, <1>8, <2>1 DEF FlushNothing, Flushing, AfterFlush
  <1>9. CASE FlushItem
    <2>1. Len(batch') <= Len(batch)
      BY <1>2, <1>9 DEF FlushItem
    <2>2. Len(batch') \in Nat /\ Len(batch) \in Nat
      BY <1>2, <1>9 DEF FlushItem
    <2> QED
      BY <1>0, <1>9, <2>1, <2>2 DEF FlushItem, Flushing
  <1>10. CASE FlushCommit
    <2>1. Len(batch') = 0
      BY <1>10 DEF FlushCommit
    <2> QED
      BY <1>0, <1>10, <2>1 DEF FlushCommit, Flushing, AfterFlush
  <1>11. CASE FlushFails
    <2>1. Len(batch') = 0
      BY <1>11 DEF FlushFails
    <2> QED
      BY <1>0, <1>11, <2>1 DEF FlushFails, Flushing
  <1>12. CASE Teardown
    <2>1. Len(chan') = 0
      BY <1>12 DEF Teardown
    <2> QED
      BY <1>0, <1>12, <2>1 DEF Teardown, Flushing
  <1>13. CASE Join
    <2>1. opts.mode = "revalidate" \/ phase' \in {"ok", "error"}
      BY <1>13 DEF Join
    <2> QED
      BY <1>13, <2>1 DEF Join, Flushing
  <1>14. CASE PruneStat
    BY <1>14 DEF PruneStat, Flushing
  <1>15. CASE PruneDelete
    BY <1>15 DEF PruneDelete, Flushing
  <1> QED
    BY <1>3, <1>4, <1>6, <1>7, <1>8, <1>9, <1>10, <1>11, <1>12, <1>13, <1>14, <1>15 DEF CallerStep

\* A worker steps only while the pipeline runs, and does not come back once
\* it has exited.
LEMMA WorkerFlow ==
  ASSUME HonestInv, FlowOK, NEW w \in Workers, WorkerStep(w)
  PROVE  FlowOK'
  <1> DEFINE S == {v \in Workers : worker[v].pc = "exited"}
             T == {v \in Workers : worker'[v].pc = "exited"}
  <1>0. ChannelCap \in Nat \ {0} /\ IsFiniteSet(Workers)
    BY ScanAssumption
  <1>1. /\ chan \in Seq(Units) /\ files \in Seq(Paths) /\ phase \in Phases /\ cursor \in Nat \ {0}
        /\ Len(files) \in Nat
    BY DEF HonestInv, ShapeOK
  <1>2. IsFiniteSet(S) /\ Cardinality(S) \in Nat /\ IsFiniteSet(T) /\ Cardinality(T) \in Nat
    BY <1>0, FS_Subset, FS_CardinalityType
  <1>3. worker[w].pc # "exited" /\ worker \in [Workers -> WorkerStates]
    BY DEF WorkerStep, Claim, ProbeBody, Verdict, Acquire, FullFileHash, Send, HonestInv, ShapeOK
  <1>4. \A v \in Workers \ {w} : worker'[v] = worker[v]
    BY <1>3 DEF WorkerStep, Claim, ProbeBody, Verdict, Acquire, FullFileHash, Send, ToStart, Failed
  <1>5. \/ T = S
        \/ T = S \cup {w} /\ w \notin S /\ worker'[w].pc = "exited"
    BY <1>3, <1>4
  <1>6. Cardinality(T) = (IF worker'[w].pc = "exited" THEN Cardinality(S) + 1 ELSE Cardinality(S))
    <2>1. CASE worker'[w].pc = "exited"
      <3>1. worker' \in [Workers -> WorkerStates]
        BY WorkerHonest DEF HonestInv, ShapeOK
      <3>2. T = S \cup {w} /\ w \notin S
        BY <1>3, <1>4, <2>1
      <3> QED
        BY <1>2, <2>1, <3>2, FS_AddElement
    <2>2. CASE worker'[w].pc # "exited"
      <3>1. T = S
        BY <1>3, <1>4, <2>2
      <3> QED
        BY <2>2, <3>1
    <2> QED
      BY <2>1, <2>2
  <1>7. phase \notin {"walk", "select"} /\ ~Exited /\ phase # "error"
        /\ phase \notin {"flush_final", "final", "prune", "delete", "prune_error", "ok"}
    <2>1. ~Exited
      BY <1>3 DEF Exited
    <2>2. phase \notin {"walk", "select"}
      BY DEF FlowOK, Idle, WorkerStep, Claim, InPipeline, ProbeBody, Verdict, Acquire, FullFileHash,
             Send
    <2> QED
      BY <2>1, <2>2 DEF FlowOK
  <1>8. UNCHANGED <<opts, phase, batch, txn, files, rx>>
    BY DEF WorkerStep, Claim, ProbeBody, Verdict, Acquire, FullFileHash, Send
  <1>9. \/ cursor' = cursor + 1 /\ (worker'[w].pc = "exited" <=> cursor > Len(files))
        \/ cursor' = cursor /\ (worker'[w].pc = "exited" => ~rx)
    <2>1. CASE Claim(w)
      BY ZenonT(30), <1>3, <2>1 DEF Claim, WorkerStates
    <2>2. CASE Send(w)
      BY <1>3, <2>2 DEF Send, ToStart, Idle
    <2>3. CASE ProbeBody(w) \/ Verdict(w) \/ Acquire(w) \/ FullFileHash(w)
      BY <1>3, <2>3 DEF ProbeBody, Verdict, Acquire, FullFileHash, ToStart, Idle, WorkerStates
    <2> QED
      BY <2>1, <2>2, <2>3 DEF WorkerStep
  <1>10. cursor' <= Len(files) + 1 + Cardinality(T)
    <2>1. cursor <= Len(files) + 1 + Cardinality(S)
      BY DEF FlowOK
    <2> HIDE DEF S, T
    <2> QED
      BY <1>1, <1>2, <1>6, <1>9, <2>1
  <1>11. rx => \A v \in Workers : worker'[v].pc = "exited" => cursor' > Len(files)
    BY <1>1, <1>4, <1>9 DEF FlowOK
  <1>12. /\ chan' = <<>> \/ phase # "join"
         /\ Len(chan') <= ChannelCap
    <2>1. CASE Send(w)
      BY <1>0, <1>1, <2>1 DEF Send, FlowOK
    <2>2. CASE UNCHANGED chan
      BY <2>2 DEF FlowOK
    <2> QED
      BY <2>1, <2>2 DEF WorkerStep, Claim, ProbeBody, Verdict, Acquire, FullFileHash
  <1> QED
    BY <1>7, <1>8, <1>10, <1>11, <1>12 DEF FlowOK, Flushing

\* Other processes touch neither the channel nor the workers.
LEMMA WorldFlow ==
  ASSUME HonestInv, FlowOK, World
  PROVE  FlowOK'
  <1>1. CASE UNCHANGED <<opts, phase, files, cursor, worker, chan, rx, batch, txn>>
    BY <1>1 DEF FlowOK, Exited, Flushing
  <1>2. ASSUME NEW p \in Paths, NEW q, NEW c, Change(p, q, c) PROVE FlowOK'
    <2>1. \A w \in Workers : worker[w] \in WorkerStates /\ WorkerOK(worker[w])
      BY OfWorker
    <2>2. \A w \in Workers : worker'[w].pc = worker[w].pc
                             /\ (worker[w] = Idle => worker'[w] = Idle)
      BY <1>2, <2>1 DEF Change, WorkerStates, Idle
    <2>3. {w \in Workers : worker'[w].pc = "exited"} = {w \in Workers : worker[w].pc = "exited"}
      BY <2>2
    <2>4. UNCHANGED <<opts, phase, files, cursor, chan, rx, batch, txn>>
      BY <1>2 DEF Change
    <2> QED
      BY <2>2, <2>3, <2>4 DEF FlowOK, Exited, Flushing
  <1>3. CASE Curate
    BY <1>1, <1>3 DEF Curate
  <1> QED
    BY <1>2, <1>3 DEF World, Rewrite, Unlink, Move

\* The channel keeps to the phase of the calling thread.
LEMMA FlowStep ==
  ASSUME HonestInv, FlowOK, [Next]_vars
  PROVE  FlowOK'
  <1>1. CASE UNCHANGED vars
    BY <1>1 DEF vars, FlowOK, Exited, Flushing
  <1> QED
    BY <1>1, CallerFlow, WorkerFlow, WorldFlow DEF Next

-----------------------------------------------------------------------------
(***************************************************************************)
(* The places, step by step.                                               *)
(***************************************************************************)

\* Taking the head off, or appending, moves one path.
LEMMA TailPaths ==
  ASSUME NEW s \in Seq(Units), s # <<>>, DistinctPaths(s)
  PROVE  /\ \A p : InSeq(s, p) <=> p = Head(s).path \/ InSeq(Tail(s), p)
         /\ ~InSeq(Tail(s), Head(s).path) /\ DistinctPaths(Tail(s))
  <1>1. /\ Tail(s) \in Seq(Units) /\ Len(s) \in Nat \ {0} /\ Len(Tail(s)) = Len(s) - 1
        /\ Head(s) = s[1] /\ \A i \in 1..Len(Tail(s)) : Tail(s)[i] = s[i + 1]
    BY HeadTailProperties
  <1>2. ASSUME NEW p, InSeq(s, p) PROVE p = Head(s).path \/ InSeq(Tail(s), p)
    <2>1. PICK i \in 1..Len(s) : s[i].path = p
      BY <1>2 DEF InSeq
    <2>2. CASE i = 1
      BY <1>1, <2>1, <2>2
    <2>3. CASE i # 1
      <3>1. i - 1 \in 1..Len(Tail(s)) /\ (i - 1) + 1 = i
        BY <1>1, <2>3
      <3>2. Tail(s)[i - 1] = s[i]
        BY <1>1, <3>1
      <3> QED
        BY <2>1, <3>1, <3>2 DEF InSeq
    <2> QED
      BY <2>2, <2>3
  <1>3. ASSUME NEW p, InSeq(Tail(s), p) PROVE InSeq(s, p)
    <2>1. PICK i \in 1..Len(Tail(s)) : Tail(s)[i].path = p
      BY <1>3 DEF InSeq
    <2>2. i + 1 \in 1..Len(s) /\ s[i + 1].path = p
      BY <1>1, <2>1
    <2> QED
      BY <2>2 DEF InSeq
  <1>4. 1 \in 1..Len(s) /\ InSeq(s, Head(s).path)
    BY <1>1 DEF InSeq
  <1>5. ~InSeq(Tail(s), Head(s).path)
    <2> SUFFICES ASSUME InSeq(Tail(s), Head(s).path) PROVE FALSE
      OBVIOUS
    <2>1. PICK i \in 1..Len(Tail(s)) : Tail(s)[i].path = Head(s).path
      BY DEF InSeq
    <2>2. i + 1 \in 1..Len(s) /\ s[i + 1].path = s[1].path /\ i + 1 # 1
      BY <1>1, <2>1
    <2> QED
      BY <1>4, <2>2 DEF DistinctPaths
  <1>6. DistinctPaths(Tail(s))
    <2> SUFFICES ASSUME NEW i \in 1..Len(Tail(s)), NEW j \in 1..Len(Tail(s)),
                        Tail(s)[i].path = Tail(s)[j].path
                 PROVE  i = j
      BY DEF DistinctPaths
    <2>1. i + 1 \in 1..Len(s) /\ j + 1 \in 1..Len(s) /\ s[i + 1].path = s[j + 1].path
      BY <1>1
    <2>2. i + 1 = j + 1
      BY <2>1 DEF DistinctPaths
    <2> QED
      BY <1>1, <2>2
  <1> QED
    BY <1>2, <1>3, <1>4, <1>5, <1>6

\* The paths of a queue a unit is appended to.
LEMMA AppendPaths ==
  ASSUME NEW s \in Seq(Units), NEW u \in Units, DistinctPaths(s), ~InSeq(s, u.path)
  PROVE  /\ \A p : InSeq(Append(s, u), p) <=> p = u.path \/ InSeq(s, p)
         /\ DistinctPaths(Append(s, u))
  <1>1. /\ Len(s) \in Nat /\ Len(Append(s, u)) = Len(s) + 1 /\ Append(s, u)[Len(s) + 1] = u
        /\ \A i \in 1..Len(s) : Append(s, u)[i] = s[i]
    BY AppendProperties
  <1>2. \A i : i \in 1..(Len(s) + 1) <=> i \in 1..Len(s) \/ i = Len(s) + 1
    BY <1>1
  <1> QED
    BY <1>1, <1>2 DEF InSeq, DistinctPaths

\* The paths of a list one is appended to.
LEMMA AppendDone ==
  ASSUME NEW s \in Seq(Paths), NEW q \in Paths, Distinct(s), \A i \in 1..Len(s) : s[i] # q
  PROVE  /\ \A p : (\E i \in 1..Len(Append(s, q)) : Append(s, q)[i] = p)
                     <=> p = q \/ \E i \in 1..Len(s) : s[i] = p
         /\ Distinct(Append(s, q))
  <1>1. /\ Len(s) \in Nat /\ Len(Append(s, q)) = Len(s) + 1 /\ Append(s, q)[Len(s) + 1] = q
        /\ \A i \in 1..Len(s) : Append(s, q)[i] = s[i]
    BY AppendProperties
  <1>2. \A i : i \in 1..(Len(s) + 1) <=> i \in 1..Len(s) \/ i = Len(s) + 1
    BY <1>1
  <1> QED
    BY <1>1, <1>2 DEF Distinct

\* At first no file is anywhere.
LEMMA InitPlaces == Init => OnePlace /\ PendingOK
  <1> SUFFICES ASSUME Init PROVE OnePlace /\ PendingOK
    OBVIOUS
  <1>1. /\ files = <<>> /\ chan = <<>> /\ batch = <<>> /\ txn = None /\ phase = "walk"
        /\ \A w \in Workers : worker[w].pc = "claim"
        /\ result = [p \in Paths |-> "idle"]
    BY DEF Init, Idle
  <1>2. Len(files) = 0 /\ Len(chan) = 0 /\ Len(batch) = 0
    BY <1>1
  <1> QED
    BY <1>1, <1>2 DEF OnePlace, PendingOK, Distinct, DistinctPaths, Verdicts

\* A step that leaves all places as they are.
LEMMA PlacesFrame ==
  ASSUME OnePlace, PendingOK,
         UNCHANGED <<cursor, chan, batch, txn, result>>,
         UNCHANGED files,
         \A w \in Workers : /\ worker'[w].path = worker[w].path
                            /\ worker'[w].pc \in {"claim", "exited"}
                                 <=> worker[w].pc \in {"claim", "exited"},
         phase \in {"walk", "select"} <=> phase' \in {"walk", "select"},
         phase \in {"fatal", "join", "error"} => phase' \in {"fatal", "join", "error"}
  PROVE  OnePlace' /\ PendingOK'
  <1>1. \A p \in Paths : /\ Unclaimed(p)' <=> Unclaimed(p)
                         /\ Probed(p)' <=> Probed(p)
                         /\ Staged(p)' <=> Staged(p)
                         /\ Placed(p)' <=> Placed(p)
    BY DEF Unclaimed, Probed, Staged, Placed, InSeq
  <1>2. OnePlace'
    BY <1>1 DEF OnePlace, Distinct, DistinctPaths, InSeq
  <1>3. PendingOK'
    BY <1>1 DEF PendingOK
  <1> QED
    BY <1>2, <1>3

Busy(w) == worker[w].pc \notin {"claim", "exited"}

\* The index of a file that is claimed next is in no place afterwards.
LEMMA ClaimedAway ==
  ASSUME HonestInv, Distinct(files), cursor <= Len(files), cursor' = cursor + 1, files' = files
  PROVE  /\ files[cursor] \in Paths /\ Unclaimed(files[cursor])
         /\ \A x : Unclaimed(x)' <=> Unclaimed(x) /\ x # files[cursor]
  <1>1. files \in Seq(Paths) /\ Len(files) \in Nat /\ cursor \in Nat \ {0} /\ cursor \in 1..Len(files)
    BY DEF HonestInv, ShapeOK
  <1>2. \A i : i \in cursor..Len(files) <=> i = cursor \/ i \in (cursor + 1)..Len(files)
    BY <1>1
  <1>3. \A i \in (cursor + 1)..Len(files) : i \in 1..Len(files) /\ i # cursor
    BY <1>1
  <1>4. \A i \in (cursor + 1)..Len(files) : files[i] # files[cursor]
    BY <1>1, <1>3 DEF Distinct
  <1> QED
    BY <1>1, <1>2, <1>4 DEF Unclaimed

\* A worker that takes up, or puts down, a file.
LEMMA ProbedBy ==
  ASSUME HonestInv, OnePlace, NEW w \in Workers, \A v \in Workers \ {w} : worker'[v] = worker[v]
  PROVE  /\ ~Busy(w) /\ Busy(w)' =>
              \A x : Probed(x)' <=> Probed(x) \/ x = worker'[w].path
         /\ Busy(w) /\ ~Busy(w)' =>
              \A x : Probed(x)' <=> Probed(x) /\ x # worker[w].path
         /\ ~Busy(w) /\ ~Busy(w)' => \A x : Probed(x)' <=> Probed(x)
  <1>1. \A v \in Workers \ {w} : Busy(v)' <=> Busy(v)
    BY DEF Busy
  <1>2. \A x : Probed(x) <=> \E v \in Workers : Busy(v) /\ worker[v].path = x
    BY DEF Probed, Busy
  <1>3. \A x : Probed(x)' <=> \E v \in Workers : Busy(v)' /\ worker'[v].path = x
    BY DEF Probed, Busy
  <1>4. \A u, v \in Workers : Busy(u) /\ Busy(v) /\ worker[u].path = worker[v].path => u = v
    BY DEF OnePlace, Busy
  <1> QED
    BY <1>1, <1>2, <1>3, <1>4

\* A claimed file moves from the list to its worker.
LEMMA ClaimPlaces ==
  ASSUME PlaceInv, NEW w \in Workers, Claim(w)
  PROVE  OnePlace' /\ PendingOK'
  <1>1. /\ HonestInv /\ OnePlace /\ PendingOK /\ worker[w] \in WorkerStates
        /\ worker \in [Workers -> WorkerStates] /\ worker[w].pc = "claim"
        /\ cursor \in Nat /\ Len(files) \in Nat
    BY OfWorker DEF PlaceInv, Claim, HonestInv, ShapeOK
  <1>2. UNCHANGED <<files, phase, chan, batch, txn>> /\ phase \notin {"walk", "select"}
    BY DEF Claim, InPipeline
  <1>3. \A x : /\ Staged(x)' <=> Staged(x)
               /\ InSeq(chan, x)' <=> InSeq(chan, x)
               /\ InSeq(batch, x)' <=> InSeq(batch, x)
    BY <1>2 DEF Staged, InSeq
  <1>4. \A v \in Workers \ {w} : worker'[v] = worker[v]
    BY <1>1 DEF Claim, Failed
  <1>5. CASE cursor > Len(files)
    <2>1. UNCHANGED result /\ worker' = [worker EXCEPT ![w].pc = "exited"]
      BY <1>5 DEF Claim
    <2>2. \A x : ~Unclaimed(x) /\ ~Unclaimed(x)'
      BY <1>1, <1>2, <1>5 DEF Unclaimed, Claim
    <2>3. worker'[w].pc = "exited"
      BY <1>1, <2>1 DEF WorkerStates
    <2>4. \A x : Probed(x)' <=> Probed(x)
      BY <1>1, <1>4, <2>3, ProbedBy DEF Busy
    <2>5. \A x : Placed(x)' <=> Placed(x)
      BY <1>3, <2>2, <2>4 DEF Placed
    <2>6. OnePlace'
      BY <1>1, <1>2, <1>3, <1>4, <2>2, <2>3, <2>4 DEF OnePlace, Distinct, DistinctPaths
    <2>7. PendingOK'
      BY <1>1, <1>2, <2>1, <2>5 DEF PendingOK
    <2> QED
      BY <2>6, <2>7
  <1>6. CASE ~(cursor > Len(files))
    <2> DEFINE p == files[cursor]
    <2>1. /\ p \in Paths /\ Unclaimed(p)
          /\ \A x : Unclaimed(x)' <=> Unclaimed(x) /\ x # p
      BY <1>1, <1>2, <1>6, ClaimedAway DEF Claim, OnePlace
    <2>2. /\ ~Probed(p) /\ ~InSeq(chan, p) /\ ~InSeq(batch, p) /\ ~Staged(p)
          /\ result[p] = "pending"
      BY <1>1, <1>2, <2>1 DEF OnePlace, PendingOK, Placed
    <2>3. CASE disk[p] = None
      <3>1. worker' = worker /\ result' = [result EXCEPT ![p] = "failed"]
        BY <1>6, <2>3 DEF Claim, Failed
      <3>2. \A x : Probed(x)' <=> Probed(x)
        BY <3>1 DEF Probed
      <3>3. \A x : Placed(x)' <=> Placed(x) /\ x # p
        BY <1>3, <2>1, <2>2, <3>2 DEF Placed
      <3> HIDE DEF p
      <3>4. OnePlace'
        BY <1>1, <1>2, <1>3, <2>1, <3>1, <3>2 DEF OnePlace, Distinct, DistinctPaths
      <3>5. PendingOK'
        BY <1>1, <1>2, <2>1, <2>2, <3>1, <3>3 DEF PendingOK, Verdicts
      <3> QED
        BY <3>4, <3>5
    <2>4. CASE disk[p] # None
      <3>1. /\ UNCHANGED result
            /\ worker'[w].pc = "read" /\ worker'[w].path = p
        BY <1>1, <1>6, <2>4 DEF Claim, WorkerStates
      <3>2. \A x : Probed(x)' <=> Probed(x) \/ x = p
        BY <1>1, <1>4, <3>1, ProbedBy DEF Busy
      <3>3. \A x : Placed(x)' <=> Placed(x)
        BY <1>3, <2>1, <2>2, <3>2 DEF Placed
      <3> HIDE DEF p
      <3>4. OnePlace'
        <4>1. \A u, v \in Workers :
                Busy(u)' /\ Busy(v)' /\ worker'[u].path = worker'[v].path => u = v
          <5>1. \A u \in Workers \ {w} : Busy(u)' => worker'[u].path # p
            BY <1>4, <2>2 DEF Probed, Busy
          <5>2. \A u, v \in Workers \ {w} :
                  Busy(u)' /\ Busy(v)' /\ worker'[u].path = worker'[v].path => u = v
            BY <1>1, <1>4 DEF OnePlace, Busy
          <5> QED
            BY <3>1, <5>1, <5>2
        <4> QED
          BY <1>1, <1>2, <1>3, <2>1, <2>2, <3>2, <4>1 DEF OnePlace, Distinct, DistinctPaths, Busy
      <3>5. PendingOK'
        BY <1>1, <1>2, <3>1, <3>3 DEF PendingOK
      <3> QED
        BY <3>4, <3>5
    <2> QED
      BY <2>3, <2>4
  <1> QED
    BY <1>5, <1>6

\* A worker gives up its file: it is settled, or the run has failed.
LEMMA DropPlaces ==
  ASSUME PlaceInv, NEW w \in Workers, Busy(w), ~Busy(w)',
         \A v \in Workers \ {w} : worker'[v] = worker[v],
         UNCHANGED <<files, cursor, phase, chan, batch, txn>>,
         \/ \E v \in {"failed", "raced"} : result' = [result EXCEPT ![worker[w].path] = v]
         \/ phase \in {"fatal", "join", "error"} /\ result' = result
  PROVE  OnePlace' /\ PendingOK'
  <1> DEFINE p == worker[w].path
  <1>0. HonestInv /\ OnePlace /\ PendingOK /\ FlowOK
    BY DEF PlaceInv
  <1>1. phase \notin {"walk", "select"} /\ p \in Paths
    <2>1. WorkerOK(worker[w])
      BY <1>0, OfWorker
    <2>2. p \in Paths
      BY <2>1 DEF WorkerOK, Busy
    <2>3. worker[w] # Idle
      BY DEF Idle, Busy
    <2> QED
      BY <1>0, <2>2, <2>3 DEF FlowOK
  <1>2. Probed(p) /\ result[p] = "pending"
    BY <1>0, <1>1 DEF Probed, Busy, PendingOK, Placed
  <1>3. \A x : Probed(x)' <=> Probed(x) /\ x # p
    BY <1>0, <1>1, ProbedBy
  <1>4. \A x : /\ Staged(x)' <=> Staged(x)
               /\ Unclaimed(x)' <=> Unclaimed(x)
               /\ InSeq(chan, x)' <=> InSeq(chan, x)
               /\ InSeq(batch, x)' <=> InSeq(batch, x)
    BY DEF Staged, InSeq, Unclaimed
  <1>5. ~Unclaimed(p) /\ ~InSeq(chan, p) /\ ~InSeq(batch, p) /\ ~Staged(p)
    BY <1>0, <1>1, <1>2 DEF OnePlace
  <1>6. \A x : Placed(x)' <=> Placed(x) /\ x # p
    BY <1>3, <1>4, <1>5 DEF Placed
  <1> HIDE DEF p
  <1>7. OnePlace'
    BY <1>0, <1>1, <1>3, <1>4 DEF OnePlace, Distinct, DistinctPaths, Busy
  <1>8. result' \in [Paths -> Verdicts] /\ (\A x \in Paths : x # p => result'[x] = result[x])
        /\ result'[p] # "idle" /\ (result'[p] = "pending" => phase \in {"fatal", "join", "error"})
    BY <1>0, <1>1, <1>2 DEF PendingOK, Verdicts, p
  <1>9. PendingOK'
    BY <1>0, <1>1, <1>2, <1>6, <1>8 DEF PendingOK
  <1> QED
    BY <1>7, <1>9

\* A file that fails its probe, or raced a writer, is nowhere and settled.
LEMMA VerdictPlaces ==
  ASSUME PlaceInv, NEW w \in Workers, Verdict(w)
  PROVE  OnePlace' /\ PendingOK'
  <1>1. /\ HonestInv /\ worker[w] \in WorkerStates /\ WorkerOK(worker[w])
        /\ worker \in [Workers -> WorkerStates] /\ worker[w].pc = "restat"
        /\ worker[w].unit.path = worker[w].path
    BY OfWorker DEF PlaceInv, Verdict, HonestInv, ShapeOK, WorkerOK
  <1>2. UNCHANGED <<files, cursor, phase, chan, batch, txn>>
    BY DEF Verdict
  <1>3. CASE /\ ToStart(w)
             /\ \E v \in {"failed", "raced"} : result' = [result EXCEPT ![worker[w].path] = v]
    <2>1. Busy(w) /\ ~Busy(w)' /\ \A v \in Workers \ {w} : worker'[v] = worker[v]
      BY <1>1, <1>3 DEF ToStart, Busy, Idle
    <2> QED
      BY <1>2, <1>3, <2>1, DropPlaces
  <1>4. CASE worker' = [worker EXCEPT ![w].pc = "acquire", ![w].fd = None] /\ UNCHANGED result
    <2>1. worker'[w].pc = "acquire" /\ worker'[w].path = worker[w].path
          /\ \A v \in Workers \ {w} : worker'[v] = worker[v]
      BY <1>1, <1>4 DEF WorkerStates
    <2> QED
      BY <1>1, <1>2, <1>4, <2>1, PlacesFrame DEF PlaceInv
  <1> QED
    BY <1>1, <1>3, <1>4 DEF Verdict, Failed

\* A sent unit moves from its worker to the channel, or is dropped with the
\* receiver gone.
LEMMA SendPlaces ==
  ASSUME PlaceInv, NEW w \in Workers, Send(w)
  PROVE  OnePlace' /\ PendingOK'
  <1> DEFINE u == worker[w].unit
             p == worker[w].path
  <1>1. /\ HonestInv /\ OnePlace /\ PendingOK /\ FlowOK
        /\ worker[w] \in WorkerStates /\ WorkerOK(worker[w])
        /\ worker \in [Workers -> WorkerStates] /\ worker[w].pc = "send"
        /\ chan \in Seq(Units)
    BY OfWorker DEF PlaceInv, Send, HonestInv, ShapeOK
  <1>2. u \in Units /\ u.path = p /\ p \in Paths /\ Busy(w)
    BY <1>1 DEF WorkerOK, WorkerStates, Busy
  <1>3. UNCHANGED <<files, cursor, phase, batch, txn, result>>
    BY DEF Send
  <1>4. ~Busy(w)' /\ \A v \in Workers \ {w} : worker'[v] = worker[v]
    BY <1>1 DEF Send, ToStart, Busy, Idle
  <1>5. CASE ~rx /\ UNCHANGED chan
    <2>1. phase \in {"fatal", "join", "error"}
      BY <1>1, <1>5 DEF FlowOK
    <2> QED
      BY <1>2, <1>3, <1>4, <1>5, <2>1, DropPlaces
  <1>6. CASE chan' = Append(chan, u)
    <2>1. phase \notin {"walk", "select"} /\ Probed(p)
      BY <1>1, <1>2 DEF FlowOK, Idle, Probed, Busy
    <2>2. ~Unclaimed(p) /\ ~InSeq(chan, p) /\ ~InSeq(batch, p) /\ ~Staged(p)
      BY <1>1, <1>2, <2>1 DEF OnePlace
    <2>3. \A x : Probed(x)' <=> Probed(x) /\ x # p
      BY <1>1, <1>2, <1>4, ProbedBy
    <2>4. DistinctPaths(chan)
      BY <1>1 DEF OnePlace
    <2>5. /\ \A x : InSeq(Append(chan, u), x) <=> x = u.path \/ InSeq(chan, x)
          /\ DistinctPaths(Append(chan, u))
      <3> HIDE DEF u, p
      <3> QED
        BY <1>1, <1>2, <2>2, <2>4, AppendPaths
    <2>6. (\A x : InSeq(chan, x)' <=> x = p \/ InSeq(chan, x)) /\ DistinctPaths(chan)'
      BY <1>2, <1>6, <2>5 DEF InSeq, DistinctPaths
    <2>7. \A x : /\ Staged(x)' <=> Staged(x)
                 /\ Unclaimed(x)' <=> Unclaimed(x)
                 /\ InSeq(batch, x)' <=> InSeq(batch, x)
      BY <1>3 DEF Staged, InSeq, Unclaimed
    <2> HIDE DEF u, p
    <2>8. \A x : Placed(x)' <=> Placed(x)
      BY <2>1, <2>3, <2>6, <2>7 DEF Placed
    <2>9. OnePlace'
      BY <1>1, <1>3, <1>4, <2>1, <2>2, <2>3, <2>6, <2>7
      DEF OnePlace, Distinct, DistinctPaths, Busy
    <2>10. PendingOK'
      BY <1>1, <1>3, <2>1, <2>8 DEF PendingOK
    <2> QED
      BY <2>9, <2>10
  <1> QED
    BY <1>5, <1>6 DEF Send

\* Files stay in one place over every step of a worker.
LEMMA WorkerPlaces ==
  ASSUME PlaceInv, NEW w \in Workers, WorkerStep(w)
  PROVE  OnePlace' /\ PendingOK'
  <1>1. CASE ProbeBody(w) \/ Acquire(w) \/ FullFileHash(w)
    <2>1. /\ worker[w] \in WorkerStates /\ worker \in [Workers -> WorkerStates]
          /\ OnePlace /\ PendingOK
      BY DEF PlaceInv, HonestInv, ShapeOK
    <2>2. /\ worker[w].pc \in {"read", "acquire", "hash"}
          /\ worker'[w].pc \in {"restat", "hash", "send"} /\ worker'[w].path = worker[w].path
          /\ \A v \in Workers \ {w} : worker'[v] = worker[v]
      BY <1>1, <2>1 DEF ProbeBody, Acquire, FullFileHash, WorkerStates
    <2>3. UNCHANGED <<files, cursor, phase, chan, batch, txn, result>>
      BY <1>1 DEF ProbeBody, Acquire, FullFileHash
    <2> QED
      BY <2>1, <2>2, <2>3, PlacesFrame
  <1> QED
    BY <1>1, ClaimPlaces, VerdictPlaces, SendPlaces DEF WorkerStep

\* The oldest unit of the channel goes to the batch.
LEMMA TakePlaces ==
  ASSUME PlaceInv, NEW full, Take(full), phase \in {"recv", "block"},
         full \in {"flush_recv"},
         UNCHANGED <<files, cursor, worker, txn, result>>
  PROVE  OnePlace' /\ PendingOK'
  <1> DEFINE u == Head(chan)
             p == u.path
  <1>1. /\ OnePlace /\ PendingOK /\ chan \in Seq(Units) /\ batch \in Seq(Units) /\ chan # <<>>
        /\ batch' = Append(batch, u) /\ chan' = Tail(chan)
        /\ phase' \in {"recv", "flush_recv"}
    BY DEF Take, PlaceInv, HonestInv, ShapeOK
  <1>2a. u \in Units
    BY <1>1
  <1>2. u \in Units /\ p \in Paths
    BY <1>2a DEF Units
  <1>3. DistinctPaths(chan) /\ DistinctPaths(batch)
    BY <1>1 DEF OnePlace
  <1>4. /\ \A x : InSeq(chan, x) <=> x = p \/ InSeq(Tail(chan), x)
        /\ ~InSeq(Tail(chan), p) /\ DistinctPaths(Tail(chan))
    BY <1>1, <1>3, TailPaths
  <1>5. InSeq(chan, p) /\ ~InSeq(batch, p) /\ ~Unclaimed(p) /\ ~Probed(p) /\ ~Staged(p)
    BY <1>1, <1>2, <1>4 DEF OnePlace
  <1> HIDE DEF u
  <1>6. /\ \A x : InSeq(Append(batch, u), x) <=> x = p \/ InSeq(batch, x)
        /\ DistinctPaths(Append(batch, u))
    BY <1>1, <1>2, <1>3, <1>5, AppendPaths
  <1> HIDE DEF p
  <1>7. /\ \A x : InSeq(chan, x)' <=> InSeq(chan, x) /\ x # p
        /\ \A x : InSeq(batch, x)' <=> x = p \/ InSeq(batch, x)
        /\ DistinctPaths(chan)' /\ DistinctPaths(batch)'
    BY <1>1, <1>4, <1>6 DEF InSeq, DistinctPaths
  <1>8. \A x : /\ Staged(x)' <=> Staged(x)
               /\ Unclaimed(x)' <=> Unclaimed(x)
               /\ Probed(x)' <=> Probed(x)
    BY DEF Staged, Unclaimed, Probed
  <1>9. \A x : Placed(x)' <=> Placed(x)
    BY <1>5, <1>7, <1>8 DEF Placed
  <1>10. OnePlace'
    BY <1>1, <1>2, <1>5, <1>7, <1>8 DEF OnePlace, Distinct
  <1>11. PendingOK'
    BY <1>1, <1>9 DEF PendingOK
  <1> QED
    BY <1>10, <1>11

\* The oldest unit of the batch is staged, or the store has rejected it.
LEMMA FlushItemPlaces ==
  ASSUME PlaceInv, FlushItem
  PROVE  OnePlace' /\ PendingOK'
  <1> DEFINE u == Head(batch)
             p == u.path
             d == Transaction.done
  <1>1. /\ HonestInv /\ OnePlace /\ PendingOK /\ batch \in Seq(Units) /\ batch # <<>>
        /\ batch' = Tail(batch) /\ Flushing
    BY DEF FlushItem, PlaceInv, HonestInv, ShapeOK
  <1>2a. u \in Units
    BY <1>1
  <1>2. u \in Units /\ p \in Paths
    BY <1>2a DEF Units
  <1>3. DistinctPaths(batch)
    BY <1>1 DEF OnePlace
  <1>4. /\ \A x : InSeq(batch, x) <=> x = p \/ InSeq(Tail(batch), x)
        /\ ~InSeq(Tail(batch), p) /\ DistinctPaths(Tail(batch))
    BY <1>1, <1>3, TailPaths
  <1>5. phase \notin {"walk", "select"} /\ phase \notin {"fatal", "join", "error"}
    BY <1>1 DEF Flushing
  <1>6. /\ InSeq(batch, p) /\ ~InSeq(chan, p) /\ ~Unclaimed(p) /\ ~Probed(p) /\ ~Staged(p)
        /\ result[p] = "pending"
    BY <1>1, <1>2, <1>4, <1>5 DEF OnePlace, PendingOK, Placed
  <1>7. /\ d \in Seq(Paths) /\ Distinct(d)
        /\ \A x : Staged(x) <=> \E i \in 1..Len(d) : d[i] = x
    <2>1. CASE txn = None
      <3>1. d = <<>>
        BY <2>1 DEF Transaction
      <3>2. d \in Seq(Paths) /\ Len(d) = 0
        BY <3>1
      <3> HIDE DEF d
      <3> QED
        BY <2>1, <3>2 DEF Distinct, Staged
    <2>2. CASE txn # None
      <3>1. d = txn.done
        BY <2>2 DEF Transaction
      <3> QED
        BY <1>1, <2>2, <3>1 DEF Staged, OnePlace, HonestInv, ShapeOK, Transactions
    <2> QED
      BY <2>1, <2>2
  <1>8. UNCHANGED <<files, cursor, phase, worker, chan>>
    BY DEF FlushItem
  <1>9. \A x : /\ InSeq(chan, x)' <=> InSeq(chan, x)
               /\ Unclaimed(x)' <=> Unclaimed(x)
               /\ Probed(x)' <=> Probed(x)
    BY <1>8 DEF Unclaimed, Probed, InSeq
  <1>10. (\A x : InSeq(batch, x)' <=> InSeq(batch, x) /\ x # p) /\ DistinctPaths(batch)'
    BY <1>1, <1>4 DEF InSeq, DistinctPaths
  <1>11. CASE /\ txn' = [Transaction EXCEPT !.weight = @ + released(u)] /\ Failed(p)
    <2>1. txn'.done = d /\ txn' # None
      <3>1. Transaction \in Transactions
        BY <1>1, TransactionType
      <3>2. released(u) \in Nat
        BY <1>2, ScanAssumption DEF released, payload_weight, Units
      <3>3. txn' \in Transactions /\ txn'.done = d
        BY <1>11, <3>1, <3>2 DEF Transactions
      <3> QED
        BY <3>3, ScanAssumption
    <2>2. result' = [result EXCEPT ![p] = "failed"]
      BY <1>11 DEF Failed
    <2> HIDE DEF u, p, d
    <2>3. (\A x : Staged(x)' <=> Staged(x)) /\ Distinct(txn'.done)
      BY <1>7, <2>1 DEF Staged, Distinct
    <2>4. \A x : Placed(x)' <=> Placed(x) /\ x # p
      BY <1>6, <1>9, <1>10, <2>3 DEF Placed
    <2>5. OnePlace'
      BY <1>1, <1>5, <1>8, <1>9, <1>10, <2>3 DEF OnePlace, Distinct, DistinctPaths
    <2>6. PendingOK'
      BY <1>1, <1>2, <1>5, <1>6, <1>8, <2>2, <2>4 DEF PendingOK, Verdicts
    <2> QED
      BY <2>5, <2>6
  <1>12. CASE /\ txn' = [[Transaction EXCEPT !.weight = @ + released(u)]
                           EXCEPT !.rows = ingest_unit(Transaction.rows, u), !.done = Append(@, p)]
              /\ UNCHANGED result
    <2>1. txn'.done = Append(d, p) /\ txn' # None
      <3>1. Transaction \in Transactions
        BY <1>1, TransactionType
      <3>2. txn'.done = Append(d, p)
        BY <1>12, <3>1 DEF Transactions
      <3> QED
        BY <1>1, <3>2, FlushItemTxn
    <2> HIDE DEF u, d
    <2>2. \A i \in 1..Len(d) : d[i] # p
      BY <1>6, <1>7
    <2> HIDE DEF p
    <2>3. /\ \A x : (\E i \in 1..Len(Append(d, p)) : Append(d, p)[i] = x)
                      <=> x = p \/ \E i \in 1..Len(d) : d[i] = x
          /\ Distinct(Append(d, p))
      BY <1>2, <1>7, <2>2, AppendDone
    <2>4. (\A x : Staged(x)' <=> x = p \/ Staged(x)) /\ Distinct(txn'.done)
      BY <1>7, <2>1, <2>3 DEF Staged, Distinct
    <2>5. \A x : Placed(x)' <=> Placed(x)
      BY <1>6, <1>9, <1>10, <2>4 DEF Placed
    <2>6. OnePlace'
      BY <1>1, <1>2, <1>5, <1>6, <1>8, <1>9, <1>10, <2>4 DEF OnePlace, Distinct, DistinctPaths
    <2>7. PendingOK'
      BY <1>1, <1>5, <1>8, <1>12, <2>5 DEF PendingOK
    <2> QED
      BY <2>6, <2>7
  <1> QED
    BY <1>11, <1>12 DEF FlushItem

\* A commit settles what it staged.
LEMMA FlushCommitPlaces ==
  ASSUME PlaceInv, FlushCommit
  PROVE  OnePlace' /\ PendingOK'
  <1>1. /\ HonestInv /\ OnePlace /\ PendingOK /\ txn # None /\ txn \in Transactions /\ Flushing
        /\ txn' = None /\ phase' = AfterFlush
        /\ UNCHANGED <<files, cursor, worker, chan, batch>>
    BY DEF FlushCommit, PlaceInv, HonestInv, ShapeOK
  <1>2. txn.done \in Seq(Paths)
    BY <1>1 DEF Transactions
  <1>3. result' = [p \in Paths |-> IF Contains(txn.done, p) THEN "committed" ELSE result[p]]
    BY DEF FlushCommit
  <1>4. \A p \in Paths : result'[p] = IF Staged(p) THEN "committed" ELSE result[p]
    BY <1>1, <1>2, <1>3 DEF Staged, Contains
  <1>5. \A x : /\ ~Staged(x)'
               /\ Unclaimed(x)' <=> Unclaimed(x)
               /\ Probed(x)' <=> Probed(x)
               /\ InSeq(chan, x)' <=> InSeq(chan, x)
               /\ InSeq(batch, x)' <=> InSeq(batch, x)
    BY <1>1 DEF Staged, Unclaimed, Probed, InSeq
  <1>6. /\ phase \notin {"walk", "select"} /\ phase \notin {"fatal", "join", "error"}
        /\ phase' \notin {"walk", "select"} /\ phase' \notin {"fatal", "join", "error"}
    BY <1>1 DEF Flushing, AfterFlush
  <1>7. OnePlace'
    BY <1>1, <1>5, <1>6 DEF OnePlace, Distinct, DistinctPaths
  <1>8. \A x \in Paths : Placed(x)' <=> Placed(x) /\ ~Staged(x)
    BY <1>1, <1>5, <1>6 DEF OnePlace, Placed
  <1>9. \A x \in Paths : Staged(x) => result[x] = "pending"
    BY <1>1, <1>6 DEF PendingOK, Placed
  <1>10. result' \in [Paths -> Verdicts]
    BY <1>1, <1>3 DEF PendingOK, Verdicts
  <1>11. PendingOK'
    BY <1>1, <1>4, <1>6, <1>8, <1>9, <1>10 DEF PendingOK, Verdicts
  <1> QED
    BY <1>7, <1>11

\* After a fatal error the batch, the transaction and the channel are gone;
\* their files stay pending.
LEMMA LosePlaces ==
  ASSUME PlaceInv, FlushFails \/ Teardown
  PROVE  OnePlace' /\ PendingOK'
  <1>1. /\ OnePlace /\ PendingOK /\ UNCHANGED <<files, cursor, worker, result>>
        /\ phase \notin {"walk", "select"} /\ phase' \in {"fatal", "join"}
        /\ chan' = chan \/ Len(chan') = 0
        /\ batch' = batch \/ Len(batch') = 0
        /\ txn' = txn \/ txn' = None
    BY DEF FlushFails, Flushing, Teardown, PlaceInv
  <1>2. \A x : /\ Staged(x)' => Staged(x)
               /\ Unclaimed(x)' <=> Unclaimed(x)
               /\ Probed(x)' <=> Probed(x)
               /\ InSeq(chan, x)' => InSeq(chan, x)
               /\ InSeq(batch, x)' => InSeq(batch, x)
    BY <1>1 DEF Staged, Unclaimed, Probed, InSeq
  <1>3. /\ DistinctPaths(chan)' /\ DistinctPaths(batch)'
        /\ txn' # None => Distinct(txn'.done)
    BY <1>1 DEF OnePlace, Distinct, DistinctPaths
  <1>4. OnePlace'
    BY <1>1, <1>2, <1>3 DEF OnePlace, Distinct
  <1>5. \A x \in Paths : Placed(x)' => Placed(x)
    BY <1>2 DEF Placed
  <1>6. PendingOK'
    BY <1>1, <1>5 DEF PendingOK
  <1> QED
    BY <1>4, <1>6

\* Before the workers start nothing is anywhere.
LEMMA WalkPlaces ==
  ASSUME PlaceInv, Walk
  PROVE  OnePlace' /\ PendingOK'
  <1>1. opts.follow_symlinks \in BOOLEAN
    BY DEF PlaceInv, HonestInv, ShapeOK, Options
  <1>2. {p \in Paths : disk[p] # None} \in SUBSET Paths
    OBVIOUS
  <1>3. Distinct(files')
    <2>1. files' = Collect({p \in Paths : disk[p] # None}, opts.follow_symlinks)
      BY DEF Walk
    <2>2. \A S \in SUBSET Paths, follow \in BOOLEAN : Distinct(Collect(S, follow))
      BY CollectAssumption DEF Distinct
    <2>3. Distinct(Collect({p \in Paths : disk[p] # None}, opts.follow_symlinks))
      BY <1>1, <1>2, <2>2, Zenon
    <2> QED
      BY <2>1, <2>3, Zenon
  <1>4. /\ OnePlace /\ PendingOK /\ phase = "walk" /\ phase' = "select"
        /\ UNCHANGED <<worker, chan, batch, txn, result>>
    BY DEF Walk, PlaceInv
  <1> QED
    BY <1>3, <1>4 DEF OnePlace, PendingOK, Distinct, DistinctPaths

\* The files of a run are put on the list once.
LEMMA SelectPlaces ==
  ASSUME PlaceInv, Select
  PROVE  OnePlace' /\ PendingOK'
  <1> DEFINE S == {i \in 1..Len(files) : Selected(files[i])}
  <1>1. /\ HonestInv /\ OnePlace /\ PendingOK /\ FlowOK /\ files \in Seq(Paths)
        /\ phase = "select" /\ phase' = "recv" /\ files' = Keep(files, S)
        /\ result' = [p \in Paths |-> IF Contains(files', p) THEN "pending" ELSE "idle"]
        /\ UNCHANGED <<cursor, worker, chan, batch, txn>>
    BY DEF Select, PlaceInv, HonestInv, ShapeOK
  <1>2. S \in SUBSET (1..Len(files))
    OBVIOUS
  <1> HIDE DEF S
  <1>3. /\ files' \in Seq(Paths)
        /\ \A n \in 1..Len(files') : Nth(S, n) \in S /\ files'[n] = files[Nth(S, n)]
        /\ \A m, n \in 1..Len(files') : Nth(S, m) = Nth(S, n) => m = n
    BY <1>1, <1>2, KeepProps
  <1>4. Distinct(files')
    <2>1. \A i, j \in 1..Len(files) : files[i] = files[j] => i = j
      BY <1>1 DEF OnePlace, Distinct
    <2>2. SUFFICES ASSUME NEW m \in 1..Len(files'), NEW n \in 1..Len(files'),
                          files'[m] = files'[n]
                   PROVE  m = n
      BY DEF Distinct
    <2>3. /\ Nth(S, m) \in 1..Len(files) /\ Nth(S, n) \in 1..Len(files)
          /\ files[Nth(S, m)] = files[Nth(S, n)]
      BY <1>2, <1>3, <2>2
    <2>4. Nth(S, m) = Nth(S, n)
      BY <2>1, <2>3
    <2> QED
      BY <1>3, <2>4
  <1>5. /\ \A w \in Workers : worker[w].pc = "claim"
        /\ Len(chan) = 0 /\ Len(batch) = 0 /\ txn = None /\ cursor = 1
    BY <1>1 DEF FlowOK, Flushing, Idle
  <1>6. \A x : /\ ~Probed(x)' /\ ~InSeq(chan, x)' /\ ~InSeq(batch, x)' /\ ~Staged(x)'
               /\ Unclaimed(x)' <=> \E i \in 1..Len(files') : files'[i] = x
    BY <1>1, <1>5 DEF Probed, InSeq, Staged, Unclaimed
  <1>7. \A x \in Paths : result'[x] = "pending" <=> \E i \in 1..Len(files') : files'[i] = x
    BY <1>1, <1>3 DEF Contains
  <1>8. OnePlace'
    BY <1>1, <1>4, <1>6 DEF OnePlace, DistinctPaths
  <1>9. result' \in [Paths -> {"pending", "idle"}]
    BY <1>1
  <1>10. PendingOK'
    BY <1>1, <1>6, <1>7, <1>9 DEF PendingOK, Placed, Verdicts
  <1> QED
    BY <1>8, <1>10

\* Files stay in one place over every step of the calling thread.
LEMMA CallerPlaces ==
  ASSUME PlaceInv, CallerStep
  PROVE  OnePlace' /\ PendingOK'
  <1>1. OnePlace /\ PendingOK
    BY DEF PlaceInv
  <1>2. CASE TryRecv
    <2>1. CASE Take("flush_recv")
      BY <1>2, <2>1, TakePlaces DEF TryRecv
    <2>2. CASE UNCHANGED <<batch, chan>> /\ phase' \in {"flush_final", "flush_block"}
      BY <1>1, <1>2, <2>2, PlacesFrame DEF TryRecv
    <2> QED
      BY <1>2, <2>1, <2>2 DEF TryRecv
  <1>3. CASE Recv
    <2>1. CASE Take("flush_recv")
      BY <1>3, <2>1, TakePlaces DEF Recv
    <2>2. CASE UNCHANGED <<batch, chan>> /\ phase' = "flush_final"
      BY <1>1, <1>3, <2>2, PlacesFrame DEF Recv
    <2> QED
      BY <1>3, <2>1, <2>2 DEF Recv
  <1>4. CASE FlushNothing
    BY <1>1, <1>4, PlacesFrame DEF FlushNothing, Flushing, AfterFlush
  <1>5. CASE Join
    BY <1>1, <1>5, PlacesFrame DEF Join
  <1>6. CASE PruneStat
    BY <1>1, <1>6, PlacesFrame DEF PruneStat
  <1>7. CASE PruneDelete
    BY <1>1, <1>7, PlacesFrame DEF PruneDelete
  <1> QED
    BY <1>2, <1>3, <1>4, <1>5, <1>6, <1>7, WalkPlaces, SelectPlaces, FlushItemPlaces,
       FlushCommitPlaces, LosePlaces DEF CallerStep

\* Other processes do not move a run's files about.
LEMMA WorldPlaces ==
  ASSUME PlaceInv, World
  PROVE  OnePlace' /\ PendingOK'
  <1>1. OnePlace /\ PendingOK
    BY DEF PlaceInv
  <1>2. ASSUME NEW p \in Paths, NEW q, NEW c, Change(p, q, c) PROVE OnePlace' /\ PendingOK'
    <2>1. \A w \in Workers : worker[w] \in WorkerStates
      BY DEF PlaceInv, HonestInv, ShapeOK
    <2>2. \A w \in Workers : worker'[w].pc = worker[w].pc /\ worker'[w].path = worker[w].path
      BY <1>2, <2>1 DEF Change, WorkerStates
    <2>3. UNCHANGED <<phase, files, cursor, chan, batch, txn, result>>
      BY <1>2 DEF Change
    <2> QED
      BY <1>1, <2>2, <2>3, PlacesFrame
  <1>3. CASE Curate
    BY <1>1, <1>3, PlacesFrame DEF Curate
  <1> QED
    BY <1>2, <1>3 DEF World, Rewrite, Unlink, Move

\* No step has a file in two places, or a pending one in none.
LEMMA PlaceStep == PlaceInv /\ [Next]_vars => PlaceInv'
  <1> SUFFICES ASSUME PlaceInv, [Next]_vars PROVE PlaceInv'
    OBVIOUS
  <1>1. HonestInv' /\ FlowOK'
    BY HonestStep, FlowStep DEF PlaceInv
  <1>2. OnePlace' /\ PendingOK'
    <2>1. CASE UNCHANGED vars
      BY <2>1, PlacesFrame DEF PlaceInv, vars
    <2> QED
      BY <2>1, CallerPlaces, WorkerPlaces, WorldPlaces DEF Next
  <1> QED
    BY <1>1, <1>2 DEF PlaceInv

\* All of it holds at first.
LEMMA InitPlaceInv == Init => PlaceInv
  BY InitHonest, InitFlow, InitPlaces DEF PlaceInv

-----------------------------------------------------------------------------
(***************************************************************************)
(* The counters.                                                           *)
(***************************************************************************)

\* How many files have a verdict.
Having(f, v) == Cardinality({p \in Paths : f[p] = v})

\* How many paths have a given result is a natural number.
LEMMA HavingType ==
  ASSUME NEW f, NEW v
  PROVE  IsFiniteSet({p \in Paths : f[p] = v}) /\ Having(f, v) \in Nat
  BY ScanAssumption, FS_Subset, FS_CardinalityType DEF Having

\* Settles counts the paths of a result.
LEMMA SettlesHave == \A v : Settles(v) = Having(result, v) /\ Settles(v)' = Having(result', v)
  BY DEF Settles, Having

\* A file is settled: it counts for its verdict and for no other.
LEMMA SettleOne ==
  ASSUME NEW f \in [Paths -> Verdicts], NEW p \in Paths, f[p] = "pending",
         NEW v \in Verdicts \ {"pending"}
  PROVE  LET g == [f EXCEPT ![p] = v]
         IN  /\ Having(g, v) = Having(f, v) + 1
             /\ \A x \in Verdicts \ {"pending", v} : Having(g, x) = Having(f, x)
  <1> DEFINE g == [f EXCEPT ![p] = v]
             Of(x) == {q \in Paths : f[q] = x}
             New(x) == {q \in Paths : g[q] = x}
  <1>1. g[p] = v /\ \A q \in Paths : q # p => g[q] = f[q]
    OBVIOUS
  <1>2. New(v) = Of(v) \cup {p} /\ p \notin Of(v)
    BY <1>1
  <1>3. \A x \in Verdicts \ {"pending", v} : New(x) = Of(x)
    BY <1>1
  <1>4. IsFiniteSet(Of(v))
    BY HavingType
  <1>5. Cardinality(New(v)) = Cardinality(Of(v)) + 1
    BY <1>2, <1>4, FS_AddElement
  <1> QED
    BY <1>3, <1>5 DEF Having

\* Counters and results that stay keep the count.
LEMMA CountFrame ==
  ASSUME CountOK, UNCHANGED <<count, result>>,
         phase' \in {"prune", "delete", "prune_error", "ok"}
            => phase \in {"prune", "delete", "prune_error", "ok"}
  PROVE  CountOK'
  BY DEF CountOK, Settles

\* A file turns out not to be ingestible and is counted.
LEMMA CountDrop ==
  ASSUME PendingOK, CountOK, NEW p \in Paths, result[p] = "pending",
         phase' \notin {"prune", "delete", "prune_error", "ok"},
         \/ Failed(p)
         \/ /\ count' = [count EXCEPT !["raced"] = @ + 1]
            /\ result' = [result EXCEPT ![p] = "raced"]
  PROVE  CountOK'
  <1>1. count \in [Counters -> Nat]
    BY DEF CountOK
  <1>2. CASE Failed(p)
    <2>1. Settles("failed")' = Settles("failed") + 1
          /\ Settles("committed")' = Settles("committed") /\ Settles("raced")' = Settles("raced")
      <3>1. result' = [result EXCEPT ![p] = "failed"]
        BY <1>2 DEF Failed
      <3>2. "failed" \in Verdicts \ {"pending"} /\ result \in [Paths -> Verdicts]
        BY DEF Verdicts, PendingOK
      <3>3. /\ Having(result', "failed") = Having(result, "failed") + 1
            /\ \A x \in Verdicts \ {"pending", "failed"} : Having(result', x) = Having(result, x)
        BY <3>1, <3>2, SettleOne
      <3> QED
        BY <3>3, SettlesHave DEF Verdicts
    <2>2. /\ count' \in [Counters -> Nat]
          /\ count'["failed"] = count["failed"] + 1 /\ count'["tallied"] = count["tallied"] + 1
          /\ \A c \in Counters \ {"failed", "tallied"} : count'[c] = count[c]
      BY <1>1, <1>2 DEF Failed, Counters
    <2> QED
      BY <1>1, <2>1, <2>2 DEF CountOK, Counters
  <1>3. CASE /\ count' = [count EXCEPT !["raced"] = @ + 1]
             /\ result' = [result EXCEPT ![p] = "raced"]
    <2>1. Settles("raced")' = Settles("raced") + 1
          /\ Settles("committed")' = Settles("committed") /\ Settles("failed")' = Settles("failed")
      <3>1. "raced" \in Verdicts \ {"pending"} /\ result \in [Paths -> Verdicts]
        BY DEF Verdicts, PendingOK
      <3>2. /\ Having(result', "raced") = Having(result, "raced") + 1
            /\ \A x \in Verdicts \ {"pending", "raced"} : Having(result', x) = Having(result, x)
        BY <1>3, <3>1, SettleOne
      <3> QED
        BY <3>2, SettlesHave DEF Verdicts
    <2>2. /\ count' \in [Counters -> Nat] /\ count'["raced"] = count["raced"] + 1
          /\ \A c \in Counters \ {"raced"} : count'[c] = count[c]
      BY <1>1, <1>3 DEF Counters
    <2> QED
      BY <1>1, <2>1, <2>2 DEF CountOK, Counters
  <1> QED
    BY <1>2, <1>3

\* The caller catches up with what was settled without it.
LEMMA CountCatchUp ==
  ASSUME CountOK, count' = catch_up, UNCHANGED result
  PROVE  CountOK'
  <1>1. count \in [Counters -> Nat]
    BY DEF CountOK
  <1>2. uncommitted_total = count["failed"] + count["raced"] /\ count["seen"] <= uncommitted_total
    BY DEF uncommitted_total, CountOK
  <1>3. uncommitted_total \in Nat /\ uncommitted_total - count["seen"] \in Nat
    BY <1>1, <1>2 DEF Counters
  <1>4. /\ count' \in [Counters -> Nat] /\ count'["seen"] = uncommitted_total
        /\ count'["finished"] = count["finished"] + (uncommitted_total - count["seen"])
        /\ \A c \in Counters \ {"seen", "finished"} : count'[c] = count[c]
    BY <1>1, <1>3 DEF catch_up, Counters
  <1>5. \A v : Settles(v)' = Settles(v)
    BY DEF Settles
  <1> QED
    BY <1>1, <1>2, <1>3, <1>4, <1>5 DEF CountOK, Counters

\* A worker counts what it settles.
LEMMA CountWorker ==
  ASSUME PlaceInv, CountOK, NEW w \in Workers, WorkerStep(w)
  PROVE  CountOK'
  <1>0. UNCHANGED phase
    BY DEF WorkerStep, Claim, ProbeBody, Verdict, Acquire, FullFileHash, Send
  <1>1. CASE UNCHANGED <<count, result>>
    BY <1>0, <1>1, CountFrame
  <1>2. CASE Claim(w) /\ cursor <= Len(files)
    <2> DEFINE p == files[cursor]
    <2>1. /\ p \in Paths /\ Unclaimed(p)
      BY <1>2, ClaimedAway DEF Claim, OnePlace, PlaceInv
    <2>2. phase \notin {"walk", "select"} /\ phase' \notin {"prune", "delete", "prune_error", "ok"}
      BY <1>0, <1>2 DEF Claim, InPipeline
    <2>3. PendingOK /\ result[p] = "pending"
      BY <2>1, <2>2 DEF PlaceInv, PendingOK, Placed
    <2>4. cursor \in Nat /\ Len(files) \in Nat
      BY DEF PlaceInv, HonestInv, ShapeOK
    <2>5. Failed(p) \/ UNCHANGED <<count, result>>
      BY <1>2, <2>4 DEF Claim
    <2> QED
      BY <1>1, <2>1, <2>2, <2>3, <2>5, CountDrop
  <1>3. CASE Verdict(w)
    <2> DEFINE p == worker[w].unit.path
    <2>1. /\ WorkerOK(worker[w]) /\ worker[w].pc = "restat" /\ FlowOK /\ PendingOK
      BY <1>3, OfWorker DEF PlaceInv, Verdict
    <2>2. p \in Paths /\ Probed(p)
      BY <2>1 DEF WorkerOK, Probed
    <2>3. phase \notin {"walk", "select"} /\ phase' \notin {"prune", "delete", "prune_error", "ok"}
      BY <1>0, <2>1 DEF FlowOK, Exited, Idle
    <2>4. result[p] = "pending"
      BY <2>1, <2>2, <2>3 DEF PendingOK, Placed
    <2>5. \/ Failed(p)
          \/ /\ count' = [count EXCEPT !["raced"] = @ + 1]
             /\ result' = [result EXCEPT ![p] = "raced"]
          \/ UNCHANGED <<count, result>>
      BY <1>3 DEF Verdict
    <2> QED
      BY <1>1, <2>1, <2>2, <2>3, <2>4, <2>5, CountDrop
  <1>4. cursor \in Nat /\ Len(files) \in Nat
    BY DEF PlaceInv, HonestInv, ShapeOK
  <1> QED
    BY <1>1, <1>2, <1>3, <1>4 DEF WorkerStep, Claim, ProbeBody, Acquire, FullFileHash, Send

\* A sequence without repetitions is as long as the set of its members.
LEMMA DistinctLen ==
  ASSUME NEW d \in Seq(Paths), Distinct(d)
  PROVE  LET D == {d[i] : i \in 1..Len(d)}
         IN  D \subseteq Paths /\ IsFiniteSet(D) /\ Cardinality(D) = Len(d)
  <1> DEFINE D == {d[i] : i \in 1..Len(d)}
             f == [i \in 1..Len(d) |-> d[i]]
  <1>1. Len(d) \in Nat /\ D \subseteq Paths
    OBVIOUS
  <1>2. f \in Bijection(1..Len(d), D)
    BY DEF Bijection, Injection, Surjection, IsInjective, Distinct
  <1>3. IsFiniteSet(1..Len(d)) /\ Cardinality(1..Len(d)) = Len(d)
    BY <1>1, FS_Interval
  <1>4. ExistsBijection(1..Len(d), D)
    BY <1>2 DEF ExistsBijection
  <1> HIDE DEF D, f
  <1>5. IsFiniteSet(D) /\ Cardinality(D) = Cardinality(1..Len(d))
    BY <1>3, <1>4, FS_Bijection
  <1> QED
    BY <1>1, <1>3, <1>5 DEF D

\* A transaction settles its files together, once each.
LEMMA SettleMany ==
  ASSUME NEW f \in [Paths -> Verdicts], NEW d \in Seq(Paths), Distinct(d),
         \A i \in 1..Len(d) : f[d[i]] = "pending"
  PROVE  LET g == [p \in Paths |-> IF Contains(d, p) THEN "committed" ELSE f[p]]
         IN  /\ Having(g, "committed") = Having(f, "committed") + Len(d)
             /\ \A x \in Verdicts \ {"pending", "committed"} : Having(g, x) = Having(f, x)
  <1> DEFINE g == [p \in Paths |-> IF Contains(d, p) THEN "committed" ELSE f[p]]
             Of(x) == {q \in Paths : f[q] = x}
             New(x) == {q \in Paths : g[q] = x}
             D == {d[i] : i \in 1..Len(d)}
  <1>1. \A p \in Paths : g[p] = IF p \in D THEN "committed" ELSE f[p]
    BY DEF Contains
  <1>2. \A p \in D : f[p] = "pending"
    OBVIOUS
  <1>3. D \subseteq Paths /\ IsFiniteSet(D) /\ Cardinality(D) = Len(d)
    BY DistinctLen
  <1>4. New("committed") = Of("committed") \cup D /\ Of("committed") \cap D = {}
    BY <1>1, <1>2, <1>3
  <1>5. \A x \in Verdicts \ {"pending", "committed"} : New(x) = Of(x)
    BY <1>1, <1>2
  <1>6. IsFiniteSet(Of("committed"))
    BY HavingType
  <1>7. Cardinality(New("committed")) = Cardinality(Of("committed")) + Len(d)
    <2> DEFINE A == Of("committed")
    <2>1. IsFiniteSet(A) /\ A \cap D = {} /\ New("committed") = A \cup D
      BY <1>4, <1>6
    <2>2. Len(d) \in Nat
      OBVIOUS
    <2> HIDE DEF D, A
    <2>3. Cardinality(A \cup D) = Cardinality(A) + Cardinality(D) - Cardinality(A \cap D)
      BY <1>3, <2>1, FS_Union
    <2>4. Cardinality(A \cap D) = 0 /\ Cardinality(A) \in Nat
      BY <2>1, FS_EmptySet, FS_CardinalityType
    <2>5. Cardinality(A \cup D) = Cardinality(A) + Len(d)
      BY <1>3, <2>2, <2>3, <2>4
    <2> QED
      BY <2>1, <2>5 DEF A
  <1> QED
    BY <1>5, <1>7 DEF Having

\* A run starts to count from zero.
LEMMA CountSelect ==
  ASSUME PlaceInv, CountOK, Select
  PROVE  CountOK'
  <1>1. /\ count \in [Counters -> Nat] /\ files \in Seq(Paths) /\ phase = "select"
        /\ phase' = "recv" /\ \A p \in Paths : result[p] = "idle"
    BY DEF CountOK, PlaceInv, HonestInv, ShapeOK, PendingOK, Select
  <1>2. \A p \in Paths : result'[p] \in {"pending", "idle"}
    BY DEF Select
  <1>3. ASSUME NEW v \in {"committed", "failed", "raced"}
        PROVE  Settles(v) = 0 /\ Settles(v)' = 0
    <2>1. {p \in Paths : result[p] = v} = {} /\ {p \in Paths : result'[p] = v} = {}
      BY <1>1, <1>2
    <2> QED
      BY <2>1, FS_EmptySet DEF Settles
  <1>4. \A T : Tally(T) \in Nat
    <2>1. IsFiniteSet(1..Len(files))
      BY <1>1, FS_Interval
    <2> QED
      BY <2>1, FS_Subset, FS_CardinalityType DEF Tally
  <1>5. CASE count' = count
    BY <1>1, <1>3, <1>5 DEF CountOK
  <1>6. CASE opts.mode # "scan"
    <2>1. PICK s, u \in Nat :
            count' = [count EXCEPT !["skip_failed"] = s, !["tallied"] = s, !["unchanged"] = u]
      BY <1>4, <1>6 DEF Select
    <2>2. /\ count' \in [Counters -> Nat] /\ count'["skip_failed"] = s /\ count'["tallied"] = s
          /\ \A c \in Counters \ {"skip_failed", "tallied", "unchanged"} : count'[c] = count[c]
      BY <1>1, <2>1 DEF Counters
    <2> QED
      BY <1>1, <1>3, <2>2 DEF CountOK, Counters
  <1> QED
    BY <1>5, <1>6 DEF Select

\* A commit counts its staged files, each once.
LEMMA CountCommit ==
  ASSUME PlaceInv, CountOK, FlushCommit
  PROVE  CountOK'
  <1>1. /\ OnePlace /\ PendingOK /\ txn # None /\ txn \in Transactions /\ Flushing
        /\ phase' = AfterFlush
    BY DEF FlushCommit, PlaceInv, HonestInv, ShapeOK
  <1> DEFINE d == txn.done
  <1>2. d \in Seq(Paths) /\ Distinct(d) /\ result \in [Paths -> Verdicts]
    BY <1>1 DEF Transactions, OnePlace, PendingOK
  <1>3. \A i \in 1..Len(d) : d[i] \in Paths /\ Staged(d[i])
    BY <1>1, <1>2 DEF Staged
  <1>4. \A i \in 1..Len(d) : result[d[i]] = "pending"
    BY <1>1, <1>3 DEF PendingOK, Placed, Flushing
  <1>5. result' = [p \in Paths |-> IF Contains(d, p) THEN "committed" ELSE result[p]]
    BY DEF FlushCommit
  <1>6. count' = [count EXCEPT !["scanned"] = @ + Len(d), !["finished"] = @ + Len(d)]
    BY DEF FlushCommit
  <1>7. phase' \notin {"prune", "delete", "prune_error", "ok"}
    BY <1>1 DEF Flushing, AfterFlush
  <1>8. count \in [Counters -> Nat] /\ Len(d) \in Nat
    BY <1>2 DEF CountOK
  <1> HIDE DEF d
  <1>9. /\ Having(result', "committed") = Having(result, "committed") + Len(d)
        /\ \A x \in Verdicts \ {"pending", "committed"} : Having(result', x) = Having(result, x)
    BY <1>2, <1>4, <1>5, SettleMany
  <1>10. /\ Settles("committed")' = Settles("committed") + Len(d)
         /\ Settles("failed")' = Settles("failed") /\ Settles("raced")' = Settles("raced")
    BY <1>9, SettlesHave DEF Verdicts
  <1>11. /\ count' \in [Counters -> Nat]
         /\ count'["scanned"] = count["scanned"] + Len(d)
         /\ count'["finished"] = count["finished"] + Len(d)
         /\ \A c \in Counters \ {"scanned", "finished"} : count'[c] = count[c]
    <2>1. PICK n, m \in Nat : n = count["scanned"] + Len(d) /\ m = count["finished"] + Len(d)
      BY <1>8 DEF Counters
    <2>2. count' = [count EXCEPT !["scanned"] = n, !["finished"] = m]
      BY <1>6, <2>1
    <2>3. /\ count' \in [Counters -> Nat] /\ count'["scanned"] = n /\ count'["finished"] = m
          /\ \A c \in Counters \ {"scanned", "finished"} : count'[c] = count[c]
      BY <1>8, <2>2 DEF Counters
    <2> QED
      BY <2>1, <2>3
  <1> QED
    BY <1>7, <1>8, <1>10, <1>11 DEF CountOK, Counters

\* An item the store rejects is counted as failed.
LEMMA CountItem ==
  ASSUME PlaceInv, CountOK, FlushItem
  PROVE  CountOK'
  <1> DEFINE p == Head(batch).path
  <1>1. /\ PendingOK /\ batch \in Seq(Units) /\ batch # <<>> /\ Flushing /\ phase' = phase
    BY DEF FlushItem, PlaceInv, HonestInv, ShapeOK
  <1>2. Head(batch) \in Units /\ Head(batch) = batch[1] /\ 1 \in 1..Len(batch)
    BY <1>1
  <1>3. p \in Paths /\ InSeq(batch, p)
    BY <1>2 DEF Units, InSeq
  <1>4. result[p] = "pending" /\ phase' \notin {"prune", "delete", "prune_error", "ok"}
    BY <1>1, <1>3 DEF PendingOK, Placed, Flushing
  <1>5. Failed(p) \/ UNCHANGED <<count, result>>
    BY DEF FlushItem
  <1> QED
    BY <1>1, <1>3, <1>4, <1>5, CountDrop, CountFrame

\* The calling thread counts what it settles.
LEMMA CountCaller ==
  ASSUME PlaceInv, CountOK, CallerStep
  PROVE  CountOK'
  <1>1. CASE Walk \/ Recv \/ FlushNothing \/ FlushFails \/ Teardown \/ PruneStat
    <2>1. /\ UNCHANGED <<count, result>>
          /\ phase' \in {"prune", "delete", "prune_error", "ok"}
               => phase \in {"prune", "delete", "prune_error", "ok"}
      BY <1>1 DEF Walk, Recv, Take, FlushNothing, Flushing, AfterFlush, FlushFails, Teardown, PruneStat
    <2> QED
      BY <2>1, CountFrame
  <1>2. CASE TryRecv
    BY <1>2, CountCatchUp DEF TryRecv
  <1>3. CASE Join
    <2>1. CASE phase = "join"
      <3>1. UNCHANGED <<count, result>> /\ phase' = "error"
        BY <1>3, <2>1 DEF Join
      <3> QED
        BY <3>1, CountFrame
    <2>2. CASE phase = "final"
      <3>1. count' = catch_up /\ UNCHANGED result
        BY <1>3, <2>2 DEF Join
      <3> QED
        BY <3>1, CountCatchUp
    <2> QED
      BY <1>3, <2>1, <2>2 DEF Join
  <1>4. CASE PruneDelete
    <2>1. /\ count \in [Counters -> Nat] /\ UNCHANGED result /\ phase = "delete"
          /\ \A v : Settles(v)' = Settles(v)
      BY <1>4 DEF CountOK, PruneDelete, Settles
    <2>2. CASE count' = count
      BY <2>1, <2>2 DEF CountOK
    <2>3. CASE count' = [count EXCEPT !["pruned"] = @ + 1]
      <3>1. /\ count' \in [Counters -> Nat]
            /\ \A c \in Counters \ {"pruned"} : count'[c] = count[c]
        BY <2>1, <2>3 DEF Counters
      <3> QED
        BY <2>1, <3>1 DEF CountOK, Counters
    <2> QED
      BY <1>4, <2>2, <2>3 DEF PruneDelete
  <1> QED
    BY <1>1, <1>2, <1>3, <1>4, CountSelect, CountItem, CountCommit DEF CallerStep

\* No step counts a file twice or not at all.
LEMMA CountStep == PlaceInv /\ CountOK /\ [Next]_vars => CountOK'
  <1> SUFFICES ASSUME PlaceInv, CountOK, [Next]_vars PROVE CountOK'
    OBVIOUS
  <1>1. CASE World
    <2>1. UNCHANGED <<count, result, phase>>
      BY <1>1 DEF World, Rewrite, Unlink, Move, Change, Curate
    <2> QED
      BY <2>1, CountFrame
  <1>2. CASE UNCHANGED vars
    BY <1>2, CountFrame DEF vars
  <1> QED
    BY <1>1, <1>2, CountCaller, CountWorker DEF Next

\* At first nothing is settled or counted.
LEMMA InitCount == Init => CountOK
  <1> SUFFICES ASSUME Init PROVE CountOK
    OBVIOUS
  <1>1. ASSUME NEW v \in {"committed", "failed", "raced"} PROVE Settles(v) = 0
    <2>1. {p \in Paths : result[p] = v} = {}
      BY DEF Init
    <2> QED
      BY <2>1, FS_EmptySet DEF Settles
  <1> QED
    BY <1>1 DEF Init, CountOK, Counters

-----------------------------------------------------------------------------
(***************************************************************************)
(* The type invariant.                                                     *)
(***************************************************************************)
LEMMA PlaceAndCount == Spec => [](PlaceInv /\ CountOK)
  <1>1. Init => PlaceInv /\ CountOK
    BY InitPlaceInv, InitCount
  <1>2. PlaceInv /\ CountOK /\ [Next]_vars => (PlaceInv /\ CountOK)'
    BY PlaceStep, CountStep
  <1> QED
    BY <1>1, <1>2, PTL DEF Spec

\* Every variable keeps its type, the channel never holds more than its
\* capacity nor a batch more than BATCH_FILES units, no worker claims past
\* one index beyond the last, and no two rows share an id or a path.
THEOREM ScanTypes == Spec => []TypeOK
  <1>1. PlaceInv /\ CountOK => TypeOK
    <2> SUFFICES ASSUME PlaceInv, CountOK PROVE TypeOK
      OBVIOUS
    <2>1. ShapeOK /\ HonestOK /\ FlowOK
      BY DEF PlaceInv, HonestInv
    <2>2. cursor \in 1..(Len(files) + Cardinality(Workers) + 1)
      <3> DEFINE X == {w \in Workers : worker[w].pc = "exited"}
      <3>1. /\ Cardinality(X) \in Nat /\ Cardinality(Workers) \in Nat
            /\ Cardinality(X) <= Cardinality(Workers)
        BY ScanAssumption, FS_Subset, FS_CardinalityType
      <3>2. cursor <= Len(files) + 1 + Cardinality(X)
        BY <2>1 DEF FlowOK
      <3>3. Len(files) \in Nat /\ cursor \in Nat \ {0}
        BY <2>1 DEF ShapeOK
      <3> HIDE DEF X
      <3> QED
        BY <3>1, <3>2, <3>3
    <2>3. \A p \in Paths : disk[p] = None \/ (disk[p].content \in Contents /\ disk[p].stamp \in 1..clock)
      BY <2>1 DEF ShapeOK, HonestOK, Files
    <2>4. \A r, q \in rows : (r.id = q.id \/ r.path = q.path) => r = q
      BY <2>1 DEF ShapeOK, RowsOK, Keyed
    <2>5. \A c \in Counters : count[c] \in Nat
      BY DEF CountOK
    <2>6. Len(chan) <= ChannelCap /\ Len(batch) <= BATCH_FILES
      BY <2>1 DEF FlowOK
    <2>7. /\ opts \in OptionSet /\ phase \in Phases /\ budget.in_flight \in Nat
          /\ budget.closed \in BOOLEAN /\ rx \in BOOLEAN
          /\ \A p \in 1..Len(files) : files[p] \in Paths
      BY <2>1 DEF ShapeOK
    <2> QED
      BY <2>2, <2>3, <2>4, <2>5, <2>6, <2>7 DEF TypeOK
  <1> QED
    BY <1>1, PlaceAndCount, PTL

-----------------------------------------------------------------------------
(***************************************************************************)
(* No file is passed over.                                                 *)
(***************************************************************************)

\* A file's path keeps its row when a unit is ingested, unless the file is
\* missing and another one took the row.
LEMMA IngestKeepsPaths ==
  ASSUME ShapeOK, NEW rs, RowsOK(rs), NEW u \in Units, NEW p, track_exists_at(rs, p),
         disk[p] # None
  PROVE  track_exists_at(ingest_unit(rs, u), p)
  <1>1. PICK o \in rs : o.path = p
    BY DEF track_exists_at
  <1>2. CASE ingest_unit(rs, u) = rs \cup {Row0(rs, u)}
    BY <1>1, <1>2 DEF track_exists_at
  <1>3. CASE \E r \in rs, curated \in BOOLEAN :
               /\ r.path = u.path
               /\ ingest_unit(rs, u) = (rs \ {r}) \cup {Row1(r, u, curated)}
    <2>1. PICK r \in rs, curated \in BOOLEAN :
               /\ r.path = u.path
               /\ ingest_unit(rs, u) = (rs \ {r}) \cup {Row1(r, u, curated)}
      BY <1>3
    <2>2. Row1(r, u, curated).path = r.path
      BY UpsertRows
    <2> QED
      BY <1>1, <2>1, <2>2 DEF track_exists_at
  <1>4. CASE \E r \in rs : /\ disk[r.path] = None
                           /\ ingest_unit(rs, u) = (rs \ {r}) \cup {Row2(r, u)}
    <2>1. PICK r \in rs : /\ disk[r.path] = None
                          /\ ingest_unit(rs, u) = (rs \ {r}) \cup {Row2(r, u)}
      BY <1>4
    <2>2. o # r
      BY <1>1, <2>1
    <2>3. o \in ingest_unit(rs, u)
      BY <2>1, <2>2
    <2> QED
      BY <1>1, <2>3 DEF track_exists_at
  <1>5. \/ /\ ~track_exists_at(rs, u.path)
           /\ ingest_unit(rs, u) = rs \cup {Row0(rs, u)}
        \/ \E r \in rs, curated \in BOOLEAN :
               /\ r.path = u.path /\ (opts.mode = "revalidate" => curated = TRUE)
               /\ ingest_unit(rs, u) = (rs \ {r}) \cup {Row1(r, u, curated)}
        \/ \E r \in rs : /\ ~track_exists_at(rs, u.path) /\ opts.mode = "scan"
                         /\ disk[r.path] = None
                         /\ ingest_unit(rs, u) = (rs \ {r}) \cup {Row2(r, u)}
    BY IngestCases
  <1> QED
    BY <1>2, <1>3, <1>4, <1>5

\* A step that chooses no files: whoever had a row and was there all along
\* has one still.
LEMMA SeenFrame ==
  ASSUME PlaceInv, PlaceInv', SeenOK, UNCHANGED <<opts, files>>, gone \subseteq gone',
         \A p \in Paths : disk'[p] = None => p \in gone',
         phase' \in {"walk", "select"} => phase' = phase,
         phase \in {"walk", "select"} => phase' = phase,
         opts.mode = "scan" => \A p \in Root \ gone :
              track_exists_at(rows, p) /\ (txn # None => track_exists_at(txn.rows, p))
           => track_exists_at(rows', p) /\ (txn' # None => track_exists_at(txn'.rows, p))
  PROVE  SeenOK'
  <1>1. Root \subseteq Paths
    BY ScanAssumption
  <1>2. PendingOK /\ PendingOK'
    BY DEF PlaceInv
  <1>3. phase' = "select" => \A p \in Root \ gone' : Contains(files', p)
    BY DEF SeenOK
  <1>4. phase' \notin {"walk", "select"} => \A p \in Paths : result'[p] # "idle" <=> result[p] # "idle"
    BY <1>2 DEF PendingOK
  <1>5. ASSUME phase' \notin {"walk", "select"}, opts'.mode = "scan", NEW p \in Root \ gone'
        PROVE  \/ result'[p] # "idle"
               \/ /\ track_exists_at(rows', p)
                  /\ txn' # None => track_exists_at(txn'.rows, p)
    <2>1. p \in Root \ gone /\ opts.mode = "scan" /\ phase \notin {"walk", "select"}
      BY <1>5
    <2>2. \/ result[p] # "idle"
          \/ track_exists_at(rows, p) /\ (txn # None => track_exists_at(txn.rows, p))
      BY <2>1 DEF SeenOK
    <2> QED
      BY <1>1, <1>4, <1>5, <2>1, <2>2
  <1>6. \A p : track_exists_at(rows, p)' <=> track_exists_at(rows', p)
    BY DEF track_exists_at
  <1>7. ASSUME NEW p PROVE track_exists_at(txn.rows, p)' <=> track_exists_at(txn'.rows, p)
    BY DEF track_exists_at
  <1> QED
    BY <1>3, <1>5, <1>6, <1>7 DEF SeenOK

\* The walk lists every file that is under its root all along.
LEMMA SeenWalk ==
  ASSUME PlaceInv, SeenOK, Walk
  PROVE  SeenOK'
  <1> DEFINE S == {p \in Paths : disk[p] # None}
  <1>1. opts.follow_symlinks \in BOOLEAN
    BY DEF PlaceInv, HonestInv, ShapeOK, Options
  <1>2. S \in SUBSET Paths
    OBVIOUS
  <1>3. \A T \in SUBSET Paths, follow \in BOOLEAN :
          \A p \in T \cap Root : Contains(Collect(T, follow), p)
    BY CollectAssumption
  <1>4. \A p \in S \cap Root : Contains(Collect(S, opts.follow_symlinks), p)
    BY <1>1, <1>2, <1>3, Zenon
  <1>5. files' = Collect(S, opts.follow_symlinks) /\ phase' = "select" /\ UNCHANGED <<disk, gone>>
    BY DEF Walk
  <1>6. \A p \in Root \ gone : p \in S \cap Root
    BY ScanAssumption DEF SeenOK
  <1>7. \A p \in Root \ gone : Contains(files', p)
    BY <1>4, <1>5, <1>6
  <1>8. \A p \in Paths : disk[p] = None => p \in gone
    BY DEF SeenOK
  <1>9. (\A p \in Paths : disk[p] = None => p \in gone)'
    BY <1>5, <1>8
  <1>10. (\A p \in Root \ gone : Contains(files, p))'
    BY <1>5, <1>7 DEF Contains
  <1> QED
    BY <1>5, <1>9, <1>10 DEF SeenOK

\* A scan skips only files that have a row.
LEMMA SeenSelect ==
  ASSUME PlaceInv, SeenOK, Select
  PROVE  SeenOK'
  <1> DEFINE S == {i \in 1..Len(files) : Selected(files[i])}
  <1>1. /\ files \in Seq(Paths) /\ phase = "select" /\ phase' = "recv" /\ files' = Keep(files, S)
        /\ result' = [p \in Paths |-> IF Contains(files', p) THEN "pending" ELSE "idle"]
        /\ UNCHANGED <<opts, disk, gone, rows, txn>> /\ FlowOK
    BY DEF Select, PlaceInv, HonestInv, ShapeOK
  <1>2. S \in SUBSET (1..Len(files))
    OBVIOUS
  <1>3. txn = None
    BY <1>1 DEF FlowOK, Flushing
  <1>4. ASSUME NEW p \in Root \ gone, opts.mode = "scan"
        PROVE  result'[p] # "idle" \/ track_exists_at(rows, p)
    <2>1. p \in Paths /\ Contains(files, p)
      BY <1>1, ScanAssumption DEF SeenOK
    <2>2. PICK i \in 1..Len(files) : files[i] = p
      BY <1>1, <2>1 DEF Contains
    <2>3. CASE Selected(p)
      <3>1. i \in S
        BY <2>2, <2>3
      <3> HIDE DEF S
      <3>2. \E n \in 1..Len(files') : files'[n] = p
        BY <1>1, <1>2, <2>2, <3>1, KeepProps
      <3>3. Contains(files', p)
        BY <3>2 DEF Contains
      <3> QED
        BY <1>1, <2>1, <3>3
    <2>4. CASE ~Selected(p)
      BY <1>4, <2>4 DEF Selected
    <2> QED
      BY <2>3, <2>4
  <1>5. \A p : track_exists_at(rows, p)' <=> track_exists_at(rows, p)
    BY <1>1 DEF track_exists_at
  <1> QED
    BY <1>1, <1>3, <1>4, <1>5 DEF SeenOK

\* An item of a batch takes no other file's row away.
LEMMA SeenItem ==
  ASSUME PlaceInv, PlaceInv', SeenOK, FlushItem
  PROVE  SeenOK'
  <1> DEFINE u == Head(batch)
  <1>1. /\ HonestInv /\ batch \in Seq(Units) /\ batch # <<>> /\ Flushing
        /\ UNCHANGED <<opts, files, gone, disk, phase, rows>>
    BY DEF FlushItem, PlaceInv, HonestInv, ShapeOK
  <1>2. u \in Units
    BY <1>1
  <1>3. ASSUME NEW p \in Root \ gone, track_exists_at(rows, p),
               txn # None => track_exists_at(txn.rows, p)
        PROVE  track_exists_at(txn'.rows, p)
    <2>1. disk[p] # None
      BY ScanAssumption DEF SeenOK
    <2>2. track_exists_at(Transaction.rows, p)
      BY <1>3 DEF Transaction
    <2>3. RowsOK(Transaction.rows) /\ ShapeOK
      BY <1>1, TransactionType DEF HonestInv
    <2>4. Transaction \in Transactions
      BY <1>1, TransactionType
    <2>5. track_exists_at(ingest_unit(Transaction.rows, u), p)
      BY <1>2, <2>1, <2>2, <2>3, IngestKeepsPaths
    <2>6. released(u) \in Nat
      BY <1>2, ScanAssumption DEF released, payload_weight, Units
    <2> HIDE DEF u
    <2>7. \/ txn' = [Transaction EXCEPT !.weight = @ + released(u)]
          \/ txn' = [[Transaction EXCEPT !.weight = @ + released(u)]
                        EXCEPT !.rows = ingest_unit(Transaction.rows, u), !.done = Append(@, u.path)]
      <3>1. [Transaction EXCEPT !.weight = @ + released(u)].rows = Transaction.rows
        BY <2>4, <2>6 DEF Transactions
      <3> QED
        BY <3>1 DEF FlushItem, u
    <2>8. txn'.rows = Transaction.rows \/ txn'.rows = ingest_unit(Transaction.rows, u)
      BY <2>4, <2>6, <2>7 DEF Transactions
    <2> QED
      BY <2>2, <2>5, <2>8
  <1>4. \A p \in Paths : disk'[p] = None => p \in gone'
    BY <1>1 DEF SeenOK
  <1>5. phase \notin {"walk", "select"}
    BY <1>1 DEF Flushing
  <1> QED
    BY <1>1, <1>3, <1>4, <1>5, SeenFrame

\* No step of the calling thread passes over a file.
LEMMA SeenCaller ==
  ASSUME PlaceInv, PlaceInv', SeenOK, CallerStep
  PROVE  SeenOK'
  <1>0. \A p \in Paths : disk[p] = None => p \in gone
    BY DEF SeenOK
  <1>1. CASE TryRecv \/ Recv \/ FlushNothing \/ Teardown \/ Join \/ PruneStat \/ FlushFails
    <2>1. /\ UNCHANGED <<opts, files, gone, disk, rows>>
          /\ txn' = txn \/ txn' = None
          /\ phase \notin {"walk", "select"} /\ phase' \notin {"walk", "select"}
      BY <1>1 DEF TryRecv, Recv, Take, FlushNothing, Flushing, AfterFlush, Teardown, Join, PruneStat,
                  FlushFails
    <2>2. txn' # None => txn' = txn
      BY <2>1
    <2> QED
      BY <1>0, <2>1, <2>2, SeenFrame
  <1>2. CASE FlushCommit
    <2>1. /\ UNCHANGED <<opts, files, gone, disk>> /\ rows' = txn.rows /\ txn # None /\ txn' = None
          /\ phase \notin {"walk", "select"} /\ phase' \notin {"walk", "select"}
      BY <1>2 DEF FlushCommit, Flushing, AfterFlush
    <2> QED
      BY <1>0, <2>1, SeenFrame
  <1>3. CASE PruneDelete
    <2>1. /\ UNCHANGED <<opts, files, gone, disk>>
          /\ phase \notin {"walk", "select"} /\ phase' \notin {"walk", "select"}
          /\ opts.mode = "revalidate"
      BY <1>3 DEF PruneDelete, PlaceInv, FlowOK
    <2> QED
      BY <1>0, <2>1, SeenFrame
  <1> QED
    BY <1>1, <1>2, <1>3, SeenWalk, SeenSelect, SeenItem DEF CallerStep

\* A file that other processes touch was not there all along.
LEMMA SeenWorld ==
  ASSUME PlaceInv, PlaceInv', SeenOK, World
  PROVE  SeenOK'
  <1>1. ASSUME NEW p \in Paths, NEW q, NEW c, c \in Contents, Change(p, q, c) PROVE SeenOK'
    <2> DEFINE f == [content |-> c, stamp |-> clock + 1]
    <2>1. clock \in Nat
      BY DEF PlaceInv, HonestInv, ShapeOK
    <2>2. f \in Files
      BY <1>1, <2>1 DEF Files
    <2>3. f # None
      BY <2>2, ScanAssumption
    <2>4. disk' = [x \in Paths |-> IF x = q THEN f ELSE IF x = p THEN None ELSE disk[x]]
      BY <1>1 DEF Change
    <2>5. gone' = IF q = p THEN gone ELSE gone \cup {p}
      BY <1>1 DEF Change
    <2> HIDE DEF f
    <2>6. ASSUME NEW x \in Paths, disk'[x] = None PROVE x \in gone'
      BY <2>3, <2>4, <2>5, <2>6 DEF SeenOK
    <2>7. UNCHANGED <<opts, files, phase, rows, txn>> /\ gone \subseteq gone'
      BY <1>1, <2>5 DEF Change
    <2> QED
      BY <2>6, <2>7, SeenFrame
  <1>2. CASE Curate
    <2>1. /\ UNCHANGED <<opts, files, phase, disk, gone, txn>> /\ txn = None
      BY <1>2 DEF Curate
    <2>2. PICK r \in rows : rows' = (rows \ {r}) \cup {[r EXCEPT !.curated = TRUE]}
      BY <1>2 DEF Curate
    <2>3. r \in Rows
      BY DEF PlaceInv, HonestInv, ShapeOK, RowsOK
    <2>4. [r EXCEPT !.curated = TRUE].path = r.path
      BY <2>3 DEF Rows
    <2>5. \A p : track_exists_at(rows, p) => track_exists_at(rows', p)
      BY <2>2, <2>4 DEF track_exists_at
    <2>6. \A p \in Paths : disk'[p] = None => p \in gone'
      BY <2>1 DEF SeenOK
    <2> QED
      BY <2>1, <2>5, <2>6, SeenFrame
  <1>3. \A p \in Paths : disk[p] # None => disk[p].content \in Contents
    BY DEF PlaceInv, HonestInv, ShapeOK, Files
  <1>4. \A p \in Paths : \A q, c : Change(p, q, c) => disk[p] # None
    BY DEF Change
  <1> QED
    BY <1>1, <1>2, <1>3, <1>4 DEF World, Rewrite, Unlink, Move

\* No step passes over a file that was there all along.
LEMMA SeenStep == PlaceInv /\ SeenOK /\ [Next]_vars => SeenOK'
  <1> SUFFICES ASSUME PlaceInv, SeenOK, [Next]_vars PROVE SeenOK'
    OBVIOUS
  <1>0. PlaceInv'
    BY PlaceStep
  <1>1. CASE UNCHANGED vars \/ \E w \in Workers : WorkerStep(w)
    <2>1. UNCHANGED <<opts, files, phase, disk, gone, rows, txn>>
      BY <1>1 DEF vars, WorkerStep, Claim, ProbeBody, Verdict, Acquire, FullFileHash, Send
    <2>2. \A p \in Paths : disk'[p] = None => p \in gone'
      BY <2>1 DEF SeenOK
    <2> QED
      BY <1>0, <2>1, <2>2, SeenFrame
  <1> QED
    BY <1>0, <1>1, SeenCaller, SeenWorld DEF Next

\* At first no run has passed over anything.
LEMMA InitSeen == Init => SeenOK
  <1> SUFFICES ASSUME Init PROVE SeenOK
    OBVIOUS
  <1>1. PICK d \in InitialFiles :
          /\ disk = [p \in Paths |-> IF d[p] = None THEN None ELSE [content |-> d[p], stamp |-> p]]
          /\ gone = {p \in Paths : d[p] = None}
    BY DEF Init
  <1>2. d \in [Paths -> Contents \cup {None}] /\ Paths \subseteq Nat
    <2>1. Cardinality(Paths) \in Nat
      BY ScanAssumption, FS_CardinalityType
    <2> QED
      BY <2>1, ScanAssumption
  <1>3. ASSUME NEW p \in Paths, disk[p] = None PROVE p \in gone
    <2>1. CASE d[p] # None
      <3>1. [content |-> d[p], stamp |-> p] \in Files
        BY <1>2, <2>1 DEF Files
      <3>2. disk[p] = [content |-> d[p], stamp |-> p]
        BY <1>1, <2>1
      <3> QED
        BY <1>3, <3>1, <3>2, ScanAssumption
    <2> QED
      BY <1>1, <2>1
  <1>4. phase = "walk"
    BY DEF Init
  <1> QED
    BY <1>3, <1>4 DEF SeenOK

\* The two debug_asserts at the end of run_pipeline and what they are for: a
\* run that succeeds has settled every file it dispatched, once; its counters
\* partition them, every failure has a reason and progress reached the end;
\* and a scan has passed over no file that was under its root all along.
THEOREM EveryFileSettled == Spec => []EveryFileAccountedFor
  <1>1. PlaceInv /\ CountOK /\ SeenOK => EveryFileAccountedFor
    <2> SUFFICES ASSUME PlaceInv, CountOK, SeenOK, phase \in {"prune", "ok"}
                 PROVE  /\ Settles("pending") = 0
                        /\ count["scanned"] = Settles("committed")
                        /\ count["failed"] = Settles("failed") /\ count["raced"] = Settles("raced")
                        /\ count["tallied"] - count["skip_failed"] = count["failed"]
                        /\ count["finished"] = Len(files)
                        /\ opts.mode = "scan" =>
                             \A p \in Root \ gone : result[p] # "idle" \/ track_exists_at(rows, p)
      BY DEF EveryFileAccountedFor
    <2> DEFINE Of(v) == {p \in Paths : result[p] = v}
               C == Of("committed")
               F == Of("failed")
               R == Of("raced")
    <2>1. /\ FlowOK /\ OnePlace /\ PendingOK /\ files \in Seq(Paths)
          /\ Len(files) \in Nat /\ cursor \in Nat
      BY DEF PlaceInv, HonestInv, ShapeOK
    <2>2. /\ \A w \in Workers : worker[w].pc = "exited"
          /\ chan = <<>> /\ batch = <<>> /\ txn = None /\ cursor > Len(files)
      BY <2>1, ScanAssumption DEF FlowOK, Exited, Flushing
    <2>3. Len(chan) = 0 /\ Len(batch) = 0
      BY <2>2
    <2>4. \A p \in Paths : ~Placed(p)
      BY <2>1, <2>2, <2>3 DEF Placed, Unclaimed, Probed, InSeq, Staged
    <2>5. \A p \in Paths : result[p] # "pending"
      BY <2>1, <2>4 DEF PendingOK
    <2>6. Settles("pending") = 0
      <3>1. Of("pending") = {}
        BY <2>5
      <3> QED
        BY <3>1, FS_EmptySet DEF Settles
    <2>7. count["finished"] = Settles("committed") + (Settles("failed") + Settles("raced"))
      BY DEF CountOK
    <2>8. {files[i] : i \in 1..Len(files)} = C \cup (F \cup R)
      <3>1. \A p \in Paths : p \in C \cup (F \cup R) <=> result[p] # "idle"
        BY <2>1, <2>5 DEF PendingOK, Verdicts
      <3>2. \A p \in Paths : result[p] # "idle" <=> \E i \in 1..Len(files) : files[i] = p
        BY <2>1 DEF PendingOK
      <3>3. \A i \in 1..Len(files) : files[i] \in Paths
        BY <2>1
      <3> QED
        BY <3>1, <3>2, <3>3
    <2>9. Cardinality({files[i] : i \in 1..Len(files)}) = Len(files)
      BY <2>1, DistinctLen DEF OnePlace
    <2>10. IsFiniteSet(C) /\ IsFiniteSet(F) /\ IsFiniteSet(R)
      BY HavingType
    <2>11. C \cap (F \cup R) = {} /\ F \cap R = {}
      OBVIOUS
    <2>12. Cardinality(C) = Settles("committed") /\ Cardinality(F) = Settles("failed")
           /\ Cardinality(R) = Settles("raced")
      BY DEF Settles
    <2> HIDE DEF C, F, R
    <2>13. IsFiniteSet(F \cup R) /\ Cardinality(F \cup R) = Cardinality(F) + Cardinality(R)
      <3>1. /\ IsFiniteSet(F \cup R)
            /\ Cardinality(F \cup R) = Cardinality(F) + Cardinality(R) - Cardinality(F \cap R)
        BY <2>10, FS_Union
      <3>2. Cardinality(F \cap R) = 0 /\ Cardinality(F) \in Nat /\ Cardinality(R) \in Nat
        BY <2>10, <2>11, FS_EmptySet, FS_CardinalityType
      <3> QED
        BY <3>1, <3>2
    <2>14. Cardinality(C \cup (F \cup R)) = Cardinality(C) + Cardinality(F \cup R)
      <3>1. Cardinality(C \cup (F \cup R))
              = Cardinality(C) + Cardinality(F \cup R) - Cardinality(C \cap (F \cup R))
        BY <2>10, <2>13, FS_Union
      <3>2. /\ Cardinality(C \cap (F \cup R)) = 0
            /\ Cardinality(C) \in Nat /\ Cardinality(F \cup R) \in Nat
        BY <2>10, <2>11, <2>13, FS_EmptySet, FS_CardinalityType
      <3> QED
        BY <3>1, <3>2
    <2>15. count["finished"] = Len(files)
      BY <2>7, <2>8, <2>9, <2>12, <2>13, <2>14
    <2>16. count["tallied"] - count["skip_failed"] = count["failed"]
      BY DEF CountOK, Counters
    <2> QED
      BY <2>2, <2>6, <2>15, <2>16 DEF CountOK, SeenOK
  <1>2. Init => PlaceInv /\ CountOK /\ SeenOK
    BY InitPlaceInv, InitCount, InitSeen
  <1>3. PlaceInv /\ CountOK /\ SeenOK /\ [Next]_vars => (PlaceInv /\ CountOK /\ SeenOK)'
    BY PlaceStep, CountStep, SeenStep
  <1> QED
    BY <1>1, <1>2, <1>3, PTL DEF Spec

-----------------------------------------------------------------------------
(***************************************************************************)
(* Curated tracks.                                                         *)
(***************************************************************************)

\* A set of numbers has a least member.
LessThan == {ss \in Nat \X Nat : ss[1] < ss[2]}

\* A set of numbers that is not empty has a least one.
LEMMA LeastNat ==
  ASSUME NEW T \in SUBSET Nat, T # {}
  PROVE  \E x \in T : \A y \in T : x <= y
  <1>1. IsWellFoundedOn(LessThan, Nat)
    BY NatLessThanWellFounded, Zenon DEF OpToRel, LessThan
  <1>2. PICK x \in T : \A y \in T : ~(<<y, x>> \in LessThan)
    BY <1>1, WFMin
  <1>3. ASSUME NEW y \in T PROVE x <= y
    <2>1. ~(y < x)
      BY <1>2 DEF LessThan
    <2> QED
      BY <2>1
  <1> QED
    BY <1>3

\* The row the prune pass looks at next is one it has yet to look at.
LEMMA NextRowInTodo ==
  ASSUME todo \subseteq Rows, todo # {}
  PROVE  NextRow \in todo
  <1> DEFINE T == {r.id : r \in todo}
  <1>1. T \in SUBSET Nat /\ T # {}
    BY DEF Rows
  <1>2. PICK x \in T : \A y \in T : x <= y
    BY <1>1, LeastNat
  <1>3. \E r \in todo : \A q \in todo : r.id <= q.id
    BY <1>2
  <1> QED
    BY <1>3 DEF NextRow

\* An ingest keeps a curated row, but for that of a missing file.
LEMMA IngestKeepsRow ==
  ASSUME ShapeOK, NEW rs, RowsOK(rs), NEW u \in Units, NEW r,
         opts.mode = "scan" => ~track_exists_at(rs, u.path),
         Kept(r, rs), opts.mode = "scan" => disk[r.path] # None
  PROVE  Kept(r, ingest_unit(rs, u))
  <1>1. PICK o \in rs : o.id = r.id /\ o.path = r.path /\ (r.curated => o.curated)
    BY DEF Kept
  <1>2. CASE ingest_unit(rs, u) = rs \cup {Row0(rs, u)}
    BY <1>1, <1>2 DEF Kept
  <1>3. CASE \E q \in rs, curated \in BOOLEAN :
               /\ q.path = u.path /\ (opts.mode = "revalidate" => curated = TRUE)
               /\ ingest_unit(rs, u) = (rs \ {q}) \cup {Row1(q, u, curated)}
    <2>1. PICK q \in rs, curated \in BOOLEAN :
               /\ q.path = u.path /\ (opts.mode = "revalidate" => curated = TRUE)
               /\ ingest_unit(rs, u) = (rs \ {q}) \cup {Row1(q, u, curated)}
      BY <1>3
    <2>2. opts.mode = "revalidate"
      BY <2>1 DEF track_exists_at, ShapeOK, Options
    <2>3. /\ Row1(q, u, curated).id = q.id /\ Row1(q, u, curated).path = q.path
          /\ Row1(q, u, curated).curated = (curated /\ q.curated)
      BY UpsertRows
    <2>4. CASE o = q
      <3>1. r.curated => Row1(q, u, curated).curated
        BY <1>1, <2>1, <2>2, <2>3, <2>4
      <3> QED
        BY <1>1, <2>1, <2>3, <2>4, <3>1 DEF Kept
    <2>5. CASE o # q
      BY <1>1, <2>1, <2>5 DEF Kept
    <2> QED
      BY <2>4, <2>5
  <1>4. CASE \E q \in rs : /\ opts.mode = "scan" /\ disk[q.path] = None
                           /\ ingest_unit(rs, u) = (rs \ {q}) \cup {Row2(q, u)}
    BY <1>1, <1>4 DEF Kept
  <1> QED
    BY <1>2, <1>3, <1>4, IngestCases

\* An ingest gives a row to no path but its own.
LEMMA IngestAddsPath ==
  ASSUME ShapeOK, NEW rs, RowsOK(rs), NEW u \in Units, NEW p,
         track_exists_at(ingest_unit(rs, u), p), p # u.path
  PROVE  track_exists_at(rs, p)
  <1>1. PICK o \in ingest_unit(rs, u) : o.path = p
    BY DEF track_exists_at
  <1>2. CASE ingest_unit(rs, u) = rs \cup {Row0(rs, u)}
    BY <1>1, <1>2 DEF track_exists_at, Row0
  <1>3. CASE \E r \in rs, curated \in BOOLEAN :
               /\ r.path = u.path
               /\ ingest_unit(rs, u) = (rs \ {r}) \cup {Row1(r, u, curated)}
    <2>1. PICK r \in rs, curated \in BOOLEAN :
               /\ r.path = u.path
               /\ ingest_unit(rs, u) = (rs \ {r}) \cup {Row1(r, u, curated)}
      BY <1>3
    <2>2. Row1(r, u, curated).path = r.path
      BY UpsertRows
    <2> QED
      BY <1>1, <2>1, <2>2 DEF track_exists_at
  <1>4. CASE \E r \in rs : ingest_unit(rs, u) = (rs \ {r}) \cup {Row2(r, u)}
    <2>1. PICK r \in rs : ingest_unit(rs, u) = (rs \ {r}) \cup {Row2(r, u)}
      BY <1>4
    <2>2. Row2(r, u).path = u.path
      BY RetargetRow
    <2> QED
      BY <1>1, <2>1, <2>2 DEF track_exists_at
  <1> QED
    BY <1>2, <1>3, <1>4, IngestCases

\* A step that writes no row and chooses no file.
LEMMA CurationFrame ==
  ASSUME CurationOK, UNCHANGED <<opts, rows, todo>>, gone \subseteq gone',
         txn' = txn \/ txn' = None,
         \A p \in Paths : result'[p] = "pending" => result[p] = "pending",
         phase' \in {"prune", "delete"} => phase' = phase
  PROVE  CurationOK'
  <1>1. StagedKeeps'
    BY DEF CurationOK, StagedKeeps, Protected, Kept
  <1>2. PendingIsNew'
    <2>1. \A p : txn' # None => (Staged(p)' <=> Staged(p))
      BY DEF Staged
    <2>2. \A p : /\ track_exists_at(rows, p)' <=> track_exists_at(rows, p)
                 /\ txn' # None => (track_exists_at(txn.rows, p)' <=> track_exists_at(txn.rows, p))
      BY DEF track_exists_at
    <2> QED
      BY <2>1, <2>2 DEF CurationOK, PendingIsNew
  <1>3. TodoOK'
    BY DEF CurationOK, TodoOK, NextRow, InScope
  <1> QED
    BY <1>1, <1>2, <1>3 DEF CurationOK

\* Steps that leave the rows and the transaction alone keep curation.
LEMMA CurationQuiet ==
  ASSUME PlaceInv, CurationOK,
         \/ UNCHANGED vars
         \/ \E w \in Workers : WorkerStep(w)
         \/ World /\ ~Curate
         \/ Walk \/ TryRecv \/ Recv \/ FlushNothing \/ FlushFails \/ Teardown
  PROVE  CurationOK'
  <1>1. result \in [Paths -> Verdicts]
    BY DEF PlaceInv, PendingOK
  <1>2. CASE \E w \in Workers : WorkerStep(w)
    <2>1. UNCHANGED <<opts, rows, todo, gone, txn, phase>>
      BY <1>2 DEF WorkerStep, Claim, ProbeBody, Verdict, Acquire, FullFileHash, Send
    <2>2. \/ UNCHANGED result
          \/ \E p, v : v \in {"failed", "raced"} /\ result' = [result EXCEPT ![p] = v]
      BY <1>2 DEF WorkerStep, Claim, ProbeBody, Verdict, Acquire, FullFileHash, Send, Failed
    <2>3. \A p \in Paths : result'[p] = "pending" => result[p] = "pending"
      BY <1>1, <2>2
    <2> QED
      BY <2>1, <2>3, CurationFrame
  <1>3. CASE World /\ ~Curate
    <2>1. UNCHANGED <<opts, rows, todo, txn, phase, result>> /\ gone \subseteq gone'
      BY <1>3 DEF World, Rewrite, Unlink, Move, Change
    <2> QED
      BY <2>1, CurationFrame
  <1>4. CASE UNCHANGED vars
    BY <1>4, CurationFrame DEF vars
  <1>5. CASE Walk \/ TryRecv \/ Recv \/ FlushNothing \/ FlushFails \/ Teardown
    <2>1. /\ UNCHANGED <<opts, rows, todo, gone, result>>
          /\ txn' = txn \/ txn' = None
          /\ phase' \notin {"prune", "delete"}
      BY <1>5 DEF Walk, TryRecv, Recv, Take, FlushNothing, Flushing, AfterFlush, FlushFails, Teardown
    <2> QED
      BY <2>1, CurationFrame
  <1> QED
    BY <1>2, <1>3, <1>4, <1>5

\* A bare scan dispatches files that have no row.
LEMMA CurationSelect ==
  ASSUME PlaceInv, CurationOK, Select
  PROVE  CurationOK'
  <1> DEFINE S == {i \in 1..Len(files) : Selected(files[i])}
  <1>1. /\ files \in Seq(Paths) /\ phase = "select" /\ phase' = "recv" /\ files' = Keep(files, S)
        /\ result' = [p \in Paths |-> IF Contains(files', p) THEN "pending" ELSE "idle"]
        /\ UNCHANGED <<opts, rows, txn, disk>> /\ FlowOK
    BY DEF Select, PlaceInv, HonestInv, ShapeOK
  <1>2. S \in SUBSET (1..Len(files))
    OBVIOUS
  <1> HIDE DEF S
  <1>3. \A n \in 1..Len(files') : Nth(S, n) \in S /\ files'[n] = files[Nth(S, n)]
    BY <1>1, <1>2, KeepProps
  <1>4. txn = None /\ txn' = None
    BY <1>1 DEF FlowOK, Flushing
  <1>5. ASSUME NEW p \in Paths, result'[p] = "pending", ~opts.force, opts.mode = "scan"
        PROVE  ~track_exists_at(rows, p)
    <2>1. Contains(files', p)
      BY <1>1, <1>5
    <2>2. PICK n \in 1..Len(files') : files'[n] = p
      BY <2>1 DEF Contains
    <2>3. Nth(S, n) \in S /\ files[Nth(S, n)] = p
      BY <1>3, <2>2
    <2>4. Selected(p)
      BY <2>3 DEF S
    <2> QED
      BY <1>5, <2>4 DEF Selected
  <1>6. \A p : track_exists_at(rows, p)' <=> track_exists_at(rows, p)
    BY <1>1 DEF track_exists_at
  <1>7. PendingIsNew'
    BY <1>1, <1>4, <1>5, <1>6 DEF PendingIsNew
  <1> QED
    BY <1>1, <1>4, <1>7 DEF CurationOK, StagedKeeps, TodoOK

\* An item of a batch retargets a row only if its file is gone, and touches
\* no curated tag.
LEMMA CurationItem ==
  ASSUME PlaceInv, SeenOK, CurationOK, FlushItem
  PROVE  CurationOK'
  <1> DEFINE u == Head(batch)
             t == Transaction
             p == u.path
  <1>1. /\ HonestInv /\ ShapeOK /\ OnePlace /\ PendingOK /\ batch \in Seq(Units) /\ batch # <<>>
        /\ Flushing /\ UNCHANGED <<opts, rows, disk, gone, phase>>
    BY DEF FlushItem, PlaceInv, HonestInv, ShapeOK
  <1>2. u \in Units /\ u = batch[1] /\ 1 \in 1..Len(batch)
    BY <1>1
  <1>3. /\ p \in Paths /\ InSeq(batch, p) /\ result[p] = "pending" /\ ~Staged(p)
    <2>1. p \in Paths /\ InSeq(batch, p)
      BY <1>2 DEF Units, InSeq
    <2> QED
      BY <1>1, <2>1 DEF PendingOK, Placed, OnePlace, Flushing
  <1>4. t \in Transactions /\ RowsOK(t.rows) /\ released(u) \in Nat
    BY <1>1, <1>2, TransactionType, ScanAssumption DEF released, payload_weight, Units
  <1>5. ASSUME ~opts.force
        PROVE  /\ opts.mode = "scan" => ~track_exists_at(t.rows, p)
               /\ \A r \in rows : Protected(r) => Kept(r, t.rows)
    <2>1. CASE txn = None
      <3>1. t.rows = rows
        BY <2>1 DEF Transaction
      <3>2. \A r \in rows : Kept(r, rows)
        BY DEF Kept
      <3> QED
        BY <1>3, <1>5, <3>1, <3>2 DEF CurationOK, PendingIsNew
    <2>2. CASE txn # None
      <3>1. t = txn
        BY <2>2 DEF Transaction
      <3> QED
        BY <1>3, <1>5, <2>2, <3>1 DEF CurationOK, PendingIsNew, StagedKeeps
    <2> QED
      BY <2>1, <2>2
  <1> HIDE DEF u, t, p
  <1>6. \/ /\ txn' = [t EXCEPT !.weight = @ + released(u)] /\ result' = [result EXCEPT ![p] = "failed"]
        \/ /\ txn' = [[t EXCEPT !.weight = @ + released(u)]
                        EXCEPT !.rows = ingest_unit(t.rows, u), !.done = Append(@, p)]
           /\ UNCHANGED result
    <2>1. [t EXCEPT !.weight = @ + released(u)].rows = t.rows
      BY <1>4 DEF Transactions
    <2> QED
      BY <2>1 DEF FlushItem, Failed, u, t, p
  <1>7. txn' # None
    BY FlushItemTxn DEF PlaceInv
  <1>8. /\ t.done \in Seq(Paths)
        /\ \/ /\ txn'.rows = t.rows /\ txn'.done = t.done
              /\ result' = [result EXCEPT ![p] = "failed"]
           \/ /\ txn'.rows = ingest_unit(t.rows, u) /\ txn'.done = Append(t.done, p)
              /\ UNCHANGED result
    BY <1>4, <1>6 DEF Transactions
  <1>9. ASSUME ~opts.force, NEW r \in rows, Protected(r) PROVE Kept(r, txn'.rows)
    <2>1. Kept(r, t.rows) /\ (opts.mode = "scan" => ~track_exists_at(t.rows, p))
      BY <1>5, <1>9
    <2>2. r.path \in Paths
      BY <1>1 DEF ShapeOK, RowsOK, Rows
    <2>3. opts.mode = "scan" => disk[r.path] # None
      BY <1>9, <2>2 DEF Protected, SeenOK
    <2>4. Kept(r, ingest_unit(t.rows, u))
      BY <1>1, <1>2, <1>4, <2>1, <2>3, IngestKeepsRow DEF p, u
    <2> QED
      BY <1>8, <2>1, <2>4
  <1>10. StagedKeeps'
    BY <1>1, <1>9 DEF StagedKeeps, Protected, Kept
  <1>11. ASSUME ~opts.force, opts.mode = "scan", NEW x \in Paths, result'[x] = "pending"
         PROVE  /\ ~track_exists_at(rows, x)
                /\ track_exists_at(txn'.rows, x) => \E i \in 1..Len(txn'.done) : txn'.done[i] = x
    <2>1. result[x] = "pending"
      BY <1>1, <1>8, <1>11 DEF PendingOK
    <2>2. ~track_exists_at(rows, x)
      BY <1>11, <2>1 DEF CurationOK, PendingIsNew
    <2>3. track_exists_at(t.rows, x) => \E i \in 1..Len(t.done) : t.done[i] = x
      <3>1. CASE txn = None
        BY <2>2, <3>1 DEF t, Transaction
      <3>2. CASE txn # None
        BY <1>11, <2>1, <3>2 DEF CurationOK, PendingIsNew, Staged, t, Transaction
      <3> QED
        BY <3>1, <3>2
    <2>4. CASE txn'.rows = t.rows /\ txn'.done = t.done
      BY <2>2, <2>3, <2>4
    <2>5. CASE txn'.rows = ingest_unit(t.rows, u) /\ txn'.done = Append(t.done, p)
      <3>1. /\ Len(txn'.done) = Len(t.done) + 1 /\ txn'.done[Len(t.done) + 1] = p
            /\ Len(t.done) \in Nat
            /\ \A i \in 1..Len(t.done) : txn'.done[i] = t.done[i]
        BY <1>3, <1>8, <2>5
      <3>2. CASE x = p
        <4>1. Len(t.done) + 1 \in 1..Len(txn'.done)
          BY <3>1
        <4> QED
          BY <2>2, <3>1, <3>2, <4>1
      <3>3. CASE x # p
        <4>1. track_exists_at(txn'.rows, x) => track_exists_at(t.rows, x)
          BY <1>1, <1>2, <1>4, <2>5, <3>3, IngestAddsPath DEF p, u
        <4>2. \A i \in 1..Len(t.done) : i \in 1..Len(txn'.done)
          BY <3>1
        <4> QED
          BY <2>2, <2>3, <3>1, <4>1, <4>2
      <3> QED
        BY <3>2, <3>3
    <2> QED
      BY <1>8, <2>4, <2>5
  <1>12. PendingIsNew'
    BY <1>1, <1>11 DEF PendingIsNew, Staged, track_exists_at
  <1>13. TodoOK'
    BY <1>1 DEF TodoOK, Flushing
  <1> QED
    BY <1>10, <1>12, <1>13 DEF CurationOK

\* A commit publishes rows that keep curation.
LEMMA CurationCommit ==
  ASSUME PlaceInv, CurationOK, FlushCommit
  PROVE  CurationOK'
  <1>1. /\ PendingOK /\ txn # None /\ txn \in Transactions /\ Flushing
        /\ rows' = txn.rows /\ txn' = None /\ opts' = opts /\ phase' = AfterFlush
        /\ result' = [p \in Paths |-> IF Contains(txn.done, p) THEN "committed" ELSE result[p]]
    BY DEF FlushCommit, PlaceInv, HonestInv, ShapeOK
  <1>2. ASSUME NEW p \in Paths, result'[p] = "pending"
        PROVE  result[p] = "pending" /\ ~Staged(p)
    BY <1>1, <1>2 DEF Staged, Contains
  <1>3. PendingIsNew'
    BY <1>1, <1>2 DEF CurationOK, PendingIsNew, track_exists_at
  <1> QED
    BY <1>1, <1>3 DEF CurationOK, StagedKeeps, TodoOK, Flushing, AfterFlush

\* The prune pass deletes a row only if its file was missing.
LEMMA CurationPrune ==
  ASSUME PlaceInv, SeenOK, CurationOK, Join \/ PruneStat \/ PruneDelete
  PROVE  CurationOK'
  <1>1. /\ UNCHANGED <<opts, txn, result, gone, disk>> /\ ShapeOK /\ FlowOK /\ ShapeOK'
    BY HonestStep DEF Join, PruneStat, PruneDelete, PlaceInv, HonestInv, Next, CallerStep
  <1>2. txn = None
    BY <1>1 DEF Join, PruneStat, PruneDelete, FlowOK, Flushing
  <1>3. \A p : track_exists_at(rows, p)' => track_exists_at(rows, p)
    BY DEF Join, PruneStat, PruneDelete, track_exists_at
  <1>4. StagedKeeps' /\ PendingIsNew'
    BY <1>1, <1>2, <1>3 DEF CurationOK, StagedKeeps, PendingIsNew
  <1>5. TodoOK'
    <2>1. CASE Join
      <3>1. rows' = rows /\ (phase' = "prune" => todo' = rows) /\ phase' # "delete"
        BY <2>1 DEF Join
      <3> QED
        BY <1>1, <3>1 DEF TodoOK, ShapeOK, RowsOK, Keyed
    <2>2. CASE PruneStat
      <3>1. /\ rows' = rows /\ phase = "prune" /\ todo' \subseteq todo
            /\ phase' = "delete" => /\ todo' = todo /\ todo # {} /\ InScope(NextRow)
                                    /\ disk[NextRow.path] = None
        BY <2>2 DEF PruneStat
      <3>2. phase' = "delete" => NextRow.path \in gone
        <4>1. ASSUME phase' = "delete" PROVE NextRow.path \in Paths
          BY <1>1, <3>1, <4>1, NextRowInTodo DEF ShapeOK, Rows
        <4> QED
          BY <3>1, <4>1 DEF SeenOK
      <3>3. \A q \in rows, t \in todo : q.id = t.id => q.path = t.path
        BY <3>1 DEF CurationOK, TodoOK
      <3>4. phase' = "delete" => NextRow' = NextRow
        BY <3>1 DEF NextRow
      <3>5. phase' = "delete" => todo' # {} /\ InScope(NextRow)' /\ NextRow'.path \in gone'
        BY <1>1, <3>1, <3>2, <3>4 DEF InScope
      <3> QED
        BY <3>1, <3>3, <3>5 DEF TodoOK
    <2>3. CASE PruneDelete
      <3>1. /\ rows' \subseteq rows /\ todo' \subseteq todo /\ phase = "delete" /\ phase' # "delete"
        BY <2>3 DEF PruneDelete
      <3> QED
        BY <3>1 DEF CurationOK, TodoOK
    <2> QED
      BY <2>1, <2>2, <2>3
  <1> QED
    BY <1>4, <1>5 DEF CurationOK

\* Curating a row keeps curation.
LEMMA CurateKeepsCuration ==
  ASSUME PlaceInv, CurationOK, Curate
  PROVE  CurationOK'
  <1>1. UNCHANGED <<opts, txn, result, gone, todo, phase>> /\ txn = None
    BY DEF Curate
  <1>2. PICK r \in rows : rows' = (rows \ {r}) \cup {[r EXCEPT !.curated = TRUE]}
    BY DEF Curate
  <1>3. r \in Rows
    BY DEF PlaceInv, HonestInv, ShapeOK, RowsOK
  <1>4. /\ [r EXCEPT !.curated = TRUE].path = r.path
        /\ [r EXCEPT !.curated = TRUE].id = r.id
    BY <1>3 DEF Rows
  <1>5. \A q \in rows' : \E o \in rows : q.id = o.id /\ q.path = o.path
    BY <1>2, <1>4
  <1>6. PendingIsNew'
    BY <1>1, <1>5 DEF CurationOK, PendingIsNew, track_exists_at
  <1>7. TodoOK'
    <2>1. \A q \in rows', t \in todo : phase \in {"prune", "delete"} /\ q.id = t.id => q.path = t.path
      BY <1>5 DEF CurationOK, TodoOK
    <2> QED
      BY <1>1, <2>1 DEF CurationOK, TodoOK, NextRow, InScope
  <1> QED
    BY <1>1, <1>6, <1>7 DEF CurationOK, StagedKeeps

\* No step of a run takes a user's tags from a file that stayed.
LEMMA CurationStep == PlaceInv /\ SeenOK /\ CurationOK /\ [Next]_vars => CurationOK'
  <1> SUFFICES ASSUME PlaceInv, SeenOK, CurationOK, [Next]_vars PROVE CurationOK'
    OBVIOUS
  <1>1. CASE CallerStep
    BY <1>1, CurationQuiet, CurationSelect, CurationItem, CurationCommit, CurationPrune DEF CallerStep
  <1>2. CASE World
    BY <1>2, CurationQuiet, CurateKeepsCuration
  <1> QED
    BY <1>1, <1>2, CurationQuiet DEF Next

\* At first no transaction is open.
LEMMA InitCuration == Init => CurationOK
  BY DEF Init, CurationOK, StagedKeeps, PendingIsNew, TodoOK

\* The invariant of the pipeline holds throughout.
LEMMA ScanInvariant == Spec => []ScanInv
  <1>1. Init => ScanInv
    BY InitPlaceInv, InitCount, InitSeen, InitCuration DEF ScanInv
  <1>2. ScanInv /\ [Next]_vars => ScanInv'
    BY PlaceStep, CountStep, SeenStep, CurationStep DEF ScanInv
  <1> QED
    BY <1>1, <1>2, PTL DEF Spec

\* Without --force a run never touches the identity, path or curated tags of
\* a track whose file was there all along, and revalidate none outside its
\* root: a bare scan is additive, a retarget takes only rows of missing files,
\* revalidate refreshes structural facts and prunes missing files.
THEOREM CurationStaysKept == Spec => CurationIsKept
  <1>1. ScanInv /\ [Next]_vars =>
          [~opts.force =>
             \A r \in rows : r.path \notin gone \/ (opts.mode = "revalidate" /\ r.path \notin Root) =>
                 \E q \in rows' : /\ q.id = r.id /\ q.path = r.path
                                  /\ r.curated => q.curated]_vars
    <2> SUFFICES ASSUME ScanInv, Next, ~opts.force, NEW r \in rows, Protected(r)
                 PROVE  Kept(r, rows')
      BY DEF Protected, Kept
    <2>1. PlaceInv /\ CurationOK /\ ShapeOK /\ FlowOK
      BY DEF ScanInv, PlaceInv, HonestInv
    <2>2. CASE rows' = rows
      BY <2>2 DEF Kept
    <2>3. CASE FlushCommit
      BY <2>1, <2>3 DEF FlushCommit, CurationOK, StagedKeeps
    <2>4. CASE PruneDelete /\ rows' = {o \in rows : o.id # NextRow.id}
      <3>1. phase = "delete" /\ opts.mode = "revalidate"
        BY <2>1, <2>4 DEF PruneDelete, FlowOK
      <3>2. NextRow \in todo /\ NextRow.path \in Root /\ NextRow.path \in gone
        BY <2>1, <3>1, NextRowInTodo DEF CurationOK, TodoOK, InScope, ShapeOK
      <3>3. r.id # NextRow.id
        BY <2>1, <3>1, <3>2 DEF CurationOK, TodoOK, Protected
      <3> QED
        BY <2>4, <3>3 DEF Kept
    <2>5. CASE Curate
      <3>1. PICK o \in rows : rows' = (rows \ {o}) \cup {[o EXCEPT !.curated = TRUE]}
        BY <2>5 DEF Curate
      <3>2. o \in Rows
        BY <2>1 DEF ShapeOK, RowsOK
      <3> DEFINE n == [o EXCEPT !.curated = TRUE]
      <3>3. n.id = o.id /\ n.path = o.path /\ n.curated
        BY <3>2 DEF Rows
      <3>4. n \in rows' /\ \A q \in rows : q # o => q \in rows'
        BY <3>1
      <3> HIDE DEF n
      <3> QED
        BY <3>3, <3>4 DEF Kept
    <2>6. FlushCommit \/ PruneDelete \/ Curate \/ rows' = rows
      BY DEF Next, CallerStep, Walk, Select, TryRecv, Recv, FlushNothing, FlushItem, FlushFails,
             Teardown, Join, PruneStat, World, Rewrite, Unlink, Move, Change, WorkerStep,
             Claim, ProbeBody, Verdict, Acquire, FullFileHash, Send
    <2>7. PruneDelete => rows' = rows \/ rows' = {o \in rows : o.id # NextRow.id}
      BY DEF PruneDelete
    <2> QED
      BY <2>2, <2>3, <2>4, <2>5, <2>6, <2>7
  <1> QED
    BY <1>1, ScanInvariant, PTL DEF Spec, CurationIsKept

-----------------------------------------------------------------------------
(***************************************************************************)
(* The run implements ScanResult.                                          *)
(***************************************************************************)

\* Outcome's status, as a function of the phase.
StatusOf(ph) ==
    CASE ph \in {"walk", "select"} -> "idle"
      [] ph \in {"prune", "delete", "prune_error", "ok"} -> "ok"
      [] ph = "error" -> "error"
      [] OTHER -> "running"

Running(ph) == ph \notin {"walk", "select", "prune", "delete", "prune_error", "ok", "error"}

\* What the phases of the pipeline mean to its caller.
LEMMA StatusFacts ==
  /\ \A ph : Running(ph) => StatusOf(ph) = "running"
  /\ \A ph \in {"walk", "select"} : StatusOf(ph) = "idle"
  /\ \A ph \in {"prune", "delete", "prune_error", "ok"} : StatusOf(ph) = "ok"
  /\ StatusOf("error") = "error"
  BY DEF StatusOf, Running

\* A pending file that is settled is dropped.
LEMMA DropRefines ==
  ASSUME PendingOK, NEW p \in Paths, result[p] = "pending", Running(phase), phase' = phase,
         NEW v \in {"failed", "raced"}, result' = [result EXCEPT ![p] = v]
  PROVE  Outcome!Next
  <1>1. StatusOf(phase) = "running" /\ StatusOf(phase') = "running"
    BY StatusFacts
  <1>2. Outcome!Drop(p, v)
    BY <1>1 DEF Outcome!Drop, Outcome!Pending, StatusOf
  <1> QED
    BY <1>2 DEF Outcome!Next

\* A step that settles nothing and keeps the status is no step of Outcome.
LEMMA StutterRefines ==
  ASSUME UNCHANGED result, StatusOf(phase') = StatusOf(phase)
  PROVE  UNCHANGED Outcome!vars
  BY DEF Outcome!vars, StatusOf

\* A worker settles at most the one file it has in hand.
LEMMA WorkerRefines ==
  ASSUME PlaceInv, NEW w \in Workers, WorkerStep(w)
  PROVE  [Outcome!Next]_(Outcome!vars)
  <1>1. UNCHANGED phase /\ PendingOK /\ FlowOK
    BY DEF WorkerStep, Claim, ProbeBody, Verdict, Acquire, FullFileHash, Send, PlaceInv
  <1>2. CASE UNCHANGED result
    BY <1>1, <1>2, StutterRefines
  <1>3. CASE Claim(w) /\ cursor <= Len(files)
    <2>1. files[cursor] \in Paths /\ Unclaimed(files[cursor])
      BY <1>3, ClaimedAway DEF Claim, OnePlace, PlaceInv
    <2>2. Running(phase)
      BY <1>3 DEF Claim, InPipeline, Running
    <2>3. result[files[cursor]] = "pending"
      BY <1>1, <2>1, <2>2 DEF PendingOK, Placed, Running
    <2>4. cursor \in Nat /\ Len(files) \in Nat
      BY DEF PlaceInv, HonestInv, ShapeOK
    <2>5. UNCHANGED result \/ result' = [result EXCEPT ![files[cursor]] = "failed"]
      BY <1>3, <2>4 DEF Claim, Failed
    <2> QED
      BY <1>1, <1>2, <2>1, <2>2, <2>3, <2>5, DropRefines
  <1>4. CASE Verdict(w)
    <2> DEFINE p == worker[w].unit.path
    <2>1. WorkerOK(worker[w]) /\ worker[w].pc = "restat"
      BY <1>4, OfWorker DEF PlaceInv, Verdict
    <2>2. p \in Paths /\ Probed(p)
      BY <2>1 DEF WorkerOK, Probed
    <2>3. Running(phase)
      BY <1>1, <2>1 DEF FlowOK, Exited, Idle, Running
    <2>4. result[p] = "pending"
      BY <1>1, <2>2, <2>3 DEF PendingOK, Placed, Running
    <2>5. UNCHANGED result \/ \E v \in {"failed", "raced"} : result' = [result EXCEPT ![p] = v]
      BY <1>4 DEF Verdict, Failed
    <2> HIDE DEF p
    <2> QED
      BY <1>1, <1>2, <2>2, <2>3, <2>4, <2>5, DropRefines
  <1>5. cursor \in Nat /\ Len(files) \in Nat
    BY DEF PlaceInv, HonestInv, ShapeOK
  <1> QED
    BY <1>2, <1>3, <1>4, <1>5 DEF WorkerStep, Claim, ProbeBody, Acquire, FullFileHash, Send

\* The selection is a dispatch, a transaction is a commit of pending files.
LEMMA SelectRefines ==
  ASSUME PlaceInv, Select
  PROVE  Outcome!Next
  <1> DEFINE S == {p \in Paths : Contains(files', p)}
  <1>1. /\ phase = "select" /\ phase' = "recv"
        /\ result' = [p \in Paths |-> IF p \in S THEN "pending" ELSE "idle"]
    BY DEF Select
  <1>2. StatusOf(phase) = "idle" /\ StatusOf(phase') = "running"
    BY <1>1 DEF StatusOf
  <1>3. S \in SUBSET Paths
    OBVIOUS
  <1> HIDE DEF S
  <1>4. Outcome!Dispatch(S)
    BY <1>1, <1>2 DEF Outcome!Dispatch, StatusOf
  <1> QED
    BY <1>3, <1>4 DEF Outcome!Next

\* A commit settles files that were pending.
LEMMA CommitRefines ==
  ASSUME PlaceInv, FlushCommit
  PROVE  Outcome!Next
  <1> DEFINE S == {p \in Paths : Contains(txn.done, p)}
  <1>1. /\ PendingOK /\ txn # None /\ txn \in Transactions /\ Flushing /\ phase' = AfterFlush
        /\ result' = [p \in Paths |-> IF p \in S THEN "committed" ELSE result[p]]
    BY DEF FlushCommit, PlaceInv, HonestInv, ShapeOK
  <1>2. Running(phase) /\ Running(phase')
    BY <1>1 DEF Flushing, AfterFlush, Running
  <1>3. StatusOf(phase) = "running" /\ StatusOf(phase') = "running"
    BY <1>2, StatusFacts
  <1>4. S \in SUBSET Paths
    OBVIOUS
  <1>5. \A p \in S : result[p] = "pending"
    BY <1>1, <1>2 DEF PendingOK, Placed, Staged, Contains, Running
  <1> HIDE DEF S
  <1>6. S \subseteq {p \in Paths : result[p] = "pending"}
    BY <1>4, <1>5
  <1>7. Outcome!Commit(S)
    BY <1>1, <1>3, <1>6 DEF Outcome!Commit, Outcome!Pending, StatusOf
  <1> QED
    BY <1>4, <1>7 DEF Outcome!Next

\* A step of the calling thread is one of its promise, or none.
LEMMA CallerRefines ==
  ASSUME PlaceInv, CallerStep
  PROVE  [Outcome!Next]_(Outcome!vars)
  <1>1. CASE TryRecv \/ Recv \/ FlushNothing \/ FlushFails \/ Teardown
    <2>1. UNCHANGED result /\ Running(phase) /\ Running(phase')
      BY <1>1 DEF TryRecv, Recv, Take, FlushNothing, Flushing, AfterFlush, FlushFails, Teardown,
                  Running
    <2> QED
      BY <2>1, StatusFacts, StutterRefines
  <1>2. CASE Walk
    <2>1. UNCHANGED result /\ phase = "walk" /\ phase' = "select"
      BY <1>2 DEF Walk
    <2> QED
      BY <2>1, StatusFacts, StutterRefines
  <1>3. CASE PruneStat \/ PruneDelete
    <2>1. /\ UNCHANGED result /\ phase \in {"prune", "delete", "prune_error", "ok"}
          /\ phase' \in {"prune", "delete", "prune_error", "ok"}
      BY <1>3 DEF PruneStat, PruneDelete
    <2> QED
      BY <2>1, StatusFacts, StutterRefines
  <1>4. CASE FlushItem
    <2> DEFINE p == Head(batch).path
    <2>1. /\ PendingOK /\ batch \in Seq(Units) /\ batch # <<>> /\ Flushing /\ phase' = phase
      BY <1>4 DEF FlushItem, PlaceInv, HonestInv, ShapeOK
    <2>2. Head(batch) \in Units /\ Head(batch) = batch[1] /\ 1 \in 1..Len(batch)
      BY <2>1
    <2>3. p \in Paths /\ InSeq(batch, p)
      BY <2>2 DEF Units, InSeq
    <2>4. result[p] = "pending" /\ Running(phase)
      BY <2>1, <2>3 DEF PendingOK, Placed, Flushing, Running
    <2>5. UNCHANGED result \/ result' = [result EXCEPT ![p] = "failed"]
      BY <1>4 DEF FlushItem, Failed
    <2> HIDE DEF p
    <2> QED
      BY <2>1, <2>3, <2>4, <2>5, DropRefines, StutterRefines
  <1>5. CASE Join
    <2>1. UNCHANGED result /\ Exited /\ FlowOK /\ PendingOK /\ Running(phase)
      BY <1>5 DEF Join, PlaceInv, Running
    <2>2. StatusOf(phase) = "running"
      BY <2>1, StatusFacts
    <2>3. CASE phase = "join"
      <3>1. StatusOf(phase') = "error"
        BY <1>5, <2>3, StatusFacts DEF Join
      <3>2. Outcome!Abort
        BY <2>1, <2>2, <3>1 DEF Outcome!Abort, StatusOf
      <3> QED
        BY <3>2 DEF Outcome!Next, Outcome!Ends
    <2>4. CASE phase = "final"
      <3>1. StatusOf(phase') = "ok"
        BY <1>5, <2>4, StatusFacts DEF Join
      <3>2. /\ \A w \in Workers : worker[w].pc = "exited"
            /\ Len(chan) = 0 /\ Len(batch) = 0 /\ txn = None /\ cursor > Len(files)
        BY <2>1, <2>4, ScanAssumption DEF FlowOK, Exited, Flushing
      <3>3. cursor \in Nat /\ Len(files) \in Nat
        BY DEF PlaceInv, HonestInv, ShapeOK
      <3>4. \A p \in Paths : ~Placed(p)
        BY <3>2, <3>3 DEF Placed, Unclaimed, Probed, InSeq, Staged
      <3>5. {p \in Paths : result[p] = "pending"} = {}
        BY <2>1, <2>4, <3>4 DEF PendingOK
      <3>6. Outcome!Finish
        BY <2>1, <2>2, <3>1, <3>5 DEF Outcome!Finish, Outcome!Pending, StatusOf
      <3> QED
        BY <3>6 DEF Outcome!Next, Outcome!Ends
    <2> QED
      BY <1>5, <2>3, <2>4 DEF Join
  <1> QED
    BY <1>1, <1>2, <1>3, <1>4, <1>5, SelectRefines, CommitRefines DEF CallerStep

\* The safety part of KeepsItsPromise: whatever the workers, the channel, the
\* batches and the world do, each dispatched file is settled once, files
\* committed together become visible together, and the run reports success
\* only when nothing is pending.
THEOREM RunImplementsOutcome == Spec => Outcome!Init /\ [][Outcome!Next]_(Outcome!vars)
  <1>1. Init => Outcome!Init
    BY DEF Init, Outcome!Init
  <1>2. PlaceInv /\ [Next]_vars => [Outcome!Next]_(Outcome!vars)
    <2> SUFFICES ASSUME PlaceInv, [Next]_vars PROVE [Outcome!Next]_(Outcome!vars)
      OBVIOUS
    <2>1. CASE World \/ UNCHANGED vars
      <3>1. UNCHANGED <<result, phase>>
        BY <2>1 DEF World, Rewrite, Unlink, Move, Change, Curate, vars
      <3> QED
        BY <3>1, StutterRefines
    <2> QED
      BY <2>1, CallerRefines, WorkerRefines DEF Next
  <1>3. Spec => []PlaceInv
    BY ScanInvariant, PTL DEF ScanInv
  <1> QED
    BY <1>1, <1>2, <1>3, PTL DEF Spec

-----------------------------------------------------------------------------
(***************************************************************************)
(* The byte budget: what is reserved is what is held.                      *)
(***************************************************************************)
AtMostOne(units) ==
    \A u, v \in units : payload_weight(u) > 0 /\ payload_weight(v) > 0 => u = v

\* The budget is closed by the teardown only; before it, every payload in
\* memory is counted once, and the cap is exceeded for the sake of one.
BudgetOK ==
    /\ budget.closed => phase \in {"join", "error"}
    /\ phase \notin {"fatal", "join", "error"} =>
         /\ budget.in_flight = PayloadBytes(HeldUnits) + OpenBytes
         /\ budget.in_flight > Cap => AtMostOne(HeldUnits)

\* A payload has a size.
LEMMA WeightType == \A u \in Units : payload_weight(u) \in Nat
  BY ScanAssumption DEF payload_weight, Units

\* The bytes of a set of units, with one of them set apart.
LEMMA BytesOf ==
  ASSUME NEW S \in SUBSET Units, IsFiniteSet(S)
  PROVE  /\ PayloadBytes(S) \in Nat
         /\ S = {} => PayloadBytes(S) = 0
         /\ \A u \in S : PayloadBytes(S) = payload_weight(u) + PayloadBytes(S \ {u})
  <1> DEFINE F(T) == [u \in T |-> payload_weight(u)]
  <1>1. \A T \in SUBSET S : PayloadBytes(T) = SumFunctionOnSet(F(T), T) /\ IsFiniteSet(T)
    <2>1. \A T \in SUBSET S : IsFiniteSet(T)
      BY FS_Subset
    <2>2. \A T : DOMAIN F(T) = T
      OBVIOUS
    <2>3. \A T : PayloadBytes(T) = SumFunctionOnSet(F(T), DOMAIN F(T))
      BY DEF PayloadBytes, SumFunction
    <2> QED
      BY <2>1, <2>2, <2>3
  <1>2. \A T \in SUBSET S : \A u \in T : F(T)[u] \in Nat /\ F(T)[u] \in Int /\ F(T)[u] = payload_weight(u)
    BY WeightType
  <1>3. PayloadBytes(S) \in Nat
    <2>1. \A u \in S : F(S)[u] \in Nat /\ F(S)[u] \in Int
      BY <1>2
    <2> HIDE DEF F
    <2> QED
      BY <1>1, <2>1, SumType
  <1>4. ASSUME S = {} PROVE PayloadBytes(S) = 0
    <2>1. \A u \in S : F(S)[u] = 0
      BY <1>4
    <2> HIDE DEF F
    <2> QED
      BY <1>1, <2>1, SumOfZeros
  <1>5. ASSUME NEW u \in S PROVE PayloadBytes(S) = payload_weight(u) + PayloadBytes(S \ {u})
    <2>1. \A x \in S : F(S)[x] \in Int
      BY <1>2
    <2>2. F(S)[u] = payload_weight(u)
      BY <1>2
    <2>3. \A x \in S \ {u} : F(S)[x] = F(S \ {u})[x]
      BY <1>2
    <2> HIDE DEF F
    <2>4. SumFunctionOnSet(F(S), S) = F(S)[u] + SumFunctionOnSet(F(S), S \ {u})
      BY <2>1, SumRemove
    <2>5. SumFunctionOnSet(F(S), S \ {u}) = SumFunctionOnSet(F(S \ {u}), S \ {u})
      BY <1>1, <2>3, SumSame
    <2> QED
      BY <1>1, <2>2, <2>4, <2>5
  <1> QED
    BY <1>3, <1>4, <1>5

\* A unit more.
LEMMA BytesWith ==
  ASSUME NEW S \in SUBSET Units, IsFiniteSet(S), NEW u \in Units, u \notin S
  PROVE  PayloadBytes(S \cup {u}) = PayloadBytes(S) + payload_weight(u)
  <1> DEFINE T == S \cup {u}
  <1>1. T \in SUBSET Units /\ IsFiniteSet(T) /\ u \in T /\ T \ {u} = S
    BY FS_AddElement
  <1>2. PayloadBytes(S) \in Nat /\ payload_weight(u) \in Nat
    BY BytesOf, WeightType
  <1> HIDE DEF T
  <1>3. PayloadBytes(T) = payload_weight(u) + PayloadBytes(T \ {u})
    BY <1>1, BytesOf
  <1>4. PayloadBytes(T \ {u}) = PayloadBytes(S)
    BY <1>1, Zenon
  <1>5. PayloadBytes(T) = PayloadBytes(S) + payload_weight(u)
    BY <1>2, <1>3, <1>4
  <1> QED
    BY <1>5 DEF T

\* A sequence's units, with a new last one or without its first.
LEMMA RangeOf ==
  ASSUME NEW s \in Seq(Units)
  PROVE  /\ Range(s) \in SUBSET Units /\ IsFiniteSet(Range(s))
         /\ \A u : u \in Range(s) <=> \E i \in 1..Len(s) : s[i] = u
         /\ \A u \in Units : Range(Append(s, u)) = Range(s) \cup {u}
         /\ s # <<>> => Range(s) = Range(Tail(s)) \cup {Head(s)} /\ Head(s) \in Units
  <1>1. Len(s) \in Nat /\ DOMAIN s = 1..Len(s) /\ \A i \in 1..Len(s) : s[i] \in Units
    OBVIOUS
  <1>2. \A u : u \in Range(s) <=> \E i \in 1..Len(s) : s[i] = u
    BY <1>1 DEF Range
  <1>3. IsFiniteSet(Range(s))
    <2>1. IsFiniteSet(1..Len(s))
      BY <1>1, FS_Interval
    <2>2. s \in Surjection(1..Len(s), Range(s))
      BY <1>1, <1>2 DEF Range, Surjection
    <2> QED
      BY <2>1, <2>2, FS_Surjection DEF ExistsSurjection
  <1>4. ASSUME NEW u \in Units PROVE Range(Append(s, u)) = Range(s) \cup {u}
    <2> DEFINE t == Append(s, u)
    <2>1. /\ DOMAIN t = 1..(Len(s) + 1) /\ t[Len(s) + 1] = u
          /\ \A i \in 1..Len(s) : t[i] = s[i]
      OBVIOUS
    <2>2. \A i : i \in 1..(Len(s) + 1) <=> i \in 1..Len(s) \/ i = Len(s) + 1
      BY <1>1
    <2> HIDE DEF t
    <2>3. \A x : x \in Range(t) <=> \E i \in 1..(Len(s) + 1) : t[i] = x
      BY <2>1 DEF Range
    <2>4. \A x : x \in Range(t) <=> x \in Range(s) \/ x = u
      BY <1>2, <2>1, <2>2, <2>3
    <2> QED
      BY <2>4 DEF t
  <1>5. ASSUME s # <<>> PROVE Range(s) = Range(Tail(s)) \cup {Head(s)} /\ Head(s) \in Units
    <2> DEFINE t == Tail(s)
    <2>1. /\ Len(s) >= 1 /\ DOMAIN t = 1..(Len(s) - 1) /\ Head(s) = s[1] /\ Head(s) \in Units
          /\ \A i \in 1..(Len(s) - 1) : t[i] = s[i + 1]
      BY <1>5
    <2>2. \A i : i \in 1..Len(s) <=> i = 1 \/ \E j \in 1..(Len(s) - 1) : i = j + 1
      <3>1. ASSUME NEW i \in 1..Len(s), i # 1 PROVE i - 1 \in 1..(Len(s) - 1) /\ i = (i - 1) + 1
        BY <1>1, <3>1
      <3>2. \A j \in 1..(Len(s) - 1) : j + 1 \in 1..Len(s)
        BY <1>1
      <3>3. 1 \in 1..Len(s)
        BY <1>1, <2>1
      <3> QED
        BY <3>1, <3>2, <3>3
    <2> HIDE DEF t
    <2>3. \A x : x \in Range(t) <=> \E j \in 1..(Len(s) - 1) : t[j] = x
      BY <2>1 DEF Range
    <2>4. ASSUME NEW x PROVE x \in Range(s) <=> x \in Range(t) \/ x = Head(s)
      <3>1. ASSUME x \in Range(s) PROVE x \in Range(t) \/ x = Head(s)
        <4>1. PICK i \in 1..Len(s) : s[i] = x
          BY <1>2, <3>1
        <4>2. CASE i = 1
          BY <2>1, <4>1, <4>2
        <4>3. ASSUME NEW j \in 1..(Len(s) - 1), i = j + 1 PROVE x \in Range(t)
          BY <2>1, <2>3, <4>1, <4>3
        <4> QED
          BY <2>2, <4>2, <4>3
      <3>2. ASSUME x \in Range(t) PROVE x \in Range(s)
        <4>1. PICK j \in 1..(Len(s) - 1) : t[j] = x
          BY <2>3, <3>2
        <4>2. j + 1 \in 1..Len(s) /\ s[j + 1] = x
          BY <2>1, <2>2, <4>1
        <4> QED
          BY <1>2, <4>2
      <3>3. ASSUME x = Head(s) PROVE x \in Range(s)
        <4>1. 1 \in 1..Len(s) /\ s[1] = x
          BY <2>1, <2>2, <3>3
        <4> QED
          BY <1>2, <4>1
      <3> QED
        BY <3>1, <3>2, <3>3
    <2> QED
      BY <2>1, <2>4 DEF t
  <1> QED
    BY <1>1, <1>2, <1>3, <1>4, <1>5

\* What is held without worker w, and what w holds.
Others(w) == {worker[v].unit : v \in Holding \ {w}} \cup Range(chan) \cup Range(batch)

Own(w) == {u \in {worker[w].unit} : worker[w].pc \in {"hash", "send"}}

\* A worker past acquire has a unit.
LEMMA HoldingUnits ==
  ASSUME HonestInv, NEW w \in Workers, worker[w].pc \in {"acquire", "hash", "send"}
  PROVE  worker[w].unit \in Units /\ worker[w].unit.path = worker[w].path /\ worker[w].path \in Paths
  BY OfWorker DEF WorkerOK, WorkerStates

\* The held units are finitely many.
LEMMA HeldType ==
  ASSUME HonestInv, NEW w \in Workers
  PROVE  /\ HeldUnits = Others(w) \cup Own(w)
         /\ HeldUnits \in SUBSET Units /\ IsFiniteSet(HeldUnits)
         /\ Others(w) \in SUBSET Units /\ IsFiniteSet(Others(w))
  <1>1. Holding \in SUBSET Workers /\ IsFiniteSet(Holding)
    BY FS_Subset, ScanAssumption DEF Holding
  <1>2. \A v \in Holding : worker[v].unit \in Units
    BY HoldingUnits DEF Holding
  <1> DEFINE U == {worker[v].unit : v \in Holding}
             f == [v \in Holding |-> worker[v].unit]
  <1>3. f \in Surjection(Holding, U)
    BY DEF Surjection
  <1> HIDE DEF f
  <1>4. IsFiniteSet(U)
    BY <1>1, <1>3, FS_Surjection
  <1>5. U \in SUBSET Units
    BY <1>2
  <1>6. chan \in Seq(Units) /\ batch \in Seq(Units)
    BY DEF HonestInv, ShapeOK
  <1>7. /\ Range(chan) \in SUBSET Units /\ IsFiniteSet(Range(chan))
        /\ Range(batch) \in SUBSET Units /\ IsFiniteSet(Range(batch))
    BY <1>6, RangeOf
  <1>8. HeldUnits = U \cup Range(chan) \cup Range(batch)
    BY DEF HeldUnits
  <1>9. HeldUnits \in SUBSET Units /\ IsFiniteSet(HeldUnits)
    <2> HIDE DEF U
    <2>1. IsFiniteSet(U \cup Range(chan))
      BY <1>4, <1>7, FS_Union
    <2>2. IsFiniteSet((U \cup Range(chan)) \cup Range(batch))
      BY <1>7, <2>1, FS_Union
    <2> QED
      BY <1>5, <1>7, <1>8, <2>2
  <1>10. HeldUnits = Others(w) \cup Own(w)
    <2>1. w \in Holding <=> worker[w].pc \in {"hash", "send"}
      BY DEF Holding
    <2> QED
      BY <1>8, <2>1 DEF Others, Own
  <1>11. Others(w) \in SUBSET HeldUnits
    BY <1>10
  <1>12. IsFiniteSet(Others(w))
    BY <1>9, <1>11, FS_Subset
  <1> QED
    BY <1>9, <1>10, <1>11, <1>12

\* What others hold is of other files.
LEMMA OthersElsewhere ==
  ASSUME PlaceInv, NEW w \in Workers, worker[w].pc \in {"acquire", "hash", "send"}
  PROVE  \A u \in Others(w) : u.path # worker[w].path
  <1>1. HonestInv /\ OnePlace /\ FlowOK
    BY DEF PlaceInv
  <1>2. phase \notin {"walk", "select"}
    BY <1>1 DEF FlowOK, Idle
  <1>3. worker[w].path \in Paths /\ Probed(worker[w].path)
    BY <1>1, HoldingUnits DEF Probed
  <1>4. ~InSeq(chan, worker[w].path) /\ ~InSeq(batch, worker[w].path)
    BY <1>1, <1>2, <1>3 DEF OnePlace
  <1>5. chan \in Seq(Units) /\ batch \in Seq(Units)
    BY <1>1 DEF HonestInv, ShapeOK
  <1>6. \A u \in Range(chan) \cup Range(batch) : u.path # worker[w].path
    BY <1>4, <1>5, RangeOf DEF InSeq
  <1>7. ASSUME NEW v \in Holding \ {w} PROVE worker[v].unit.path # worker[w].path
    <2>1. v \in Workers /\ v # w /\ worker[v].pc \in {"hash", "send"}
      BY DEF Holding
    <2>2. worker[v].unit.path = worker[v].path
      BY <1>1, <2>1, HoldingUnits
    <2>3. worker[v].path # worker[w].path
      BY <1>1, <2>1 DEF OnePlace
    <2> QED
      BY <2>2, <2>3
  <1> QED
    BY <1>6, <1>7 DEF Others

\* A worker's step leaves alone what others hold.
LEMMA HeldAfter ==
  ASSUME HonestInv', NEW w \in Workers, \A v \in Workers \ {w} : worker'[v] = worker[v]
  PROVE  /\ HeldUnits' = Others(w)' \cup Own(w)'
         /\ UNCHANGED <<chan, batch>> => Others(w)' = Others(w)
  <1>1. w \in Holding' <=> worker'[w].pc \in {"hash", "send"}
    BY DEF Holding
  <1>2. HeldUnits' = Others(w)' \cup Own(w)'
    BY <1>1 DEF HeldUnits, Others, Own
  <1>3. Holding' \ {w} = Holding \ {w}
    BY DEF Holding
  <1>4. {worker'[v].unit : v \in Holding' \ {w}} = {worker[v].unit : v \in Holding \ {w}}
    BY <1>3 DEF Holding
  <1> QED
    BY <1>2, <1>4 DEF Others

\* Nothing is taken up and nothing is given back.
LEMMA BudgetFrame ==
  ASSUME BudgetOK, HeldUnits' = HeldUnits, UNCHANGED <<budget, txn>>,
         phase \in {"fatal", "join", "error"} => phase' \in {"fatal", "join", "error"},
         phase \in {"join", "error"} => phase' \in {"join", "error"}
  PROVE  BudgetOK'
  <1>1. PayloadBytes(HeldUnits)' = PayloadBytes(HeldUnits) /\ OpenBytes' = OpenBytes
    BY DEF PayloadBytes, payload_weight, OpenBytes
  <1>2. AtMostOne(HeldUnits)' <=> AtMostOne(HeldUnits)
    BY DEF AtMostOne, payload_weight
  <1> QED
    BY <1>1, <1>2 DEF BudgetOK

\* The units stay where they are.
LEMMA HeldStay ==
  ASSUME UNCHANGED <<chan, batch>>,
         \A w \in Workers : /\ worker'[w].pc \in {"hash", "send"} <=> worker[w].pc \in {"hash", "send"}
                            /\ worker'[w].unit = worker[w].unit
  PROVE  HeldUnits' = HeldUnits
  <1>1. Holding' = Holding
    BY DEF Holding
  <1>2. {worker'[w].unit : w \in Holding'} = {worker[w].unit : w \in Holding}
    BY <1>1 DEF Holding
  <1> QED
    BY <1>2 DEF HeldUnits

\* Bytes are reserved for a unit that nobody holds: within the cap, or alone.
LEMMA AcquireBudget ==
  ASSUME PlaceInv, BudgetOK, NEW w \in Workers, Acquire(w), HonestInv'
  PROVE  BudgetOK'
  <1>1. HonestInv /\ worker[w].pc = "acquire" /\ worker[w] \in WorkerStates
    BY OfWorker DEF PlaceInv, Acquire
  <1>2. worker[w].unit \in Units /\ worker[w].unit.path = worker[w].path
    BY <1>1, HoldingUnits
  <1> DEFINE v == worker[w].unit
             n == payload_weight(v)
             u == worker'[w].unit
             O == Others(w)
  <1>3. /\ MayAcquire(n) /\ budget' = [budget EXCEPT !.in_flight = @ + n]
        /\ UNCHANGED <<phase, chan, batch, txn>>
        /\ \A x \in Workers \ {w} : worker'[x] = worker[x]
        /\ worker'[w].pc \in {"hash", "send"}
        /\ u.path = v.path /\ u.content = v.content
    <2> DEFINE fp == IF opts.tier = "None" THEN None ELSE fingerprint_of(v.content)
               pc == IF opts.tier = "Full" THEN "hash" ELSE "send"
    <2>1. worker' = [worker EXCEPT ![w] = [@ EXCEPT !.pc = pc, !.unit = [v EXCEPT !.fingerprint = fp]]]
      BY <1>1 DEF Acquire, HonestInv, ShapeOK, WorkerStates
    <2>2. pc \in {"hash", "send"} /\ worker \in [Workers -> WorkerStates]
      BY <1>1 DEF HonestInv, ShapeOK
    <2> HIDE DEF fp, pc
    <2>3. /\ worker'[w] = [worker[w] EXCEPT !.pc = pc, !.unit = [v EXCEPT !.fingerprint = fp]]
          /\ \A x \in Workers \ {w} : worker'[x] = worker[x]
      BY <2>1, <2>2
    <2>4. worker'[w].pc = pc /\ u = [v EXCEPT !.fingerprint = fp]
      BY <1>1, <2>3 DEF WorkerStates
    <2>5. u.path = v.path /\ u.content = v.content
      BY <1>2, <2>4 DEF Units
    <2>6. /\ MayAcquire(n) /\ budget' = [budget EXCEPT !.in_flight = @ + n]
          /\ UNCHANGED <<phase, chan, batch, txn>>
      BY DEF Acquire
    <2> QED
      BY <2>2, <2>3, <2>4, <2>5, <2>6
  <1>4. u \in Units
    BY <1>3, HoldingUnits, <1>2 DEF HonestInv, ShapeOK, HonestOK, WorkerOK, WorkerStates
  <1>5. Own(w) = {} /\ Own(w)' = {u}
    BY <1>1, <1>3 DEF Own
  <1>6. HeldUnits = O /\ O \in SUBSET Units /\ IsFiniteSet(O) /\ HeldUnits' = O \cup {u}
    BY <1>1, <1>3, <1>5, HeldType, HeldAfter
  <1>7. u \notin O
    BY <1>1, <1>2, <1>3, OthersElsewhere
  <1>8. n \in Nat /\ payload_weight(u) = n
    BY <1>2, <1>3, WeightType DEF payload_weight
  <1>9. budget \in [in_flight : Nat, closed : BOOLEAN] /\ txn' = txn /\ OpenBytes' = OpenBytes
    BY <1>1, <1>3 DEF HonestInv, ShapeOK, OpenBytes
  <1>10. OpenBytes \in Nat
    BY <1>1 DEF HonestInv, ShapeOK, OpenBytes, Transactions
  <1> HIDE DEF v, n, u, O
  <1>11. PayloadBytes(O) \in Nat /\ PayloadBytes(O \cup {u}) = PayloadBytes(O) + n
    BY <1>4, <1>6, <1>7, <1>8, BytesOf, BytesWith
  <1>12. budget'.in_flight = budget.in_flight + n /\ budget'.closed = budget.closed
    BY <1>3, <1>9
  <1>13. CASE phase \in {"fatal", "join", "error"}
    BY <1>3, <1>12, <1>13 DEF BudgetOK
  <1>14. CASE phase \notin {"fatal", "join", "error"}
    <2>1. /\ budget.in_flight = PayloadBytes(O) + OpenBytes
          /\ budget.in_flight = 0 \/ budget.in_flight + n <= Cap
      BY <1>3, <1>6, <1>14 DEF BudgetOK, MayAcquire
    <2>2. budget'.in_flight = PayloadBytes(O \cup {u}) + OpenBytes
      BY <1>8, <1>10, <1>11, <1>12, <2>1
    <2>3. ASSUME budget'.in_flight > Cap PROVE AtMostOne(O \cup {u})
      <3>1. Cap \in Nat
        BY ScanAssumption
      <3>2. budget.in_flight = 0
        BY <1>12, <2>1, <2>3, <3>1, <1>8, <1>9
      <3>3. PayloadBytes(O) = 0
        BY <1>10, <1>11, <2>1, <3>2
      <3>4. ASSUME NEW x \in O PROVE payload_weight(x) = 0
        <4>1. PayloadBytes(O) = payload_weight(x) + PayloadBytes(O \ {x})
          BY <1>6, BytesOf
        <4>2. O \ {x} \in SUBSET Units /\ IsFiniteSet(O \ {x})
          BY <1>6, FS_Subset
        <4>3. PayloadBytes(O \ {x}) \in Nat /\ payload_weight(x) \in Nat
          BY <1>6, <4>2, BytesOf, WeightType
        <4> QED
          BY <3>3, <4>1, <4>3
      <3> QED
        BY <3>4 DEF AtMostOne
    <2>4. PayloadBytes(HeldUnits)' = PayloadBytes(O \cup {u})
      BY <1>6 DEF PayloadBytes, payload_weight
    <2>5. AtMostOne(HeldUnits)' <=> AtMostOne(O \cup {u})
      BY <1>6 DEF AtMostOne, payload_weight
    <2> QED
      BY <1>3, <1>9, <1>12, <1>14, <2>2, <2>3, <2>4, <2>5 DEF BudgetOK
  <1> QED
    BY <1>13, <1>14

\* The full hash weighs nothing.
LEMMA HashBudget ==
  ASSUME PlaceInv, BudgetOK, NEW w \in Workers, FullFileHash(w), HonestInv'
  PROVE  BudgetOK'
  <1>1. HonestInv /\ worker[w].pc = "hash" /\ worker[w] \in WorkerStates
    BY OfWorker DEF PlaceInv, FullFileHash
  <1>2. worker[w].unit \in Units /\ worker[w].unit.path = worker[w].path
    BY <1>1, HoldingUnits
  <1> DEFINE v == worker[w].unit
             u == worker'[w].unit
             O == Others(w)
  <1>3. /\ UNCHANGED <<phase, chan, batch, txn, budget>>
        /\ \A x \in Workers \ {w} : worker'[x] = worker[x]
        /\ worker'[w].pc = "send"
        /\ u.path = v.path /\ u.content = v.content
    <2> DEFINE d == full_file_hash(worker[w].path)
    <2>1. worker' = [worker EXCEPT ![w] = [@ EXCEPT !.pc = "send", !.unit = [v EXCEPT !.content_hash = d]]]
      BY <1>1 DEF FullFileHash, HonestInv, ShapeOK, WorkerStates
    <2> HIDE DEF d
    <2>2. /\ worker'[w] = [worker[w] EXCEPT !.pc = "send", !.unit = [v EXCEPT !.content_hash = d]]
          /\ \A x \in Workers \ {w} : worker'[x] = worker[x]
      BY <1>1, <2>1 DEF HonestInv, ShapeOK
    <2>3. worker'[w].pc = "send" /\ u = [v EXCEPT !.content_hash = d]
      BY <1>1, <2>2 DEF WorkerStates
    <2>4. u.path = v.path /\ u.content = v.content
      BY <1>2, <2>3 DEF Units
    <2>5. UNCHANGED <<phase, chan, batch, txn, budget>>
      BY DEF FullFileHash
    <2> QED
      BY <2>2, <2>3, <2>4, <2>5
  <1>4. u \in Units
    BY <1>3, HoldingUnits, <1>2 DEF HonestInv, ShapeOK, HonestOK, WorkerOK, WorkerStates
  <1>5. Own(w) = {v} /\ Own(w)' = {u}
    BY <1>1, <1>3 DEF Own
  <1>6. HeldUnits = O \cup {v} /\ O \in SUBSET Units /\ IsFiniteSet(O) /\ HeldUnits' = O \cup {u}
    BY <1>1, <1>3, <1>5, HeldType, HeldAfter
  <1>7. u \notin O /\ v \notin O
    BY <1>1, <1>2, <1>3, OthersElsewhere
  <1>8. payload_weight(u) = payload_weight(v) /\ OpenBytes' = OpenBytes
    BY <1>3 DEF payload_weight, OpenBytes
  <1>9. v \in Units
    BY <1>2
  <1> HIDE DEF v, u, O
  <1>10. PayloadBytes(O \cup {u}) = PayloadBytes(O \cup {v})
    <2>1. PayloadBytes(O \cup {u}) = PayloadBytes(O) + payload_weight(u)
      BY <1>4, <1>6, <1>7, BytesWith
    <2>2. PayloadBytes(O \cup {v}) = PayloadBytes(O) + payload_weight(v)
      BY <1>6, <1>7, <1>9, BytesWith
    <2> QED
      BY <1>8, <2>1, <2>2
  <1>11. AtMostOne(O \cup {v}) => AtMostOne(O \cup {u})
    BY <1>7, <1>8 DEF AtMostOne
  <1>12. PayloadBytes(HeldUnits)' = PayloadBytes(O \cup {u})
    BY <1>6 DEF PayloadBytes, payload_weight
  <1>13. AtMostOne(HeldUnits)' <=> AtMostOne(O \cup {u})
    BY <1>6 DEF AtMostOne, payload_weight
  <1> QED
    BY <1>3, <1>6, <1>8, <1>10, <1>11, <1>12, <1>13 DEF BudgetOK

\* A unit goes into the channel; without a receiver the run has failed.
LEMMA SendBudget ==
  ASSUME PlaceInv, BudgetOK, NEW w \in Workers, Send(w), HonestInv'
  PROVE  BudgetOK'
  <1>1. HonestInv /\ FlowOK /\ worker[w].pc = "send" /\ worker[w] \in WorkerStates
    BY OfWorker DEF PlaceInv, Send
  <1>2. worker[w].unit \in Units /\ chan \in Seq(Units)
    BY <1>1, HoldingUnits DEF HonestInv, ShapeOK
  <1>3. CASE rx
    <2>1. /\ chan' = Append(chan, worker[w].unit) /\ worker' = [worker EXCEPT ![w] = Idle]
          /\ UNCHANGED <<phase, batch, txn, budget>>
      BY <1>3 DEF Send, ToStart
    <2>2. \A x \in Workers \ {w} : worker'[x] = worker[x]
      BY <2>1
    <2>3. worker'[w] = Idle
      BY <1>1, <2>1 DEF HonestInv, ShapeOK
    <2>4. Own(w) = {worker[w].unit} /\ Own(w)' = {}
      BY <1>1, <2>3 DEF Own, Idle
    <2>5. HeldUnits = Others(w) \cup {worker[w].unit} /\ HeldUnits' = Others(w)'
      BY <1>1, <2>2, <2>4, HeldType, HeldAfter
    <2>6. Range(chan)' = Range(chan) \cup {worker[w].unit}
      BY <1>2, <2>1, RangeOf
    <2>7. {worker'[v].unit : v \in Holding' \ {w}} = {worker[v].unit : v \in Holding \ {w}}
      BY <2>2 DEF Holding
    <2>8. Others(w)' = Others(w) \cup {worker[w].unit}
      BY <2>1, <2>6, <2>7 DEF Others
    <2> QED
      BY <2>1, <2>5, <2>8, BudgetFrame
  <1>4. CASE ~rx
    <2>1. phase \in {"join", "error"} /\ phase' = phase
      BY <1>1, <1>4 DEF Send, FlowOK, HonestInv, ShapeOK
    <2> QED
      BY <2>1 DEF BudgetOK
  <1> QED
    BY <1>3, <1>4

\* What a worker does to the budget.
LEMMA WorkerBudget ==
  ASSUME PlaceInv, BudgetOK, NEW w \in Workers, WorkerStep(w), HonestInv'
  PROVE  BudgetOK'
  <1>1. HonestInv /\ worker[w] \in WorkerStates /\ worker \in [Workers -> WorkerStates]
    BY OfWorker DEF PlaceInv, HonestInv, ShapeOK
  <1>2. ASSUME NEW m, worker' = [worker EXCEPT ![w] = m], m.pc \notin {"hash", "send"},
               worker[w].pc \notin {"hash", "send"}, UNCHANGED <<phase, chan, batch, txn, budget>>
        PROVE  BudgetOK'
    <2>1. /\ \A x \in Workers \ {w} : worker'[x] = worker[x]
          /\ worker'[w] = m
      BY <1>1, <1>2
    <2>2. Own(w) = {} /\ Own(w)' = {}
      BY <1>2, <2>1 DEF Own
    <2>3. HeldUnits' = HeldUnits
      BY <1>1, <1>2, <2>1, <2>2, HeldType, HeldAfter
    <2> QED
      BY <1>2, <2>3, BudgetFrame
  <1>3. CASE Claim(w)
    <2>1. CASE UNCHANGED worker
      BY <1>3, <2>1, HeldStay, BudgetFrame DEF Claim
    <2>2. CASE worker' = [worker EXCEPT ![w].pc = "exited"]
      BY <1>1, <1>2, <1>3, <2>2 DEF Claim, WorkerStates
    <2>3. ASSUME NEW p, worker' = [worker EXCEPT ![w] = [@ EXCEPT !.pc = "read", !.path = p,
                                                  !.fd = disk[p], !.s1 = disk[p].stamp]]
          PROVE  BudgetOK'
      BY <1>1, <1>2, <1>3, <2>3 DEF Claim, WorkerStates
    <2> DEFINE p == files[cursor]
               opened == [worker EXCEPT ![w] = [@ EXCEPT !.pc = "read", !.path = p,
                                                          !.fd = disk[p], !.s1 = disk[p].stamp]]
    <2>4. worker' = worker \/ worker' = [worker EXCEPT ![w].pc = "exited"] \/ worker' = opened
      BY <1>3 DEF Claim
    <2> QED
      BY <2>1, <2>2, <2>3, <2>4
  <1>4. CASE ProbeBody(w)
    BY <1>1, <1>2, <1>4 DEF ProbeBody, WorkerStates
  <1>5. CASE Verdict(w)
    <2>1. CASE ToStart(w)
      BY <1>1, <1>2, <1>5, <2>1 DEF Verdict, ToStart, Idle
    <2>2. CASE worker' = [worker EXCEPT ![w].pc = "acquire", ![w].fd = None]
      BY <1>1, <1>2, <1>5, <2>2 DEF Verdict, WorkerStates
    <2> QED
      BY <1>5, <2>1, <2>2 DEF Verdict
  <1> QED
    BY <1>3, <1>4, <1>5, AcquireBudget, HashBudget, SendBudget DEF WorkerStep

\* A unit moves from the channel to the batch.
LEMMA TakeHeld ==
  ASSUME HonestInv, NEW full, Take(full), worker' = worker
  PROVE  HeldUnits' = HeldUnits
  <1>1. chan \in Seq(Units) /\ batch \in Seq(Units) /\ chan # <<>>
    BY DEF HonestInv, ShapeOK, Take
  <1>2. chan' = Tail(chan) /\ batch' = Append(batch, Head(chan))
    BY DEF Take
  <1>3. Range(chan) = Range(Tail(chan)) \cup {Head(chan)} /\ Head(chan) \in Units
    BY <1>1, RangeOf
  <1>4. Range(batch)' = Range(batch) \cup {Head(chan)} /\ Range(chan)' = Range(Tail(chan))
    BY <1>1, <1>2, <1>3, RangeOf
  <1>5. {worker'[w].unit : w \in Holding'} = {worker[w].unit : w \in Holding}
    BY DEF Holding
  <1> QED
    BY <1>3, <1>4, <1>5 DEF HeldUnits

\* A written unit's bytes are the transaction's.
LEMMA FlushItemBudget ==
  ASSUME PlaceInv, BudgetOK, FlushItem
  PROVE  BudgetOK'
  <1>1. HonestInv /\ OnePlace /\ batch \in Seq(Units) /\ chan \in Seq(Units) /\ batch # <<>>
    BY DEF PlaceInv, HonestInv, ShapeOK, FlushItem
  <1> DEFINE u == Head(batch)
             H == {worker[w].unit : w \in Holding} \cup Range(chan) \cup Range(Tail(batch))
  <1>2. /\ phase \in {"flush_recv", "flush_block", "flush_final"}
        /\ batch' = Tail(batch) /\ UNCHANGED <<phase, worker, chan, budget>>
    BY DEF FlushItem, Flushing
  <1>3. u \in Units /\ Range(batch) = Range(Tail(batch)) \cup {u}
    BY <1>1, RangeOf
  <1>4. HeldUnits = H \cup {u} /\ HeldUnits' = H
    <2>1. {worker'[w].unit : w \in Holding'} = {worker[w].unit : w \in Holding}
      BY <1>2 DEF Holding
    <2> QED
      BY <1>2, <1>3, <2>1 DEF HeldUnits
  <1>5. H \in SUBSET Units /\ IsFiniteSet(H)
    <2>1. PICK w \in Workers : TRUE
      BY ScanAssumption
    <2>2. HeldUnits \in SUBSET Units /\ IsFiniteSet(HeldUnits)
      BY <1>1, <2>1, HeldType
    <2>3. H \in SUBSET HeldUnits
      BY <1>4
    <2> QED
      BY <2>2, <2>3, FS_Subset
  <1>6. u \notin H
    <2>1. InSeq(batch, u.path) /\ batch[1] = u /\ u.path \in Paths /\ 1 \in 1..Len(batch)
      BY <1>1, <1>3 DEF InSeq, Units
    <2>2. ~InSeq(chan, u.path) /\ ~Probed(u.path)
      BY <1>1, <1>2, <2>1 DEF OnePlace
    <2>3. u \notin Range(chan)
      BY <1>1, <2>2, RangeOf DEF InSeq
    <2>4. ASSUME NEW w \in Holding PROVE worker[w].unit # u
      <3>1. w \in Workers /\ worker[w].pc \in {"hash", "send"}
        BY DEF Holding
      <3>2. worker[w].unit.path = worker[w].path
        BY <1>1, <3>1, HoldingUnits
      <3>3. worker[w].path # u.path
        BY <2>2, <3>1 DEF Probed
      <3> QED
        BY <3>2, <3>3
    <2>5. u \notin Range(Tail(batch))
      <3>1. Tail(batch) \in Seq(Units) /\ Len(Tail(batch)) = Len(batch) - 1
            /\ \A i \in 1..(Len(batch) - 1) : Tail(batch)[i] = batch[i + 1]
        BY <1>1
      <3>2. ASSUME NEW i \in 1..(Len(batch) - 1) PROVE batch[i + 1] # u
        <4>1. i + 1 \in 1..Len(batch) /\ i + 1 # 1
          BY <1>1, <3>2
        <4>2. DistinctPaths(batch)
          BY <1>1 DEF OnePlace
        <4> QED
          BY <2>1, <4>1, <4>2 DEF DistinctPaths
      <3> DEFINE t == Tail(batch)
      <3> HIDE DEF t
      <3>3. \A x : x \in Range(t) <=> \E i \in 1..Len(t) : t[i] = x
        BY <3>1, RangeOf DEF t
      <3>4. \A i \in 1..(Len(batch) - 1) : t[i] # u
        BY <3>1, <3>2 DEF t
      <3>5. u \notin Range(t)
        BY <3>1, <3>3, <3>4 DEF t
      <3> QED
        BY <3>5 DEF t
    <2> QED
      BY <2>3, <2>4, <2>5
  <1>7. txn' # None /\ OpenBytes \in Nat /\ OpenBytes' = OpenBytes + payload_weight(u)
    <2>1. payload_weight(u) \in Nat /\ None \notin Transactions
      BY <1>3, WeightType, ScanAssumption
    <2>2. Transaction \in Transactions /\ Transaction.weight = OpenBytes
      BY <1>1, TransactionType DEF Transaction, OpenBytes, Transactions
    <2>3. txn' \in Transactions
      BY <1>1, FlushItemTxn
    <2>4. txn'.weight = Transaction.weight + payload_weight(u)
      BY <2>2 DEF FlushItem, released, Transactions
    <2> QED
      BY <2>1, <2>2, <2>3, <2>4 DEF OpenBytes, Transactions
  <1> HIDE DEF u, H
  <1>8. PayloadBytes(H \cup {u}) = PayloadBytes(H) + payload_weight(u) /\ PayloadBytes(H) \in Nat
    BY <1>3, <1>5, <1>6, BytesOf, BytesWith
  <1>9. payload_weight(u) \in Nat
    BY <1>3, WeightType
  <1>10. PayloadBytes(HeldUnits)' = PayloadBytes(H) /\ PayloadBytes(HeldUnits) = PayloadBytes(H \cup {u})
    BY <1>4 DEF PayloadBytes, payload_weight
  <1>11. AtMostOne(HeldUnits)' <=> AtMostOne(H)
    BY <1>4 DEF AtMostOne, payload_weight
  <1>12. AtMostOne(HeldUnits) => AtMostOne(H)
    BY <1>4 DEF AtMostOne
  <1>13. budget.in_flight = PayloadBytes(HeldUnits) + OpenBytes
    BY <1>2 DEF BudgetOK
  <1>14. budget.in_flight = PayloadBytes(H) + OpenBytes'
    BY <1>7, <1>8, <1>9, <1>10, <1>13
  <1> QED
    BY <1>2, <1>10, <1>11, <1>12, <1>14 DEF BudgetOK

\* A commit gives back what it wrote.
LEMMA FlushCommitBudget ==
  ASSUME PlaceInv, BudgetOK, FlushCommit
  PROVE  BudgetOK'
  <1>1. /\ HonestInv /\ txn # None /\ txn \in Transactions
        /\ budget \in [in_flight : Nat, closed : BOOLEAN] /\ txn.weight \in Nat
    BY DEF PlaceInv, HonestInv, ShapeOK, FlushCommit, Transactions
  <1>2. /\ phase \in {"flush_recv", "flush_block", "flush_final"} /\ phase' \in {"recv", "block", "final"}
        /\ txn' = None /\ UNCHANGED <<worker, chan, batch>>
    BY DEF FlushCommit, Flushing, AfterFlush
  <1>3. HeldUnits' = HeldUnits
    BY <1>2, HeldStay
  <1>4. PayloadBytes(HeldUnits) \in Nat
    <2>1. PICK w \in Workers : TRUE
      BY ScanAssumption
    <2> QED
      BY <1>1, <2>1, HeldType, BytesOf
  <1>5. budget.in_flight = PayloadBytes(HeldUnits) + txn.weight
    BY <1>1, <1>2 DEF BudgetOK, OpenBytes
  <1>6. budget'.in_flight = PayloadBytes(HeldUnits) /\ budget'.closed = budget.closed
    <2>1. budget' = [budget EXCEPT !.in_flight =
                       IF txn.weight > budget.in_flight THEN 0 ELSE budget.in_flight - txn.weight]
      BY DEF FlushCommit, release
    <2>2. ~(txn.weight > budget.in_flight) /\ budget.in_flight - txn.weight = PayloadBytes(HeldUnits)
      BY <1>1, <1>4, <1>5
    <2> QED
      BY <1>1, <2>1, <2>2
  <1>7. OpenBytes' = 0
    BY <1>2 DEF OpenBytes
  <1>8. PayloadBytes(HeldUnits)' = PayloadBytes(HeldUnits) /\ (AtMostOne(HeldUnits)' <=> AtMostOne(HeldUnits))
    BY <1>3 DEF PayloadBytes, payload_weight, AtMostOne
  <1>9. budget'.in_flight > Cap => budget.in_flight > Cap
    BY <1>1, <1>4, <1>5, <1>6, ScanAssumption
  <1> QED
    BY <1>2, <1>4, <1>6, <1>7, <1>8, <1>9 DEF BudgetOK

\* What the caller does to the budget.
LEMMA CallerBudget ==
  ASSUME PlaceInv, BudgetOK, CallerStep
  PROVE  BudgetOK'
  <1>1. HonestInv
    BY DEF PlaceInv
  <1>2. CASE Walk \/ Select \/ FlushNothing \/ PruneStat \/ PruneDelete
    <2>1. UNCHANGED <<worker, chan, batch, budget, txn>>
      BY <1>2 DEF Walk, Select, FlushNothing, PruneStat, PruneDelete
    <2>2. phase \notin {"fatal", "join", "error"}
      BY <1>2 DEF Walk, Select, FlushNothing, Flushing, PruneStat, PruneDelete
    <2> QED
      BY <2>1, <2>2, HeldStay, BudgetFrame
  <1>3. CASE TryRecv \/ Recv
    <2>1. UNCHANGED <<worker, budget, txn>> /\ phase \notin {"fatal", "join", "error"}
      BY <1>3 DEF TryRecv, Recv
    <2>2. CASE Take("flush_recv")
      BY <1>1, <2>1, <2>2, TakeHeld, BudgetFrame
    <2>3. CASE UNCHANGED <<batch, chan>>
      BY <2>1, <2>3, HeldStay, BudgetFrame
    <2> QED
      BY <1>3, <2>2, <2>3 DEF TryRecv, Recv
  <1>4. CASE FlushFails
    <2>1. phase' = "fatal" /\ budget' = budget /\ phase \in {"flush_recv", "flush_block", "flush_final"}
      BY <1>4 DEF FlushFails, Flushing
    <2> QED
      BY <2>1 DEF BudgetOK
  <1>5. CASE Teardown
    BY <1>5 DEF Teardown, BudgetOK
  <1>6. CASE Join
    <2>1. UNCHANGED <<worker, chan, batch, budget, txn>>
      BY <1>6 DEF Join
    <2>2. CASE phase = "join"
      <3>1. phase' = "error"
        BY <1>6, <2>2 DEF Join
      <3> QED
        BY <3>1 DEF BudgetOK
    <2>3. CASE phase = "final"
      BY <2>1, <2>3, HeldStay, BudgetFrame
    <2> QED
      BY <1>6, <2>2, <2>3 DEF Join
  <1> QED
    BY <1>2, <1>3, <1>4, <1>5, <1>6, FlushItemBudget, FlushCommitBudget DEF CallerStep

\* A changed file changes no unit.
LEMMA WorldBudget ==
  ASSUME PlaceInv, BudgetOK, World
  PROVE  BudgetOK'
  <1>1. worker \in [Workers -> WorkerStates]
    BY DEF PlaceInv, HonestInv, ShapeOK
  <1>2. ASSUME NEW p, NEW q, NEW c, Change(p, q, c) PROVE BudgetOK'
    <2>1. UNCHANGED <<phase, chan, batch, txn, budget>>
      BY <1>2 DEF Change
    <2>2. ASSUME NEW w \in Workers PROVE worker'[w].pc = worker[w].pc /\ worker'[w].unit = worker[w].unit
      <3> DEFINE f == [content |-> c, stamp |-> clock + 1]
      <3>1. worker'[w] = IF worker[w].fd # None /\ worker[w].fd = disk[p]
                         THEN [worker[w] EXCEPT !.fd = f] ELSE worker[w]
        BY <1>2 DEF Change
      <3> HIDE DEF f
      <3>2. worker[w] \in WorkerStates
        BY <1>1
      <3> QED
        BY <3>1, <3>2 DEF WorkerStates
    <2> QED
      BY <2>1, <2>2, HeldStay, BudgetFrame
  <1>3. CASE Curate
    <2>1. UNCHANGED <<phase, worker, chan, batch, txn, budget>>
      BY <1>3 DEF Curate
    <2> QED
      BY <2>1, HeldStay, BudgetFrame
  <1> QED
    BY <1>2, <1>3 DEF World, Rewrite, Move, Unlink

\* The budget stays exact.
LEMMA BudgetStep == PlaceInv /\ BudgetOK /\ [Next]_vars => BudgetOK'
  <1> SUFFICES ASSUME PlaceInv, BudgetOK, [Next]_vars PROVE BudgetOK'
    OBVIOUS
  <1>1. HonestInv'
    BY HonestStep DEF PlaceInv
  <1>2. CASE UNCHANGED vars
    BY <1>2, HeldStay, BudgetFrame DEF vars
  <1> QED
    BY <1>1, <1>2, WorkerBudget, CallerBudget, WorldBudget DEF Next

\* At first nothing is held.
LEMMA InitBudget == Init => BudgetOK
  <1> SUFFICES ASSUME Init PROVE BudgetOK
    OBVIOUS
  <1>1. /\ budget.in_flight = 0 /\ budget.closed = FALSE /\ txn = None
        /\ chan = <<>> /\ batch = <<>> /\ \A w \in Workers : worker[w].pc = "claim"
    BY DEF Init, Idle
  <1>2. Range(<<>>) = {}
    BY DEF Range
  <1>3. Holding = {}
    BY <1>1 DEF Holding
  <1>4. HeldUnits = {}
    BY <1>1, <1>2, <1>3 DEF HeldUnits
  <1>5. PayloadBytes({}) = 0
    BY FS_EmptySet, BytesOf
  <1>6. ~(0 > Cap)
    BY ScanAssumption
  <1> QED
    BY <1>1, <1>4, <1>5, <1>6 DEF BudgetOK, OpenBytes

\* The byte budget reserves what is held and nothing else, whoever acquires,
\* hashes, sends, takes, writes and commits in whatever order; and the cap is
\* exceeded only for a payload that is alone.
THEOREM BudgetIsExact == Spec => []BudgetCoversHeldBytes
  <1>1. Spec => [](PlaceInv /\ CountOK)
    BY PlaceAndCount
  <1>2. Init => BudgetOK
    BY InitBudget
  <1>3. PlaceInv /\ PlaceInv' /\ BudgetOK /\ [Next]_vars => BudgetOK'
    BY BudgetStep
  <1>4. PlaceInv /\ BudgetOK => BudgetCoversHeldBytes
    <2> SUFFICES ASSUME PlaceInv, BudgetOK, phase \notin {"fatal", "join", "error"}
                 PROVE  /\ budget.in_flight = PayloadBytes(HeldUnits) + OpenBytes
                        /\ budget.in_flight > Cap =>
                             Cardinality({u \in HeldUnits : payload_weight(u) > 0}) <= 1
      BY DEF BudgetCoversHeldBytes
    <2> DEFINE W == {u \in HeldUnits : payload_weight(u) > 0}
    <2>1. ASSUME AtMostOne(HeldUnits) PROVE Cardinality(W) <= 1
      <3>1. \A x, y \in W : x = y
        BY <2>1 DEF AtMostOne
      <3>2. CASE W = {}
        BY <3>2, FS_EmptySet
      <3>3. ASSUME NEW x \in W PROVE Cardinality(W) <= 1
        <4>1. W = {x}
          BY <3>1, <3>3
        <4> HIDE DEF W
        <4> QED
          BY <4>1, FS_Singleton
      <3> QED
        BY <3>2, <3>3
    <2> QED
      BY <2>1 DEF BudgetOK
  <1> QED
    BY <1>1, <1>2, <1>3, <1>4, PTL DEF Spec

=============================================================================
