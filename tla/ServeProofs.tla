---------------------------- MODULE ServeProofs ----------------------------
(***************************************************************************)
(* Proofs about the layout cache, the size cache and open handles for any  *)
(* number of threads, commits, files, paths and operations in flight.      *)
(***************************************************************************)
EXTENDS Serve, StoreProofs

(***************************************************************************)
(* The inductive invariant.  A cached or half built layout is compared     *)
(* with a row only by content_version, stamp and path; what makes that     *)
(* enough is that within one life of a row everything it was built from    *)
(* is of the row's past, and of its present if the versions agree.         *)
(***************************************************************************)

\* Points between reading the row and having a layout.
Building == {"stat", "lookup", "tags", "art", "insert"}
Statted == Building \ {"stat"}
HasRow == Building \cup {"size", "restat"}

\* What a thread holds at each point; a read holds the handle open.
Shape(l) ==
    /\ l.pc \in HasRow => l.row \in Row
    /\ l.pc \in {"size", "restat"} => l.op = "getattr"
    /\ l.pc \in {"art", "insert"} => l.tags \in Tags
    /\ l.pc = "insert" => l.art \in Arts
    /\ l.pc \in {"restat", "resolved", "store_resolved", "send"} => l.resolved \in Layouts
    /\ l.pc \in {"attempt", "store_resolved", "store_generation", "validate"} => l.op = "read"
    /\ l.pc = "send" => l.op \in {"read", "read_fallback"}
    /\ l.op = "read" => handle # None
    /\ l.op # "none" => l.op \in Operations

ShapeOK == \A t \in Threads : Shape(loc[t])

\* The row or layout l belongs to the present life of the track.
Same(l) == Live(track) /\ l.life = rows[track].life

Past(l) ==
    /\ l.life <= seq
    /\ Live(track) => l.life <= rows[track].life
    /\ Same(l) => l.content_version <= rows[track].content_version

Present(l) == Same(l) /\ l.content_version = rows[track].content_version

Built(l) == Past(l) /\ (Present(l) => SameInputs(l, rows[track]))

\* Whatever is found at path p has not changed before c.
OnDisk(p, c) == c <= clock /\ (dir[p] # None => c <= stat[dir[p]].ctime)

\* A layout whose front was read no earlier than its stamp.
LayoutOK(l) ==
    Built(l) /\ l.stamp.ctime <= l.front /\ OnDisk(l.backing_path, l.front)

\* The identity getattr starts from, and the row it reads later.
IdentityPast(l) ==
    /\ l.life <= seq
    /\ Live(track) => l.life <= rows[track].life
    /\ Live(track) /\ l.life = rows[track].life => l.cv <= rows[track].content_version

\* What a thread that builds or holds a layout has read so far.
ThreadOK(l) ==
    /\ IdentityPast(l)
    /\ l.pc \in HasRow => /\ Built(l.row) /\ l.life <= l.row.life
                          /\ l.life = l.row.life => l.cv <= l.row.content_version
    /\ l.pc \in Statted => OnDisk(l.row.backing_path, l.row.ctime)
    /\ l.pc \in {"art", "insert"} /\ Present(l.row) => l.tags = rows[track].tags
    /\ l.pc = "insert" /\ Present(l.row) => l.art = rows[track].art
    /\ l.pc \in {"resolved", "store_resolved", "send"} => LayoutOK(l.resolved)
    /\ (l.pc = "resolved" /\ Same(l.resolved) /\ l.resolved.life = l.life)
          => l.cv <= l.resolved.content_version

ThreadsOK == \A t \in Threads : ThreadOK(loc[t])

\* Attributes filed under an older version than their layout's.
SizeOK(e) ==
    /\ LayoutOK(e.attrs) /\ e.stamp = e.attrs.stamp /\ e.life <= seq
    /\ Same(e.attrs) /\ e.attrs.life = e.life => e.content_version <= e.attrs.content_version

CachesOK ==
    /\ header_cache # None => LayoutOK(header_cache)
    /\ size_cache # None => SizeOK(size_cache)
    /\ handle # None => LayoutOK(handle.resolved)

ClockOK == \A f \in Files : stat[f].ctime <= clock

LifeOK == Live(track) => rows[track].life \in 1..seq

\* The invariant behind CacheSound, SizeCacheSound and StreamedFromCurrentRow.
CacheInv == TypeOK /\ ShapeOK /\ LifeOK /\ ClockOK /\ ThreadsOK /\ CachesOK

(***************************************************************************)
(* The invariant behind HandleFollowsRefresh: what a refresh has published *)
(* is of the row's past, and a reader, whose invalidation the refresh      *)
(* waits for, never holds anything older than it.                          *)
(***************************************************************************)

\* A version that a poll has read from a row of this life.
Read(life, cv) ==
    /\ life <= seq
    /\ Live(track) => life <= rows[track].life
    /\ Live(track) /\ life = rows[track].life => cv \in Nat /\ cv <= rows[track].content_version

PollOK ==
    /\ last_seq <= seq
    /\ Read(poll.published_life, poll.published)
    /\ (poll.stage = "idle" /\ last_seq = seq /\ Live(track)) =>
          poll.published_life = rows[track].life /\ poll.published = rows[track].content_version
    /\ poll.stage # "idle" =>
          /\ poll.seq <= seq
          /\ Read(poll.life, poll.cv)
          /\ ~poll.missed /\ poll.cv = poll.published => poll.life = poll.published_life
          /\ (poll.seq = seq /\ Live(track)) =>
                poll.life = rows[track].life /\ poll.cv = rows[track].content_version

\* The generations threads and the handle carry have been handed out.
GenerationsOK ==
    /\ \A t \in Threads : loc[t].cur <= refresh_gen
    /\ handle # None => handle.generation <= refresh_gen

\* One open at a time, while there is no handle.
OpenOK == \A t \in Threads : loc[t].op = "open" =>
              handle = None /\ \A u \in Threads : loc[u].op = "open" => u = t

NotBehind(l, life, cv) == Same(l) /\ l.life = life => l.content_version >= cv

Published(l) == NotBehind(l, poll.published_life, poll.published)
Pending(l) == poll.stage = "stamp" => NotBehind(l, poll.life, poll.cv)

\* A read in flight, by handle h: its row is of the life published last, or of
\* a later one.
ReaderAhead(l, h) ==
    /\ l.pc \in Building =>
          /\ Published(l.row) /\ Pending(l.row) /\ poll.published_life <= l.row.life
          /\ poll.stage = "stamp" => poll.life <= l.row.life
    /\ l.pc \in {"resolved", "store_resolved"} => Published(l.resolved) /\ Pending(l.resolved)
    /\ l.pc = "store_generation" => Published(h.resolved) /\ Pending(h.resolved)

\* An open in flight, whose generation will still be the current one.
OpenAhead(l) ==
    l.cur = refresh_gen =>
      /\ l.pc \in Building => Published(l.row) /\ poll.published_life <= l.row.life
      /\ l.pc = "resolved" => Published(l.resolved)

HandleAhead ==
    keep_cache /\ ~poll.missed =>
      /\ \A t \in Threads : /\ loc[t].op = "read" => ReaderAhead(loc[t], handle)
                            /\ loc[t].op = "open" => OpenAhead(loc[t])
      /\ handle # None /\ handle.generation = refresh_gen => Published(handle.resolved)

HandleInv == CacheInv /\ PollOK /\ GenerationsOK /\ OpenOK /\ HandleAhead

(***************************************************************************)
(* The invariant behind CalmOperationsSucceed: nothing moves under a calm  *)
(* operation, so what it has read is what the row says, and the handle it  *)
(* reads by has either been passed by a refresh or agrees with the row.    *)
(***************************************************************************)

RowAgrees(r) ==
    /\ Live(track)
    /\ r.content_version = rows[track].content_version
    /\ RowStamp(r) = RowStamp(rows[track])
    /\ r.backing_path = rows[track].backing_path

Agrees(l) ==
    /\ Live(track)
    /\ l.content_version = rows[track].content_version
    /\ l.stamp = RowStamp(rows[track])
    /\ l.backing_path = rows[track].backing_path

\* A layout resolved under the current generation agrees with the row unless
\* a commit still waits for its refresh.
Waiting == last_seq < seq

\* What thread l, reading by handle h, has resolved.
ResolvedOK(l, h) ==
    (l.op \in {"open", "read"} /\ l.cur = refresh_gen) =>
      /\ l.pc \in Building => Waiting \/ RowAgrees(l.row)
      /\ l.pc \in {"resolved", "store_resolved"} => Waiting \/ Agrees(l.resolved)
      /\ l.pc = "store_generation" => Waiting \/ Agrees(h.resolved)

\* A read has loaded the generation after the one its handle still carries.
GenerationLoaded(l, h) == l.op = "read" /\ l.pc # "attempt" => h.generation <= l.cur

HandleCurrent(h) ==
    h # None /\ ~h.late /\ h.generation = refresh_gen => Waiting \/ Agrees(h.resolved)

CalmOK(l, h) ==
    l.calm =>
      /\ Calm /\ l.pc # "failed"
      /\ l.pc \in HasRow => l.row = rows[track]
      /\ l.pc = "restat" => l.resolved.stamp = RowStamp(rows[track])
      /\ l.pc \in {"resolved", "store_resolved", "send"} => Agrees(l.resolved)
      /\ l.op = "read" =>
           /\ h.file = dir[rows[track].backing_path]
           /\ l.pc = "attempt" => l.attempt = 0 /\ ~h.late
           /\ l.pc \in {"get_track", "resolved", "store_resolved", "store_generation"} \cup Building
                => l.why = "generation" /\ l.cur = refresh_gen
           /\ l.pc \in {"store_generation", "validate"} => Agrees(h.resolved)

CalmThread(l, h) == ResolvedOK(l, h) /\ GenerationLoaded(l, h) /\ CalmOK(l, h)

CalmInv ==
    HandleInv /\ HandleCurrent(handle) /\ \A t \in Threads : CalmThread(loc[t], handle)

\* Nothing overlaps a read by the handle.
SoleReader == (\A t, u \in Threads : t = u) \/ "read" \notin Operations

(***************************************************************************)
(* Types.                                                                  *)
(***************************************************************************)

\* The values a thread's locals take.
LEMMA IdleType == Idle \in Locals
  BY ServeAssumption DEF Idle, Locals, Pcs, AllOperations

\* The fields of a thread's locals.
LEMMA LocalsFields ==
    ASSUME NEW l \in Locals
    PROVE  /\ l.op \in AllOperations \cup {"none"} /\ l.pc \in Pcs
           /\ l.attempt \in 0..Attempts /\ l.cur \in Nat
           /\ l.why \in {"none", "generation", "stale"} /\ l.calm \in BOOLEAN
           /\ l.cv \in Nat /\ l.life \in Nat /\ l.row \in Row \cup {None}
           /\ l.tags \in Tags \cup {None} /\ l.art \in Arts \cup {None}
           /\ l.resolved \in Layouts \cup {None}
  BY DEF Locals

\* The fields of a layout.
LEMMA LayoutFields ==
    ASSUME NEW l \in Layouts
    PROVE  /\ l.content_version \in Nat /\ l.tags \in Tags /\ l.art \in Arts
           /\ l.front \in Ctimes /\ l.backing_path \in Paths /\ l.stamp \in Stamps
           /\ l.life \in Nat /\ l.stamp.ctime \in Ctimes
  BY DEF Layouts, Stamps

\* The fields of a row.
LEMMA RowFields ==
    ASSUME NEW r \in Row
    PROVE  /\ r.content_version \in Nat /\ r.tags \in Tags /\ r.art \in Arts
           /\ r.backing_path \in Paths /\ r.ctime \in Ctimes /\ r.geom \in Geoms
           /\ r.life \in Nat /\ RowStamp(r) \in Stamps /\ RowStamp(r).ctime = r.ctime
  BY DEF Row, RowStamp, Stamps

\* The store has one track.
LEMMA TrackRow ==
    ASSUME StoreTypeOK
    PROVE  track \in Ids /\ Ids = {track} /\ rows[track] \in Row \cup {None}
  BY ServeAssumption DEF StoreTypeOK, Ids, track

\* A stat of a path is a stamp or nothing.
LEMMA StatType ==
    ASSUME TypeOK, NEW p \in Paths
    PROVE  /\ StatPath(p) \in Stamps \cup {None}
           /\ StatPath(p) # None => /\ dir[p] \in Files /\ StatPath(p) = stat[dir[p]]
                                    /\ StatPath(p).ctime \in Ctimes
           /\ dir[p] # None => StatPath(p) # None
  BY ServeAssumption DEF TypeOK, StatPath, Stamps

\* Ending an operation.
LEMMA FinishType ==
    ASSUME TypeOK, NEW t \in Threads, NEW o, Finish(t, o)
    PROVE  /\ loc' \in [Threads -> Locals]
           /\ \A u \in Threads \ {t} : loc'[u] = loc[u]
           /\ loc'[t] = IF o = "done" THEN Idle
                        ELSE [Idle EXCEPT !.pc = "failed", !.calm = loc[t].calm]
  <1>1. [Idle EXCEPT !.pc = "failed", !.calm = loc[t].calm] \in Locals
    BY IdleType, LocalsFields DEF TypeOK, Locals, Pcs
  <1>2. QED
    BY <1>1, IdleType DEF TypeOK, Finish

\* Moving to another point.
LEMMA GotoType ==
    ASSUME TypeOK, NEW t \in Threads, NEW p \in Pcs, Goto(t, p)
    PROVE  /\ loc' \in [Threads -> Locals]
           /\ \A u \in Threads \ {t} : loc'[u] = loc[u]
           /\ loc'[t] = [loc[t] EXCEPT !.pc = p]
  <1>1. [loc[t] EXCEPT !.pc = p] \in Locals
    BY DEF TypeOK, Locals
  <1>2. QED
    BY <1>1 DEF TypeOK, Goto

\* Starting an operation.
LEMMA BeginType ==
    ASSUME TypeOK, NEW t \in Threads, NEW op \in AllOperations, NEW p \in Pcs,
           NEW l \in Locals, Begin(t, op, p, l)
    PROVE  /\ loc' \in [Threads -> Locals] /\ op \in Operations
           /\ \A u \in Threads \ {t} : loc'[u] = loc[u]
           /\ loc'[t].op = op /\ loc'[t].pc = p
           /\ loc'[t].attempt = l.attempt /\ loc'[t].cur = l.cur /\ loc'[t].why = l.why
           /\ loc'[t].cv = l.cv /\ loc'[t].life = l.life /\ loc'[t].row = l.row
           /\ loc'[t].calm =>
                /\ Calm
                /\ op = "read" => handle.file = dir[rows[track].backing_path] /\ ~handle.late
  <1> DEFINE c == /\ Calm
                  /\ op = "read" => /\ handle.file = dir[rows[track].backing_path]
                                    /\ ~handle.late
             m == [l EXCEPT !.op = op, !.pc = p, !.calm = c]
  <1>1. c \in BOOLEAN
    OBVIOUS
  <1>2. loc' = [loc EXCEPT ![t] = m] /\ op \in Operations
    BY DEF Begin
  <1>3. m.calm => c
    BY DEF Locals
  <1>4. c => /\ Calm
             /\ op = "read" => handle.file = dir[rows[track].backing_path] /\ ~handle.late
    OBVIOUS
  <1> HIDE DEF c
  <1>5. /\ m \in Locals /\ m.op = op /\ m.pc = p
        /\ m.attempt = l.attempt /\ m.cur = l.cur /\ m.why = l.why
        /\ m.cv = l.cv /\ m.life = l.life /\ m.row = l.row
    BY <1>1 DEF Locals
  <1> HIDE DEF m
  <1>6. loc' \in [Threads -> Locals] /\ loc'[t] = m /\ \A u \in Threads \ {t} : loc'[u] = loc[u]
    BY <1>2, <1>5 DEF TypeOK
  <1>7. QED
    BY <1>2, <1>3, <1>4, <1>5, <1>6

\* A BackingChanged.
LEMMA BackingChangedType ==
    ASSUME TypeOK, NEW t \in Threads, BackingChanged(t)
    PROVE  /\ loc' \in [Threads -> Locals]
           /\ \A u \in Threads \ {t} : loc'[u] = loc[u]
           /\ size_cache' \in {size_cache, None}
           /\ \/ loc'[t] = [Idle EXCEPT !.pc = "failed", !.calm = loc[t].calm]
              \/ /\ Op(t) = "read_fallback"
                 /\ loc'[t] = [Idle EXCEPT !.op = Op(t), !.pc = "get_track",
                                 !.calm = loc[t].calm, !.attempt = loc[t].attempt + 1]
  <1>1. CASE Op(t) = "read_fallback" /\ loc[t].attempt + 1 < Attempts
    <2> DEFINE m == [Idle EXCEPT !.op = Op(t), !.pc = "get_track", !.calm = loc[t].calm,
                                 !.attempt = loc[t].attempt + 1]
    <2>1. loc[t] \in Locals /\ loc[t].attempt + 1 \in 0..Attempts
      BY <1>1, LocalsFields, ServeAssumption DEF TypeOK
    <2>2. m \in Locals
      BY ZenonT(30), <1>1, <2>1, IdleType, LocalsFields DEF Locals, Pcs, Op
    <2>3. loc' = [loc EXCEPT ![t] = m] /\ UNCHANGED size_cache
      BY <1>1 DEF BackingChanged
    <2> HIDE DEF m
    <2>4. loc' \in [Threads -> Locals] /\ loc'[t] = m /\ \A u \in Threads \ {t} : loc'[u] = loc[u]
      BY <2>2, <2>3 DEF TypeOK
    <2>5. QED
      BY <1>1, <2>3, <2>4 DEF m
  <1>2. CASE ~(Op(t) = "read_fallback" /\ loc[t].attempt + 1 < Attempts)
    <2>1. Finish(t, "failed") /\ size_cache' \in {size_cache, None}
      BY <1>2 DEF BackingChanged
    <2>2. QED
      BY ZenonT(30), <2>1, FinishType
  <1>3. QED
    BY <1>1, <1>2

\* Locals of an operation that has ended; only a calm one that failed shows.
Ended(m, l) ==
    /\ m.op = "none" /\ m.pc \in {"idle", "failed"}
    /\ m.cv = 0 /\ m.life = 0 /\ m.cur = 0
    /\ m.calm => m.pc = "failed" /\ l.calm

\* Locals of a fallback read that starts over.
Retries(m, l) ==
    /\ m.op = "read_fallback" /\ l.op = m.op /\ m.pc = "get_track"
    /\ m.cv = 0 /\ m.life = 0 /\ m.cur = 0 /\ m.calm = l.calm

\* The fields an end leaves.
LEMMA FinishFields ==
    ASSUME TypeOK, NEW t \in Threads, NEW o, Finish(t, o)
    PROVE  Ended(loc'[t], loc[t]) /\ loc'[t].pc = IF o = "done" THEN "idle" ELSE "failed"
  <1>1. CASE o = "done"
    <2>1. loc'[t] = Idle
      BY <1>1, FinishType
    <2>2. QED
      BY <1>1, <2>1 DEF Ended, Idle
  <1>2. CASE o # "done"
    <2>1. loc'[t] = [Idle EXCEPT !.pc = "failed", !.calm = loc[t].calm]
      BY <1>2, FinishType
    <2>2. QED
      BY <1>2, <2>1 DEF Ended, Idle
  <1>3. QED
    BY <1>1, <1>2

\* The fields a BackingChanged leaves.
LEMMA BackingChangedFields ==
    ASSUME TypeOK, NEW t \in Threads, BackingChanged(t)
    PROVE  /\ Ended(loc'[t], loc[t]) \/ Retries(loc'[t], loc[t])
           /\ loc'[t].pc # "idle"
  <1>1. CASE loc'[t] = [Idle EXCEPT !.pc = "failed", !.calm = loc[t].calm]
    BY <1>1 DEF Ended, Idle
  <1>2. CASE /\ Op(t) = "read_fallback"
             /\ loc'[t] = [Idle EXCEPT !.op = Op(t), !.pc = "get_track",
                             !.calm = loc[t].calm, !.attempt = loc[t].attempt + 1]
    BY <1>2 DEF Retries, Idle, Op
  <1>3. QED
    BY <1>1, <1>2, BackingChangedType

\* What a step of thread t leaves alone.
StepFrame(t) ==
    /\ UNCHANGED <<storeVars, dir, stat, clock, refresh_gen, last_seq, poll>>
    /\ \A u \in Threads \ {t} : loc'[u] = loc[u]

\* The locals of one thread replaced.
LEMMA LocUpdate ==
    ASSUME loc \in [Threads -> Locals], NEW t \in Threads, NEW m \in Locals,
           loc' = [loc EXCEPT ![t] = m]
    PROVE  /\ loc' \in [Threads -> Locals] /\ loc'[t] = m
           /\ \A u \in Threads \ {t} : loc'[u] = loc[u]
  OBVIOUS

\* The types carry over when only locals and caches change.
LEMMA TypeFrame ==
    ASSUME TypeOK, NEW t \in Threads, StepFrame(t), loc' \in [Threads -> Locals],
           header_cache' \in Layouts \cup {None}, size_cache' \in SizeEntries \cup {None},
           handle' \in Handles \cup {None}, pages' \in Layouts \cup {None}
    PROVE  TypeOK'
  BY DEF TypeOK, StepFrame, StoreTypeOK, storeVars

\* The steps of HeaderCache::resolve and build.
LEMMA ResolveTypes ==
    ASSUME TypeOK, ShapeOK, NEW t \in Threads,
           \/ GetTrack(t) \/ Stat(t) \/ Lookup(t) \/ BuildTags(t) \/ BuildArt(t) \/ BuildInsert(t)
    PROVE  TypeOK' /\ StepFrame(t)
  <1> DEFINE l == loc[t]
  <1>1. l \in Locals /\ Shape(l) /\ loc \in [Threads -> Locals]
    BY DEF TypeOK, ShapeOK
  <1>2. rows[track] \in Row \cup {None} /\ None \notin Row
    BY TrackRow, StoreAssumption DEF TypeOK
  <1>3. /\ UNCHANGED <<storeVars, dir, stat, clock, refresh_gen, last_seq, poll>>
        /\ UNCHANGED <<handle, pages>>
    BY DEF GetTrack, Stat, Lookup, BuildTags, BuildArt, BuildInsert
  <1>4. /\ header_cache \in Layouts \cup {None} /\ size_cache \in SizeEntries \cup {None}
        /\ handle \in Handles \cup {None} /\ pages \in Layouts \cup {None}
    BY DEF TypeOK
  <1>5. SUFFICES /\ loc' \in [Threads -> Locals] /\ \A u \in Threads \ {t} : loc'[u] = loc[u]
                 /\ header_cache' \in Layouts \cup {None} /\ size_cache' \in SizeEntries \cup {None}
    BY <1>3, <1>4, TypeFrame DEF StepFrame
  <1>6. CASE GetTrack(t)
    <2>1. CASE Live(track)
      <3> DEFINE m == [l EXCEPT !.row = rows[track], !.pc = "stat"]
      <3>1. m \in Locals
        BY <1>1, <1>2, <2>1 DEF Locals, Pcs, Live
      <3>2. loc' = [loc EXCEPT ![t] = m]
        BY <1>6, <2>1, <1>1 DEF GetTrack
      <3> HIDE DEF m
      <3>3. QED
        BY <1>1, <1>4, <1>6, <3>1, <3>2, LocUpdate DEF GetTrack
    <2>2. CASE ~Live(track)
      BY <1>4, <1>6, <2>2, FinishType DEF GetTrack
    <2>3. QED
      BY <2>1, <2>2
  <1>7. CASE Stat(t)
    <2>1. \/ Finish(t, "failed") /\ UNCHANGED size_cache
          \/ Goto(t, "lookup") /\ UNCHANGED size_cache
          \/ BackingChanged(t)
      BY <1>7 DEF Stat
    <2>2. "lookup" \in Pcs
      BY DEF Pcs
    <2>3. UNCHANGED header_cache
      BY <1>7 DEF Stat
    <2>4. QED
      BY <1>4, <2>1, <2>2, <2>3, FinishType, GotoType, BackingChangedType
  <1>8. CASE Lookup(t)
    <2>1. CASE Hit(header_cache, l.row)
      <3> DEFINE m == [l EXCEPT !.resolved = header_cache, !.row = None, !.pc = "resolved"]
      <3>1. m \in Locals
        BY <1>1, <1>4 DEF Locals, Pcs
      <3>2. loc' = [loc EXCEPT ![t] = m]
        BY <1>8, <2>1, <1>1 DEF Lookup
      <3> HIDE DEF m
      <3>3. QED
        BY <1>1, <1>4, <1>8, <3>1, <3>2, LocUpdate DEF Lookup
    <2>2. CASE ~Hit(header_cache, l.row)
      <3>1. Goto(t, "tags") /\ "tags" \in Pcs
        BY <1>8, <2>2 DEF Lookup, Goto, Pcs
      <3>2. QED
        BY <1>4, <1>8, <3>1, GotoType DEF Lookup
    <2>3. QED
      BY <2>1, <2>2
  <1>9. CASE BuildTags(t)
    <2> DEFINE m == [l EXCEPT !.tags = TagsOf(rows[track]), !.pc = "art"]
    <2>1. TagsOf(rows[track]) \in Tags
      BY <1>2, RowFields, StoreAssumption DEF TagsOf
    <2>2. m \in Locals
      BY <1>1, <2>1 DEF Locals, Pcs
    <2>3. loc' = [loc EXCEPT ![t] = m]
      BY <1>9, <1>1 DEF BuildTags
    <2> HIDE DEF m
    <2>4. QED
      BY <1>1, <1>4, <1>9, <2>2, <2>3, LocUpdate DEF BuildTags
  <1>10. CASE BuildArt(t)
    <2> DEFINE m == [l EXCEPT !.art = ArtOf(rows[track]), !.pc = "insert"]
    <2>1. ArtOf(rows[track]) \in Arts
      BY <1>2, RowFields, StoreAssumption DEF ArtOf
    <2>2. m \in Locals
      BY <1>1, <2>1 DEF Locals, Pcs
    <2>3. loc' = [loc EXCEPT ![t] = m]
      BY <1>10, <1>1 DEF BuildArt
    <2> HIDE DEF m
    <2>4. QED
      BY <1>1, <1>4, <1>10, <2>2, <2>3, LocUpdate DEF BuildArt
  <1>11. CASE BuildInsert(t)
    <2> DEFINE s == StatPath(l.row.backing_path)
               built == Layout(l, s.ctime)
    <2>1. l.row \in Row /\ l.tags \in Tags /\ l.art \in Arts
      BY <1>1, <1>11 DEF BuildInsert, At, Shape, HasRow, Building
    <2>2. CASE s = None
      BY <1>4, <1>11, <2>2, FinishType DEF BuildInsert
    <2>3. CASE s # None
      <3> DEFINE m == [l EXCEPT !.resolved = built, !.row = None, !.tags = None, !.art = None,
                                !.pc = "resolved"]
      <3>1. s.ctime \in Ctimes
        BY <2>1, <2>3, RowFields, StatType
      <3>2. built \in Layouts
        BY <2>1, <3>1, RowFields DEF Layout, Layouts
      <3>3. header_cache' = built /\ loc' = [loc EXCEPT ![t] = m] /\ UNCHANGED size_cache
        BY <1>11, <2>3 DEF BuildInsert
      <3> HIDE DEF built
      <3>4. m \in Locals
        BY <1>1, <3>2 DEF Locals, Pcs
      <3> HIDE DEF m
      <3>5. QED
        BY <1>1, <1>4, <3>2, <3>3, <3>4, LocUpdate
    <2>4. QED
      BY <2>2, <2>3
  <1>12. QED
    BY <1>6, <1>7, <1>8, <1>9, <1>10, <1>11

\* The steps of getattr.
LEMMA GetattrTypes ==
    ASSUME TypeOK, ShapeOK, NEW t \in Threads,
           GetattrIdentity(t) \/ GetattrSize(t) \/ GetattrRestat(t) \/ GetattrInsert(t)
    PROVE  TypeOK' /\ StepFrame(t)
  <1> DEFINE l == loc[t]
  <1>1. l \in Locals /\ Shape(l) /\ loc \in [Threads -> Locals]
    BY DEF TypeOK, ShapeOK
  <1>2. rows[track] \in Row \cup {None} /\ None \notin Row
    BY TrackRow, StoreAssumption DEF TypeOK
  <1>3. /\ UNCHANGED <<storeVars, dir, stat, clock, refresh_gen, last_seq, poll>>
        /\ UNCHANGED <<header_cache, handle, pages>>
    BY DEF GetattrIdentity, GetattrSize, GetattrRestat, GetattrInsert
  <1>4. /\ header_cache \in Layouts \cup {None} /\ size_cache \in SizeEntries \cup {None}
        /\ handle \in Handles \cup {None} /\ pages \in Layouts \cup {None}
    BY DEF TypeOK
  <1>5. SUFFICES /\ loc' \in [Threads -> Locals] /\ \A u \in Threads \ {t} : loc'[u] = loc[u]
                 /\ size_cache' \in SizeEntries \cup {None}
    BY <1>3, <1>4, TypeFrame DEF StepFrame
  <1>6. CASE GetattrIdentity(t)
    <2> DEFINE m == [Idle EXCEPT !.row = rows[track], !.cv = rows[track].content_version,
                                 !.life = rows[track].life]
    <2>1. "getattr" \in AllOperations /\ {"size", "failed"} \subseteq Pcs
      BY DEF AllOperations, Pcs
    <2>2. CASE Live(track)
      <3>1. rows[track] \in Row
        BY <1>2, <2>2 DEF Live
      <3>2. m \in Locals
        BY <3>1, IdleType, RowFields DEF Locals
      <3>3. Begin(t, "getattr", "size", m)
        BY <1>6, <2>2 DEF GetattrIdentity
      <3> HIDE DEF m
      <3>4. QED
        BY <1>4, <1>6, <2>1, <3>2, <3>3, BeginType DEF GetattrIdentity
    <2>3. CASE ~Live(track)
      BY <1>4, <1>6, <2>1, <2>3, IdleType, BeginType DEF GetattrIdentity
    <2>4. QED
      BY <2>2, <2>3
  <1>7. CASE GetattrSize(t)
    <2>1. CASE SizeHit(size_cache, l.row) /\ trust_backing_mtime
      BY <1>4, <1>7, <2>1, FinishType DEF GetattrSize
    <2>2. CASE SizeHit(size_cache, l.row) /\ ~trust_backing_mtime
      <3> DEFINE m == [l EXCEPT !.resolved = size_cache.attrs, !.pc = "restat"]
      <3>1. size_cache.attrs \in Layouts
        BY <1>4, <2>2 DEF SizeHit, SizeEntries
      <3>2. m \in Locals
        BY <1>1, <3>1 DEF Locals, Pcs
      <3>3. loc' = [loc EXCEPT ![t] = m]
        BY <1>1, <1>7, <2>2 DEF GetattrSize
      <3> HIDE DEF m
      <3>4. QED
        BY <1>1, <1>4, <1>7, <3>2, <3>3, LocUpdate DEF GetattrSize
    <2>3. CASE ~SizeHit(size_cache, l.row)
      <3> DEFINE m == [l EXCEPT !.row = None, !.pc = "get_track"]
      <3>1. m \in Locals
        BY <1>1 DEF Locals, Pcs
      <3>2. loc' = [loc EXCEPT ![t] = m]
        BY <1>1, <1>7, <2>3 DEF GetattrSize
      <3> HIDE DEF m
      <3>3. QED
        BY <1>1, <1>4, <1>7, <3>1, <3>2, LocUpdate DEF GetattrSize
    <2>4. QED
      BY <2>1, <2>2, <2>3
  <1>8. CASE GetattrRestat(t)
    <2>1. \/ Finish(t, "failed") /\ UNCHANGED size_cache
          \/ Finish(t, "done") /\ UNCHANGED size_cache
          \/ BackingChanged(t)
      BY <1>8 DEF GetattrRestat
    <2>2. QED
      BY <1>4, <2>1, FinishType, BackingChangedType
  <1>9. CASE GetattrInsert(t)
    <2>1. l.resolved \in Layouts
      BY <1>1, <1>9 DEF GetattrInsert, At, Shape
    <2>2. size_cache' \in SizeEntries
      BY <1>1, <1>9, <2>1, LocalsFields, LayoutFields DEF GetattrInsert, SizeEntry, SizeEntries
    <2>3. QED
      BY <1>9, <2>2, FinishType DEF GetattrInsert
  <1>10. QED
    BY <1>6, <1>7, <1>8, <1>9

\* An open that finds the stamp of its layout opens a file.
LEMMA OpenedType ==
    ASSUME TypeOK, NEW l \in Locals, l.resolved \in Layouts,
           StatPath(l.resolved.backing_path) = l.resolved.stamp
    PROVE  Opened(l) \in Handles /\ Opened(l) # None
  <1>1. StatPath(l.resolved.backing_path) # None
    BY LayoutFields, ServeAssumption
  <1>2. dir[l.resolved.backing_path] \in Files
    BY <1>1, LayoutFields, StatType
  <1>3. Opened(l) \in Handles
    BY <1>2, LocalsFields DEF Opened, Handles
  <1>4. QED
    BY <1>3, ServeAssumption

\* The steps of open_handle.
LEMMA OpenTypes ==
    ASSUME TypeOK, ShapeOK, NEW t \in Threads, OpenBegin(t) \/ OpenFile(t)
    PROVE  TypeOK' /\ StepFrame(t)
  <1> DEFINE l == loc[t]
  <1>1. l \in Locals /\ Shape(l) /\ loc \in [Threads -> Locals]
    BY DEF TypeOK, ShapeOK
  <1>2. /\ UNCHANGED <<storeVars, dir, stat, clock, refresh_gen, last_seq, poll>>
        /\ UNCHANGED <<header_cache, pages>>
    BY DEF OpenBegin, OpenFile
  <1>3. /\ header_cache \in Layouts \cup {None} /\ size_cache \in SizeEntries \cup {None}
        /\ handle \in Handles \cup {None} /\ pages \in Layouts \cup {None}
    BY DEF TypeOK
  <1>4. SUFFICES /\ loc' \in [Threads -> Locals] /\ \A u \in Threads \ {t} : loc'[u] = loc[u]
                 /\ size_cache' \in SizeEntries \cup {None} /\ handle' \in Handles \cup {None}
    BY <1>2, <1>3, TypeFrame DEF StepFrame
  <1>5. CASE OpenBegin(t)
    <2> DEFINE m == [Idle EXCEPT !.cur = refresh_gen]
    <2>1. m \in Locals
      BY IdleType DEF Locals, TypeOK
    <2>2. Begin(t, "open", "get_track", m) /\ UNCHANGED <<size_cache, handle>>
      BY <1>5 DEF OpenBegin
    <2> HIDE DEF m
    <2>3. "open" \in AllOperations /\ "get_track" \in Pcs
      BY DEF AllOperations, Pcs
    <2>4. QED
      BY <1>3, <2>1, <2>2, <2>3, BeginType
  <1>6. CASE OpenFile(t)
    <2> DEFINE s == StatPath(l.resolved.backing_path)
    <2>1. l.resolved \in Layouts
      BY <1>1, <1>6 DEF OpenFile, At, Shape
    <2>2. CASE s # None /\ s = l.resolved.stamp
      <3>1. Opened(l) \in Handles
        BY <1>1, <2>1, <2>2, OpenedType
      <3>2. QED
        BY <1>3, <1>6, <2>2, <3>1, FinishType DEF OpenFile
    <2>3. CASE ~(s # None /\ s = l.resolved.stamp)
      <3>1. \/ Finish(t, "failed") /\ UNCHANGED <<size_cache, handle>>
            \/ BackingChanged(t) /\ UNCHANGED handle
        <4>1. l.resolved.stamp # None
          BY <2>1, LayoutFields, ServeAssumption
        <4>2. CASE s = None
          BY <1>6, <4>1, <4>2 DEF OpenFile
        <4>3. CASE s # None
          BY <1>6, <2>3, <4>3 DEF OpenFile
        <4>4. QED
          BY <4>2, <4>3
      <3>2. QED
        BY <1>3, <3>1, FinishType, BackingChangedType
    <2>4. QED
      BY <2>2, <2>3
  <1>7. QED
    BY <1>5, <1>6

\* The steps of a read, by handle or without.
LEMMA ReadTypes ==
    ASSUME TypeOK, ShapeOK, NEW t \in Threads,
           \/ ReadBegin(t) \/ ReadAttempt(t) \/ ReadRecheck(t) \/ StoreResolved(t)
           \/ StoreGeneration(t) \/ ReadValidate(t) \/ ReadSend(t)
           \/ FallbackBegin(t) \/ FallbackOpen(t)
    PROVE  TypeOK' /\ StepFrame(t)
  <1> DEFINE l == loc[t]
  <1>1. l \in Locals /\ Shape(l) /\ loc \in [Threads -> Locals]
    BY DEF TypeOK, ShapeOK
  <1>2. /\ UNCHANGED <<storeVars, dir, stat, clock, refresh_gen, last_seq, poll>>
        /\ UNCHANGED <<header_cache>>
    BY DEF ReadBegin, ReadAttempt, ReadRecheck, StoreResolved, StoreGeneration, ReadValidate,
       ReadSend, FallbackBegin, FallbackOpen
  <1>3. /\ header_cache \in Layouts \cup {None} /\ size_cache \in SizeEntries \cup {None}
        /\ handle \in Handles \cup {None} /\ pages \in Layouts \cup {None}
        /\ refresh_gen \in Nat
    BY DEF TypeOK
  <1>4. SUFFICES /\ loc' \in [Threads -> Locals] /\ \A u \in Threads \ {t} : loc'[u] = loc[u]
                 /\ size_cache' \in SizeEntries \cup {None} /\ handle' \in Handles \cup {None}
                 /\ pages' \in Layouts \cup {None}
    BY <1>2, <1>3, TypeFrame DEF StepFrame
  <1>5. {"read", "read_fallback"} \subseteq AllOperations
        /\ {"attempt", "get_track", "send", "validate"} \subseteq Pcs
    BY DEF AllOperations, Pcs
  <1>6. CASE ReadBegin(t)
    BY <1>3, <1>5, <1>6, IdleType, BeginType DEF ReadBegin
  <1>7. CASE ReadAttempt(t)
    <2>1. CASE Exhausted(l)
      BY <1>3, <1>7, <2>1, BackingChangedType DEF ReadAttempt
    <2>2. CASE ~Exhausted(l)
      <3> DEFINE w == IF GenerationMoved THEN "generation" ELSE "none"
                 p == IF GenerationMoved THEN "get_track" ELSE "validate"
                 m == [l EXCEPT !.attempt = @ + 1, !.cur = refresh_gen, !.why = w, !.pc = p]
      <3>1. l.attempt + 1 \in 0..Attempts
        BY <1>1, <2>2, LocalsFields, ServeAssumption DEF Exhausted
      <3>2. w \in {"none", "generation", "stale"} /\ p \in Pcs
        BY <1>5
      <3>3. loc' = [loc EXCEPT ![t] = m]
        BY <1>1, <1>7, <2>2 DEF ReadAttempt
      <3> HIDE DEF w, p
      <3>4. m \in Locals
        BY <1>1, <1>3, <3>1, <3>2 DEF Locals
      <3> HIDE DEF m
      <3>5. QED
        BY <1>1, <1>3, <1>7, <2>2, <3>3, <3>4, LocUpdate DEF ReadAttempt
    <2>3. QED
      BY <2>1, <2>2
  <1>8. CASE ReadRecheck(t)
    <2> DEFINE m == [l EXCEPT !.resolved = None, !.pc = "attempt"]
               n == [l EXCEPT !.pc = "store_resolved"]
    <2>1. m \in Locals /\ n \in Locals
      BY <1>1 DEF Locals, Pcs
    <2>2. loc' = [loc EXCEPT ![t] = m] \/ loc' = [loc EXCEPT ![t] = n]
      BY <1>1, <1>8 DEF ReadRecheck
    <2> HIDE DEF m, n
    <2>3. QED
      BY <1>1, <1>3, <1>8, <2>1, <2>2, LocUpdate DEF ReadRecheck
  <1>9. CASE StoreResolved(t)
    <2> DEFINE m == [l EXCEPT !.resolved = None, !.pc = "store_generation"]
    <2>1. m \in Locals
      BY <1>1 DEF Locals, Pcs
    <2>2. loc' = [loc EXCEPT ![t] = m]
      BY <1>1, <1>9 DEF StoreResolved
    <2> HIDE DEF m
    <2>3. handle \in Handles /\ l.resolved \in Layouts
      BY <1>1, <1>3, <1>9 DEF StoreResolved, At, Shape
    <2>4. handle' \in Handles
      BY <1>9, <2>3 DEF StoreResolved, Handles
    <2>5. QED
      BY <1>1, <1>3, <1>9, <2>1, <2>2, <2>4, LocUpdate DEF StoreResolved
  <1>10. CASE StoreGeneration(t)
    <2>1. handle \in Handles /\ l.cur \in Nat
      BY <1>1, <1>3, <1>10 DEF StoreGeneration, At, Shape, Locals
    <2> DEFINE g == IF l.why = "stale" THEN refresh_gen ELSE l.cur
               b == l.why = "stale" /\ refresh_gen # l.cur
    <2>2. g \in Nat /\ b \in BOOLEAN
      BY <1>3, <2>1
    <2>3. handle' = [handle EXCEPT !.generation = g, !.late = b]
      BY <1>10 DEF StoreGeneration
    <2> HIDE DEF g, b
    <2>4. handle' \in Handles
      BY <2>1, <2>2, <2>3 DEF Handles
    <2>5. \E p \in Pcs : Goto(t, p)
      BY <1>5, <1>10 DEF StoreGeneration
    <2>6. QED
      BY <1>3, <1>10, <2>4, <2>5, GotoType DEF StoreGeneration
  <1>11. CASE ReadValidate(t)
    <2>1. CASE stat[handle.file] = handle.resolved.stamp
      <3> DEFINE m == [l EXCEPT !.resolved = handle.resolved, !.pc = "send"]
      <3>1. handle.resolved \in Layouts
        BY <1>1, <1>3, <1>11 DEF ReadValidate, At, Shape, Handles
      <3>2. m \in Locals
        BY <1>1, <3>1 DEF Locals, Pcs
      <3>3. loc' = [loc EXCEPT ![t] = m]
        BY <1>1, <1>11, <2>1 DEF ReadValidate
      <3> HIDE DEF m
      <3>4. QED
        BY <1>1, <1>3, <1>11, <2>1, <3>2, <3>3, LocUpdate DEF ReadValidate
    <2>2. CASE stat[handle.file] # handle.resolved.stamp
      BY <1>3, <1>11, <2>2, BackingChangedType DEF ReadValidate
    <2>3. QED
      BY <2>1, <2>2
  <1>12. CASE ReadSend(t)
    <2> DEFINE m == [l EXCEPT !.why = "stale", !.resolved = None, !.pc = "get_track"]
    <2>1. l.resolved \in Layouts
      BY <1>1, <1>12 DEF ReadSend, At, Shape
    <2>2. m \in Locals
      BY <1>1 DEF Locals, Pcs
    <2>3. \/ Served(t)
          \/ Finish(t, "failed") /\ UNCHANGED <<size_cache, pages>>
          \/ loc' = [loc EXCEPT ![t] = m] /\ UNCHANGED <<size_cache, pages>>
          \/ BackingChanged(t) /\ UNCHANGED pages
      BY <1>1, <1>12 DEF ReadSend
    <2> HIDE DEF m
    <2>4. UNCHANGED handle
      BY <1>12 DEF ReadSend
    <2>5. CASE Served(t)
      BY <1>3, <2>1, <2>4, <2>5, FinishType DEF Served
    <2>6. QED
      BY <1>1, <1>3, <2>2, <2>3, <2>4, <2>5, FinishType, LocUpdate, BackingChangedType
  <1>13. CASE FallbackBegin(t)
    BY <1>3, <1>5, <1>13, IdleType, BeginType DEF FallbackBegin
  <1>14. CASE FallbackOpen(t)
    <2>1. \/ Finish(t, "failed") /\ UNCHANGED size_cache
          \/ Goto(t, "send") /\ UNCHANGED size_cache
          \/ BackingChanged(t)
      BY <1>14 DEF FallbackOpen
    <2>2. QED
      BY <1>3, <1>5, <1>14, <2>1, FinishType, GotoType, BackingChangedType DEF FallbackOpen
  <1>15. QED
    BY <1>6, <1>7, <1>8, <1>9, <1>10, <1>11, <1>12, <1>13, <1>14

\* Every step of a thread keeps the types and leaves store, disk and refresh alone.
LEMMA StepTypes ==
    ASSUME TypeOK, ShapeOK, NEW t \in Threads, Step(t)
    PROVE  TypeOK' /\ StepFrame(t)
  BY ResolveTypes, GetattrTypes, OpenTypes, ReadTypes DEF Step

(***************************************************************************)
(* What the environment does.                                              *)
(***************************************************************************)

\* A disturbance only ends the calm.
LEMMA DisturbedType ==
    ASSUME TypeOK, Disturbed
    PROVE  /\ loc' \in [Threads -> Locals]
           /\ \A t \in Threads : loc'[t] = [loc[t] EXCEPT !.calm = FALSE]
  <1>1. \A t \in Threads : [loc[t] EXCEPT !.calm = FALSE] \in Locals
    BY ZenonT(30) DEF TypeOK, Locals
  <1>2. QED
    BY <1>1 DEF Disturbed

\* How the file found at path p may change: it does not, or its ctime is new.
PathStep(p) ==
    dir'[p] # None =>
      \/ stat'[dir'[p]].ctime = clock + 1
      \/ dir'[p] = dir[p] /\ stat'[dir'[p]].ctime = stat[dir[p]].ctime

\* A change of the backing files.
DiskStep ==
    /\ clock' = clock + 1
    /\ \A f \in Files : stat'[f].ctime \in {stat[f].ctime, clock + 1}
    /\ \A p \in Paths : PathStep(p)
    /\ UNCHANGED <<storeVars, header_cache, size_cache, handle, refresh_gen, last_seq, poll, pages>>
    /\ Disturbed

\* An in-place rewrite moves the ctime of every path to the file.
LEMMA RewriteStep ==
    ASSUME TypeOK, NEW f \in Files, NEW g \in Geoms, RewriteFile(f, g)
    PROVE  TypeOK' /\ DiskStep
  <1>1. clock \in Nat /\ clock + 1 \in Ctimes /\ clock' = clock + 1
    BY ServeAssumption DEF TypeOK, RewriteFile, Tick
  <1> DEFINE s == [geom |-> g, ctime |-> clock + 1]
  <1>2. s \in Stamps /\ s.ctime = clock + 1
    BY <1>1 DEF Stamps
  <1>3. stat' = [stat EXCEPT ![f] = s] /\ dir' = dir /\ Disturbed
        /\ UNCHANGED <<storeVars, header_cache, size_cache, handle, refresh_gen, last_seq, poll, pages>>
    BY DEF RewriteFile
  <1> HIDE DEF s
  <1>4. stat' \in [Files -> Stamps] /\ stat'[f] = s /\ \A e \in Files \ {f} : stat'[e] = stat[e]
    BY <1>2, <1>3 DEF TypeOK
  <1>5. TypeOK'
    BY <1>1, <1>3, <1>4, DisturbedType DEF TypeOK, StoreTypeOK, storeVars
  <1>6. \A p \in Paths : dir[p] # None => dir[p] \in Files
    BY DEF TypeOK
  <1>7. \A p \in Paths : PathStep(p)
    BY <1>2, <1>3, <1>4, <1>6 DEF PathStep
  <1>8. QED
    BY <1>1, <1>2, <1>3, <1>4, <1>5, <1>7 DEF DiskStep

\* A rename over a path puts a new file there; the old one is unlinked.
LEMMA ReplaceStep ==
    ASSUME TypeOK, NEW p \in Paths, NEW f \in Files, NEW g \in Geoms, ReplaceFile(p, f, g)
    PROVE  TypeOK' /\ DiskStep
  <1>1. clock \in Nat /\ clock + 1 \in Ctimes /\ clock' = clock + 1
    BY ServeAssumption DEF TypeOK, ReplaceFile, Tick
  <1>2. dir[p] \in Files /\ dir[p] # f
    BY DEF TypeOK, ReplaceFile
  <1> DEFINE s == [geom |-> g, ctime |-> clock + 1]
             o == [stat[dir[p]] EXCEPT !.ctime = clock + 1]
  <1>3. s \in Stamps /\ s.ctime = clock + 1
    BY <1>1 DEF Stamps
  <1>4. o \in Stamps /\ o.ctime = clock + 1
    BY <1>1, <1>2 DEF Stamps, TypeOK
  <1>5. dir' = [dir EXCEPT ![p] = f] /\ Disturbed
        /\ UNCHANGED <<storeVars, header_cache, size_cache, handle, refresh_gen, last_seq, poll, pages>>
    BY DEF ReplaceFile
  <1>6. stat' = [[stat EXCEPT ![f] = s] EXCEPT ![dir[p]] = o]
    BY <1>2 DEF ReplaceFile, TypeOK
  <1> HIDE DEF s, o
  <1>7. /\ stat' \in [Files -> Stamps] /\ stat'[f] = s /\ stat'[dir[p]] = o
        /\ \A e \in Files \ {f, dir[p]} : stat'[e] = stat[e]
    BY <1>2, <1>3, <1>4, <1>6 DEF TypeOK
  <1>8. /\ dir' \in [Paths -> Files \cup {None}] /\ dir'[p] = f
        /\ \A q \in Paths \ {p} : dir'[q] = dir[q]
    BY <1>5 DEF TypeOK
  <1>9. TypeOK'
    BY <1>1, <1>5, <1>7, <1>8, DisturbedType DEF TypeOK, StoreTypeOK, storeVars
  <1>10. \A q \in Paths : dir[q] # None => dir[q] \in Files
    BY DEF TypeOK
  <1>11. \A q \in Paths : PathStep(q)
    BY <1>3, <1>4, <1>7, <1>8, <1>10 DEF PathStep
  <1>12. \A e \in Files : stat'[e].ctime \in {stat[e].ctime, clock + 1}
    BY <1>3, <1>4, <1>7
  <1>13. QED
    BY <1>1, <1>5, <1>9, <1>11, <1>12 DEF DiskStep

\* A rename to a free path takes the file along and moves its ctime.
LEMMA MoveStep ==
    ASSUME TypeOK, NEW p \in Paths, NEW q \in Paths, MoveFile(p, q)
    PROVE  TypeOK' /\ DiskStep
  <1>1. clock \in Nat /\ clock + 1 \in Ctimes /\ clock' = clock + 1
    BY ServeAssumption DEF TypeOK, MoveFile, Tick
  <1>2. dir[p] \in Files /\ p # q
    BY DEF TypeOK, MoveFile
  <1> DEFINE o == [stat[dir[p]] EXCEPT !.ctime = clock + 1]
  <1>3. o \in Stamps /\ o.ctime = clock + 1
    BY <1>1, <1>2 DEF Stamps, TypeOK
  <1>4. dir' = [dir EXCEPT ![q] = dir[p], ![p] = None] /\ Disturbed
        /\ UNCHANGED <<storeVars, header_cache, size_cache, handle, refresh_gen, last_seq, poll, pages>>
    BY DEF MoveFile
  <1>5. stat' = [stat EXCEPT ![dir[p]] = o]
    BY DEF MoveFile
  <1> HIDE DEF o
  <1>6. /\ stat' \in [Files -> Stamps] /\ stat'[dir[p]] = o
        /\ \A e \in Files \ {dir[p]} : stat'[e] = stat[e]
    BY <1>2, <1>3, <1>5 DEF TypeOK
  <1>7. /\ dir' \in [Paths -> Files \cup {None}] /\ dir'[q] = dir[p] /\ dir'[p] = None
        /\ \A r \in Paths \ {p, q} : dir'[r] = dir[r]
    BY <1>2, <1>4 DEF TypeOK
  <1>8. TypeOK'
    BY <1>1, <1>4, <1>6, <1>7, DisturbedType DEF TypeOK, StoreTypeOK, storeVars
  <1>9. \A r \in Paths : dir[r] # None => dir[r] \in Files
    BY DEF TypeOK
  <1>10. \A r \in Paths : PathStep(r)
    BY <1>3, <1>6, <1>7, <1>9 DEF PathStep
  <1>11. \A e \in Files : stat'[e].ctime \in {stat[e].ctime, clock + 1}
    BY <1>3, <1>6
  <1>12. QED
    BY <1>1, <1>4, <1>8, <1>10, <1>11 DEF DiskStep

\* The scanner and the editors are writers of the store.
LEMMA WriteIsWriter ==
    ASSUME TypeOK, Write
    PROVE  Writer
  <1>1. track \in Ids /\ 1 \in 1..MaxBurst /\ 1 \in 0..MaxBurst
    BY TrackRow, StoreAssumption DEF TypeOK
  <1>2. CASE EditorWrites
    BY <1>1, <1>2 DEF EditorWrites, Writer
  <1>3. CASE ScannerWrites
    <2>1. PICK p \in Paths, f \in Formats :
            /\ dir[p] # None
            /\ LET s == stat[dir[p]] IN
               \/ /\ Live(track) /\ rows[track].backing_path = p
                  /\ upsert_track(track, f, s.geom, s.ctime)
               \/ /\ Live(track) /\ StatPath(rows[track].backing_path) = None
                  /\ retarget_track(track, p, s.geom, s.ctime)
               \/ \E t \in Tags, a \in Arts :
                     insert_track(track, f, t, a, p, s.geom, s.ctime, 1)
      BY <1>3 DEF ScannerWrites
    <2>2. stat[dir[p]].geom \in Geoms /\ stat[dir[p]].ctime \in Ctimes
      BY <2>1 DEF TypeOK, Stamps
    <2>3. CASE upsert_track(track, f, stat[dir[p]].geom, stat[dir[p]].ctime)
      BY <1>1, <2>2, <2>3 DEF Writer
    <2>4. CASE retarget_track(track, p, stat[dir[p]].geom, stat[dir[p]].ctime)
      BY <1>1, <2>2, <2>4 DEF Writer
    <2>5. CASE \E t \in Tags, a \in Arts :
                  insert_track(track, f, t, a, p, stat[dir[p]].geom, stat[dir[p]].ctime, 1)
      BY <1>1, <2>2, <2>5 DEF Writer
    <2>6. QED
      BY <2>1, <2>3, <2>4, <2>5
  <1>4. QED
    BY <1>2, <1>3 DEF Write

\* A commit, as StoreProofs describes it, which disturbs every operation.
LEMMA WriteStep ==
    ASSUME TypeOK, Write
    PROVE  /\ TypeOK' /\ RowStep(track) /\ seq' >= seq /\ Disturbed
           /\ UNCHANGED <<dir, stat, clock, header_cache, size_cache, handle,
                          refresh_gen, last_seq, poll, pages>>
  <1>1. StoreTypeOK' /\ LogStep /\ RowStep(track)
    BY WriteIsWriter, WriterStep, TrackRow DEF TypeOK
  <1>2. /\ Disturbed
        /\ UNCHANGED <<dir, stat, clock, header_cache, size_cache, handle,
                       refresh_gen, last_seq, poll, pages>>
    BY DEF Write
  <1>3. TypeOK'
    BY <1>1, <1>2, DisturbedType DEF TypeOK
  <1>4. QED
    BY <1>1, <1>2, <1>3 DEF LogStep

\* An eviction, a release and the stages of a refresh keep the types.
LEMMA OtherTypes ==
    ASSUME TypeOK, Evict \/ Release \/ PollRead \/ PollNotify \/ PollStamp
    PROVE  TypeOK' /\ UNCHANGED <<storeVars, dir, stat, clock, loc>>
  <1>1. UNCHANGED <<storeVars, dir, stat, clock, loc>>
    BY DEF Evict, Release, PollRead, PollNotify, PollStamp
  <1>2. StoreTypeOK'
    BY <1>1 DEF TypeOK, StoreTypeOK, storeVars
  <1>3. poll \in Polls /\ seq \in Nat /\ rows[track] \in Row \cup {None}
    BY TrackRow DEF TypeOK, StoreTypeOK
  <1>4. CASE Evict \/ Release
    BY <1>1, <1>2, <1>4 DEF TypeOK, Evict, Release
  <1>5. CASE PollRead
    <2> DEFINE cv == IF Live(track) THEN rows[track].content_version ELSE None
               life == IF Live(track) THEN rows[track].life ELSE 0
               missed == poll.missed \/ (cv = poll.published /\ life # poll.published_life)
    <2>1. cv \in Nat \cup {None} /\ life \in Nat /\ missed \in BOOLEAN
      BY <1>3, RowFields DEF Live, Polls
    <2>2. poll' = [poll EXCEPT !.stage = "notify", !.seq = seq, !.cv = cv, !.life = life,
                               !.missed = missed]
      BY <1>5 DEF PollRead
    <2> HIDE DEF cv, life, missed
    <2>3. poll' \in Polls
      BY <1>3, <2>1, <2>2 DEF Polls
    <2>4. QED
      BY <1>1, <1>2, <1>5, <2>3 DEF TypeOK, PollRead
  <1>6. CASE PollNotify
    <2>1. poll' \in Polls
      BY <1>3, <1>6 DEF Polls, PollNotify
    <2>2. QED
      BY <1>1, <1>2, <1>6, <2>1 DEF TypeOK, PollNotify
  <1>7. CASE PollStamp
    <2>1. poll' \in Polls
      BY <1>3, <1>7 DEF Polls, PollStamp
    <2>2. poll.seq \in Nat /\ NextGeneration \in Nat
      BY <1>3 DEF Polls, NextGeneration, TypeOK
    <2>3. QED
      BY <1>1, <1>2, <1>7, <2>1, <2>2 DEF TypeOK, PollStamp
  <1>8. QED
    BY <1>1, <1>4, <1>5, <1>6, <1>7

(***************************************************************************)
(* The shape of a thread's locals.                                         *)
(***************************************************************************)

\* The other threads keep their shape unless the handle goes.
LEMMA ShapeOthers ==
    ASSUME ShapeOK, NEW t \in Threads, StepFrame(t), NEW u \in Threads \ {t},
           handle' # None \/ handle' = handle
    PROVE  Shape(loc[u])'
  <1>1. loc'[u] = loc[u] /\ Shape(loc[u])
    BY DEF StepFrame, ShapeOK
  <1>2. QED
    BY <1>1 DEF Shape

\* An operation that has ended, or starts over, holds nothing.
LEMMA EndedShape ==
    ASSUME ShapeOK, NEW t \in Threads, Ended(loc'[t], loc[t]) \/ Retries(loc'[t], loc[t])
    PROVE  Shape(loc[t])'
  BY DEF Ended, Retries, Shape, ShapeOK, HasRow, Building

\* What resolving does to the shape of a thread.
LEMMA ResolveShape ==
    ASSUME TypeOK, ShapeOK, NEW t \in Threads,
           \/ GetTrack(t) \/ Stat(t) \/ Lookup(t) \/ BuildTags(t) \/ BuildArt(t) \/ BuildInsert(t)
    PROVE  ShapeOK'
  <1> DEFINE l == loc[t]
  <1>1. l \in Locals /\ Shape(l) /\ loc \in [Threads -> Locals]
    BY DEF TypeOK, ShapeOK
  <1>2. TypeOK' /\ StepFrame(t) /\ UNCHANGED handle
    BY ResolveTypes DEF GetTrack, Stat, Lookup, BuildTags, BuildArt, BuildInsert
  <1>3. rows[track] \in Row \cup {None}
    BY TrackRow DEF TypeOK
  <1>4. SUFFICES Shape(loc[t])'
    BY <1>2, ShapeOthers DEF ShapeOK
  <1>5. CASE GetTrack(t)
    <2>1. CASE ~Live(track)
      BY <1>5, <2>1, FinishFields, EndedShape DEF GetTrack
    <2>2. CASE Live(track)
      <3>1. loc'[t] = [l EXCEPT !.row = rows[track], !.pc = "stat"]
        BY <1>1, <1>5, <2>2 DEF GetTrack
      <3>2. QED
        BY <1>1, <1>2, <1>3, <2>2, <3>1 DEF Live, Shape, HasRow, Building, Locals
    <2>3. QED
      BY <2>1, <2>2
  <1>6. CASE Stat(t)
    <2>1. \/ Finish(t, "failed") \/ Goto(t, "lookup") \/ BackingChanged(t)
      BY <1>6 DEF Stat
    <2>2. CASE Goto(t, "lookup")
      BY <1>1, <1>2, <1>6, <2>2 DEF Stat, At, Goto, Shape, HasRow, Building, Locals
    <2>3. QED
      BY <2>1, <2>2, FinishFields, BackingChangedFields, EndedShape
  <1>7. CASE Lookup(t)
    BY <1>1, <1>2, <1>7 DEF Lookup, At, Hit, Shape, HasRow, Building, Locals, TypeOK
  <1>8. CASE BuildTags(t)
    BY <1>1, <1>2, <1>3, <1>8, RowFields, StoreAssumption
       DEF BuildTags, At, TagsOf, Shape, HasRow, Building, Locals
  <1>9. CASE BuildArt(t)
    BY <1>1, <1>2, <1>3, <1>9, RowFields, StoreAssumption
       DEF BuildArt, At, ArtOf, Shape, HasRow, Building, Locals
  <1>10. CASE BuildInsert(t)
    <2> DEFINE s == StatPath(l.row.backing_path)
               built == Layout(l, s.ctime)
    <2>1. CASE s = None
      BY <1>10, <2>1, FinishFields, EndedShape DEF BuildInsert
    <2>2. CASE s # None
      <3>1. /\ header_cache' = built
            /\ loc'[t] = [l EXCEPT !.resolved = built, !.row = None, !.tags = None, !.art = None,
                                   !.pc = "resolved"]
        BY <1>1, <1>10, <2>2 DEF BuildInsert
      <3>2. built \in Layouts
        <4>1. l.row \in Row /\ l.tags \in Tags /\ l.art \in Arts
          BY <1>1, <1>10 DEF BuildInsert, At, Shape, HasRow, Building
        <4>2. s.ctime \in Ctimes
          BY <4>1, <2>2, RowFields, StatType
        <4>3. QED
          BY <4>1, <4>2, RowFields DEF Layout, Layouts
      <3> HIDE DEF built
      <3>3. QED
        BY <1>1, <1>2, <1>10, <3>1, <3>2 DEF BuildInsert, At, Shape, HasRow, Building, Locals
    <2>3. QED
      BY <2>1, <2>2
  <1>11. QED
    BY <1>5, <1>6, <1>7, <1>8, <1>9, <1>10

\* What getattr does to the shape of a thread.
LEMMA GetattrShape ==
    ASSUME TypeOK, ShapeOK, NEW t \in Threads,
           GetattrIdentity(t) \/ GetattrSize(t) \/ GetattrRestat(t) \/ GetattrInsert(t)
    PROVE  ShapeOK'
  <1> DEFINE l == loc[t]
  <1>1. l \in Locals /\ Shape(l) /\ loc \in [Threads -> Locals]
    BY DEF TypeOK, ShapeOK
  <1>2. TypeOK' /\ StepFrame(t) /\ UNCHANGED handle
    BY GetattrTypes DEF GetattrIdentity, GetattrSize, GetattrRestat, GetattrInsert
  <1>3. rows[track] \in Row \cup {None}
    BY TrackRow DEF TypeOK
  <1>4. SUFFICES Shape(loc[t])'
    BY <1>2, ShapeOthers DEF ShapeOK
  <1>5. CASE GetattrIdentity(t)
    <2> DEFINE m == [Idle EXCEPT !.row = rows[track], !.cv = rows[track].content_version,
                                 !.life = rows[track].life]
    <2>1. "getattr" \in AllOperations /\ {"size", "failed"} \subseteq Pcs
      BY DEF AllOperations, Pcs
    <2>2. CASE Live(track)
      <3>1. rows[track] \in Row
        BY <1>3, <2>2 DEF Live
      <3>2. m \in Locals /\ m.row = rows[track]
        BY <3>1, IdleType, RowFields DEF Locals
      <3>3. Begin(t, "getattr", "size", m)
        BY <1>5, <2>2 DEF GetattrIdentity
      <3> HIDE DEF m
      <3>4. loc'[t].op = "getattr" /\ loc'[t].pc = "size" /\ loc'[t].row \in Row
            /\ "getattr" \in Operations
        BY <2>1, <3>1, <3>2, <3>3, BeginType
      <3>5. QED
        BY <3>4 DEF Shape, HasRow, Building
    <2>3. CASE ~Live(track)
      <3>1. loc'[t].op = "getattr" /\ loc'[t].pc = "failed" /\ "getattr" \in Operations
        BY <1>5, <2>1, <2>3, IdleType, BeginType DEF GetattrIdentity
      <3>2. QED
        BY <3>1 DEF Shape, HasRow, Building
    <2>4. QED
      BY <2>2, <2>3
  <1>6. CASE GetattrSize(t)
    <2>1. CASE SizeHit(size_cache, l.row) /\ trust_backing_mtime
      BY <1>6, <2>1, FinishFields, EndedShape DEF GetattrSize
    <2>2. CASE SizeHit(size_cache, l.row) /\ ~trust_backing_mtime
      <3>1. size_cache.attrs \in Layouts
        BY <2>2 DEF SizeHit, SizeEntries, TypeOK
      <3>2. loc'[t] = [l EXCEPT !.resolved = size_cache.attrs, !.pc = "restat"]
        BY <1>1, <1>6, <2>2 DEF GetattrSize
      <3>3. QED
        BY <1>1, <1>2, <1>6, <3>1, <3>2 DEF GetattrSize, At, Shape, HasRow, Building, Locals
    <2>3. CASE ~SizeHit(size_cache, l.row)
      <3>1. loc'[t] = [l EXCEPT !.row = None, !.pc = "get_track"]
        BY <1>1, <1>6, <2>3 DEF GetattrSize
      <3>2. QED
        BY <1>1, <1>2, <3>1 DEF Shape, HasRow, Building, Locals
    <2>4. QED
      BY <2>1, <2>2, <2>3
  <1>7. CASE GetattrRestat(t)
    <2>1. Finish(t, "failed") \/ Finish(t, "done") \/ BackingChanged(t)
      BY <1>7 DEF GetattrRestat
    <2>2. QED
      BY <2>1, FinishFields, BackingChangedFields, EndedShape
  <1>8. CASE GetattrInsert(t)
    BY <1>8, FinishFields, EndedShape DEF GetattrInsert
  <1>9. QED
    BY <1>5, <1>6, <1>7, <1>8

\* What an open does to the shape of a thread.
LEMMA OpenShape ==
    ASSUME TypeOK, ShapeOK, NEW t \in Threads, OpenBegin(t) \/ OpenFile(t)
    PROVE  ShapeOK'
  <1> DEFINE l == loc[t]
  <1>1. l \in Locals /\ Shape(l) /\ loc \in [Threads -> Locals]
    BY DEF TypeOK, ShapeOK
  <1>2. TypeOK' /\ StepFrame(t)
    BY OpenTypes
  <1>3. CASE OpenBegin(t)
    <2> DEFINE m == [Idle EXCEPT !.cur = refresh_gen]
    <2>1. m \in Locals
      BY IdleType DEF Locals, TypeOK
    <2>2. Begin(t, "open", "get_track", m) /\ UNCHANGED handle
      BY <1>3 DEF OpenBegin
    <2> HIDE DEF m
    <2>3. "open" \in AllOperations /\ "get_track" \in Pcs
      BY DEF AllOperations, Pcs
    <2>4. loc'[t].op = "open" /\ loc'[t].pc = "get_track" /\ "open" \in Operations
      BY <2>1, <2>2, <2>3, BeginType
    <2>5. Shape(loc[t])'
      BY <2>4 DEF Shape, HasRow, Building
    <2>6. QED
      BY <1>2, <2>2, <2>5, ShapeOthers DEF ShapeOK
  <1>4. CASE OpenFile(t)
    <2>1. \/ /\ handle' = Opened(l) /\ Finish(t, "done")
             /\ StatPath(l.resolved.backing_path) = l.resolved.stamp
          \/ handle' = handle /\ (Finish(t, "failed") \/ BackingChanged(t))
      BY <1>4 DEF OpenFile
    <2>2. handle' # None \/ handle' = handle
      <3>1. l.resolved \in Layouts
        BY <1>1, <1>4 DEF OpenFile, At, Shape
      <3>2. QED
        BY <1>1, <2>1, <3>1, OpenedType
    <2>3. Shape(loc[t])'
      BY <2>1, FinishFields, BackingChangedFields, EndedShape
    <2>4. QED
      BY <1>2, <2>2, <2>3, ShapeOthers DEF ShapeOK
  <1>5. QED
    BY <1>3, <1>4

\* What a read does to the shape of a thread.
LEMMA ReadShape ==
    ASSUME TypeOK, ShapeOK, NEW t \in Threads,
           \/ ReadBegin(t) \/ ReadAttempt(t) \/ ReadRecheck(t) \/ StoreResolved(t)
           \/ StoreGeneration(t) \/ ReadValidate(t) \/ ReadSend(t)
           \/ FallbackBegin(t) \/ FallbackOpen(t)
    PROVE  ShapeOK'
  <1> DEFINE l == loc[t]
  <1>1. l \in Locals /\ Shape(l) /\ loc \in [Threads -> Locals]
    BY DEF TypeOK, ShapeOK
  <1>2. TypeOK' /\ StepFrame(t)
    BY ReadTypes
  <1>3. handle' # None \/ handle' = handle
    <2>1. CASE StoreResolved(t) \/ StoreGeneration(t)
      <3>1. handle \in Handles
        BY <1>1, <2>1 DEF TypeOK, StoreResolved, StoreGeneration, At, Shape
      <3>2. handle' \in Handles
        <4>1. CASE StoreResolved(t)
          BY <1>1, <3>1, <4>1 DEF StoreResolved, At, Shape, Handles
        <4>2. CASE StoreGeneration(t)
          <5> DEFINE g == IF l.why = "stale" THEN refresh_gen ELSE l.cur
                     b == l.why = "stale" /\ refresh_gen # l.cur
          <5>1. g \in Nat /\ b \in BOOLEAN
            BY <1>1, LocalsFields DEF TypeOK
          <5>2. handle' = [handle EXCEPT !.generation = g, !.late = b]
            BY <4>2 DEF StoreGeneration
          <5> HIDE DEF g, b
          <5>3. QED
            BY <3>1, <5>1, <5>2 DEF Handles
        <4>3. QED
          BY <2>1, <4>1, <4>2
      <3>3. QED
        BY <3>2, ServeAssumption
    <2>2. CASE ~(StoreResolved(t) \/ StoreGeneration(t))
      BY <2>2 DEF ReadBegin, ReadAttempt, ReadRecheck, ReadValidate, ReadSend, FallbackBegin,
         FallbackOpen
    <2>3. QED
      BY <2>1, <2>2
  <1>4. SUFFICES Shape(loc[t])'
    BY <1>2, <1>3, ShapeOthers DEF ShapeOK
  <1>5. {"read", "read_fallback"} \subseteq AllOperations
        /\ {"attempt", "get_track", "send", "validate"} \subseteq Pcs
    BY DEF AllOperations, Pcs
  <1>6. CASE ReadBegin(t)
    <2>1. /\ loc'[t].op = "read" /\ loc'[t].pc = "attempt" /\ "read" \in Operations
          /\ handle' # None
      BY <1>3, <1>5, <1>6, IdleType, BeginType DEF ReadBegin
    <2>2. QED
      BY <2>1 DEF Shape, HasRow, Building
  <1>7. CASE ReadAttempt(t)
    <2>1. CASE Exhausted(l)
      BY <1>7, <2>1, BackingChangedFields, EndedShape DEF ReadAttempt
    <2>2. CASE ~Exhausted(l)
      <3>1. loc'[t].op = "read" /\ loc'[t].pc \in {"get_track", "validate"}
        BY <1>1, <1>7, <2>2 DEF ReadAttempt, At, Shape, Locals
      <3>2. l.op = "read"
        BY <1>1, <1>7 DEF ReadAttempt, At, Shape
      <3>3. QED
        BY <1>1, <1>3, <3>1, <3>2 DEF Shape, HasRow, Building
    <2>3. QED
      BY <2>1, <2>2
  <1>8. CASE ReadRecheck(t)
    <2>1. l.op = "read" /\ l.resolved \in Layouts
      BY <1>1, <1>8 DEF ReadRecheck, At, Op, Shape
    <2>2. \/ loc'[t] = [l EXCEPT !.resolved = None, !.pc = "attempt"]
          \/ loc'[t] = [l EXCEPT !.pc = "store_resolved"]
      BY <1>1, <1>8 DEF ReadRecheck
    <2>3. QED
      BY <1>1, <1>3, <2>1, <2>2 DEF Shape, HasRow, Building, Locals
  <1>9. CASE StoreResolved(t)
    <2>1. loc'[t] = [l EXCEPT !.resolved = None, !.pc = "store_generation"] /\ l.op = "read"
      BY <1>1, <1>9 DEF StoreResolved, At, Shape
    <2>2. QED
      BY <1>1, <1>3, <2>1 DEF Shape, HasRow, Building, Locals
  <1>10. CASE StoreGeneration(t)
    <2>1. l.op = "read" /\ \E p \in {"attempt", "validate"} : loc'[t] = [l EXCEPT !.pc = p]
      BY <1>1, <1>10 DEF StoreGeneration, Goto, At, Shape
    <2>2. QED
      BY <1>1, <1>3, <2>1 DEF Shape, HasRow, Building, Locals
  <1>11. CASE ReadValidate(t)
    <2>1. CASE stat[handle.file] = handle.resolved.stamp
      <3>1. handle.resolved \in Layouts /\ l.op = "read"
        BY <1>1, <1>11 DEF ReadValidate, At, Shape, Handles, TypeOK
      <3>2. loc'[t] = [l EXCEPT !.resolved = handle.resolved, !.pc = "send"]
        BY <1>1, <1>11, <2>1 DEF ReadValidate
      <3>3. QED
        BY <1>1, <1>3, <3>1, <3>2 DEF Shape, HasRow, Building, Locals
    <2>2. CASE stat[handle.file] # handle.resolved.stamp
      BY <1>11, <2>2, BackingChangedFields, EndedShape DEF ReadValidate
    <2>3. QED
      BY <2>1, <2>2
  <1>12. CASE ReadSend(t)
    <2>1. \/ Served(t) \/ Finish(t, "failed") \/ BackingChanged(t)
          \/ /\ loc'[t] = [l EXCEPT !.why = "stale", !.resolved = None, !.pc = "get_track"]
             /\ l.op = "read"
      BY <1>1, <1>12 DEF ReadSend, Op
    <2>2. CASE /\ loc'[t] = [l EXCEPT !.why = "stale", !.resolved = None, !.pc = "get_track"]
               /\ l.op = "read"
      BY <1>1, <1>3, <2>2 DEF Shape, HasRow, Building, Locals
    <2>3. QED
      BY <2>1, <2>2, FinishFields, BackingChangedFields, EndedShape DEF Served
  <1>13. CASE FallbackBegin(t)
    <2>1. /\ loc'[t].op = "read_fallback" /\ loc'[t].pc = "get_track"
          /\ "read_fallback" \in Operations
      BY <1>5, <1>13, IdleType, BeginType DEF FallbackBegin
    <2>2. QED
      BY <2>1 DEF Shape, HasRow, Building
  <1>14. CASE FallbackOpen(t)
    <2>1. Finish(t, "failed") \/ Goto(t, "send") \/ BackingChanged(t)
      BY <1>14 DEF FallbackOpen
    <2>2. CASE Goto(t, "send")
      <3>1. l.op = "read_fallback" /\ l.resolved \in Layouts
        BY <1>1, <1>14 DEF FallbackOpen, At, Op, Shape
      <3>2. loc'[t] = [l EXCEPT !.pc = "send"]
        BY <1>1, <2>2 DEF Goto
      <3>3. QED
        BY <1>1, <1>3, <3>1, <3>2 DEF Shape, HasRow, Building, Locals
    <2>3. QED
      BY <2>1, <2>2, FinishFields, BackingChangedFields, EndedShape
  <1>15. QED
    BY <1>6, <1>7, <1>8, <1>9, <1>10, <1>11, <1>12, <1>13, <1>14

\* Every change of the backing files is one DiskStep describes.
DiskChanges ==
    \/ \E f \in Files, g \in Geoms : RewriteFile(f, g) \/ \E p \in Paths : ReplaceFile(p, f, g)
    \/ \E p, q \in Paths : MoveFile(p, q)

\* Nothing that happens to the backing files disturbs the types.
LEMMA DiskTypes ==
    ASSUME TypeOK, DiskChanges
    PROVE  TypeOK' /\ DiskStep
  BY RewriteStep, ReplaceStep, MoveStep DEF DiskChanges

\* A disturbance keeps every shape.
LEMMA DisturbedShape ==
    ASSUME TypeOK, ShapeOK, Disturbed, UNCHANGED handle
    PROVE  ShapeOK'
  <1> SUFFICES ASSUME NEW t \in Threads PROVE Shape(loc[t])'
    BY DEF ShapeOK
  <1>1. loc'[t] = [loc[t] EXCEPT !.calm = FALSE] /\ loc[t] \in Locals /\ Shape(loc[t])
    BY DisturbedType DEF TypeOK, ShapeOK
  <1>2. QED
    BY <1>1 DEF Shape, HasRow, Building, Locals

\* Types and shapes together are inductive.
LEMMA TypeNext == TypeOK /\ ShapeOK /\ [Next]_vars => TypeOK' /\ ShapeOK'
  <1> SUFFICES ASSUME TypeOK, ShapeOK, [Next]_vars PROVE TypeOK' /\ ShapeOK'
    OBVIOUS
  <1>1. ASSUME NEW t \in Threads, Step(t) PROVE TypeOK' /\ ShapeOK'
    BY <1>1, StepTypes, ResolveShape, GetattrShape, OpenShape, ReadShape DEF Step
  <1>2. CASE Evict \/ Release \/ PollRead \/ PollNotify \/ PollStamp
    <2>1. TypeOK' /\ UNCHANGED loc
      BY <1>2, OtherTypes
    <2>2. \A t \in Threads : loc[t].op = "read" => handle' # None
      BY <1>2 DEF Evict, Release, PollRead, PollNotify, PollStamp, Reading, Op, ShapeOK, Shape
    <2>3. QED
      BY <2>1, <2>2 DEF ShapeOK, Shape
  <1>3. CASE DiskChanges
    BY <1>3, DiskTypes, DisturbedShape DEF DiskStep
  <1>4. CASE Write
    BY <1>4, WriteStep, DisturbedShape
  <1>5. CASE UNCHANGED vars
    <2>1. TypeOK'
      BY <1>5 DEF vars, serveVars, storeVars, TypeOK, StoreTypeOK
    <2>2. ShapeOK'
      BY <1>5 DEF vars, serveVars, ShapeOK, Shape
    <2>3. QED
      BY <2>1, <2>2
  <1>6. QED
    BY <1>1, <1>2, <1>3, <1>4, <1>5 DEF Next, DiskChanges

\* The first scan leaves one live row.
LEMMA InitRow ==
    ASSUME StoreInit
    PROVE  /\ rows[track] \in Row /\ Live(track) /\ rows[track].life = 1
           /\ rows[track].content_version = 1 /\ seq = 2
  <1>1. PICK f \in Formats, t \in Tags, a \in Arts, p \in Paths, g \in Geoms, c \in Ctimes :
          rows = [id \in Ids |->
                    IF id = 1
                    THEN [content_version |-> 1, format |-> f, tags |-> t, art |-> a,
                          backing_path |-> p, geom |-> g, ctime |-> c, life |-> 1]
                    ELSE None]
    BY DEF StoreInit
  <1>2. track = 1 /\ 1 \in Ids
    BY ServeAssumption DEF Ids, track
  <1>3. rows[track] = [content_version |-> 1, format |-> f, tags |-> t, art |-> a,
                       backing_path |-> p, geom |-> g, ctime |-> c, life |-> 1]
    BY <1>1, <1>2
  <1>4. rows[track] \in Row
    BY <1>3 DEF Row
  <1>5. QED
    BY <1>3, <1>4, StoreAssumption DEF Live, StoreInit

\* The mount starts with empty caches and no operation in flight.
LEMMA TypeInit == Init => TypeOK /\ ShapeOK
  <1> SUFFICES ASSUME Init PROVE TypeOK /\ ShapeOK
    OBVIOUS
  <1>1. StoreTypeOK /\ rows[track] \in Row \cup {None} /\ seq \in Nat
    BY StoreInitType, TrackRow DEF Init, StoreTypeOK
  <1>2. rows[track] \in Row
    BY InitRow DEF Init
  <1>3. loc \in [Threads -> Locals] /\ \A t \in Threads : loc[t] = Idle
    BY IdleType DEF Init
  <1>4. ShapeOK
    BY <1>3 DEF ShapeOK, Shape, Idle, HasRow, Building
  <1>5. poll \in Polls
    BY <1>2, RowFields DEF Init, Polls
  <1>6. stat \in [Files -> Stamps] /\ dir \in [Paths -> Files \cup {None}]
    BY <1>2, RowFields DEF Init
  <1>7. clock \in Ctimes
    BY ServeAssumption DEF Init
  <1>8. QED
    BY <1>1, <1>3, <1>4, <1>5, <1>6, <1>7 DEF Init, TypeOK

\* The caches, the handle, the refresh and every thread keep their types,
\* whatever is committed, rewritten, replaced or moved between their steps.
THEOREM ServeTypes == Spec => []TypeOK
  BY TypeInit, TypeNext, PTL DEF Spec

(***************************************************************************)
(* What commits and changes of files do to what has been read.             *)
(***************************************************************************)

\* Rows, layouts and the identity a getattr starts from have these fields.
Versioned(l) == l.life \in Nat /\ l.content_version \in Nat

\* A commit leaves everything read so far in the past: it moves the row on,
\* or ends the life what was read belongs to.
LEMMA PastStep ==
    ASSUME TypeOK, TypeOK', RowStep(track), seq' >= seq, NEW l, Versioned(l), Past(l)
    PROVE  /\ Past(l)' /\ (Same(l)' => Same(l))
           /\ Present(l)' => /\ Present(l)
                             /\ rows'[track].tags = rows[track].tags
                             /\ rows'[track].art = rows[track].art
  <1>1. /\ rows[track] # None => rows[track].content_version \in Nat /\ rows[track].life \in Nat
        /\ rows'[track] # None => rows'[track].content_version \in Nat /\ rows'[track].life \in Nat
    <2>1. rows[track] \in Row \cup {None} /\ rows'[track] \in Row \cup {None}
      BY TrackRow DEF TypeOK, StoreTypeOK
    <2>2. QED
      BY <2>1 DEF Row
  <1>2. seq \in Nat /\ seq' \in Nat /\ l.life <= seq
    BY DEF TypeOK, StoreTypeOK, Past
  <1>3. QED
    BY <1>1, <1>2 DEF Past, Same, Present, Live, RowStep, Versioned

\* So a sound layout stays sound.
LEMMA BuiltStep ==
    ASSUME TypeOK, TypeOK', RowStep(track), seq' >= seq, NEW l, Versioned(l), Built(l)
    PROVE  Built(l)'
  BY PastStep DEF Built, SameInputs

\* Files only get newer.
LEMMA OnDiskStep ==
    ASSUME TypeOK, DiskStep, NEW p \in Paths, NEW c \in Nat, OnDisk(p, c)
    PROVE  OnDisk(p, c)'
  <1>1. clock \in Nat /\ clock' = clock + 1 /\ PathStep(p)
    BY ServeAssumption DEF TypeOK, DiskStep
  <1>2. dir[p] # None => stat[dir[p]].ctime \in Nat
    BY ServeAssumption DEF TypeOK, Stamps
  <1>3. QED
    BY <1>1, <1>2 DEF OnDisk, PathStep

\* Nothing that layouts are compared with changes in a step of the mount.
LEMMA ReadFrame ==
    ASSUME UNCHANGED <<storeVars, dir, stat, clock>>, NEW l, NEW p, NEW c
    PROVE  /\ Past(l)' = Past(l) /\ Same(l)' = Same(l) /\ Present(l)' = Present(l)
           /\ Built(l)' = Built(l) /\ LayoutOK(l)' = LayoutOK(l)
           /\ OnDisk(p, c)' = OnDisk(p, c) /\ SizeOK(l)' = SizeOK(l)
           /\ ThreadOK(l)' = ThreadOK(l) /\ RowAgrees(l)' = RowAgrees(l)
           /\ Agrees(l)' = Agrees(l)
  BY DEF storeVars, Past, Same, Present, Built, LayoutOK, OnDisk, SizeOK, ThreadOK, Live, SameInputs,
     IdentityPast, RowAgrees, Agrees

\* A layout that is of the past and of the disk's past stays so.
LEMMA LayoutStep ==
    ASSUME TypeOK, TypeOK', NEW l \in Layouts, LayoutOK(l),
           \/ DiskStep
           \/ RowStep(track) /\ seq' >= seq /\ UNCHANGED <<dir, stat, clock>>
    PROVE  LayoutOK(l)'
  <1>1. Versioned(l) /\ l.backing_path \in Paths /\ l.front \in Nat
    BY LayoutFields, ServeAssumption DEF Versioned
  <1>2. CASE DiskStep
    <2>1. Built(l)' = Built(l)
      BY <1>2 DEF DiskStep, storeVars, Built, Past, Present, Same, Live, SameInputs
    <2>2. QED
      BY <1>1, <1>2, <2>1, OnDiskStep DEF LayoutOK
  <1>3. CASE RowStep(track) /\ seq' >= seq /\ UNCHANGED <<dir, stat, clock>>
    <2>1. Built(l)'
      BY <1>1, <1>3, BuiltStep DEF LayoutOK
    <2>2. QED
      BY <1>3, <2>1 DEF LayoutOK, OnDisk
  <1>4. QED
    BY <1>2, <1>3

\* The same for everything a thread has read.
LEMMA ThreadStep ==
    ASSUME TypeOK, TypeOK', NEW l \in Locals, Shape(l), ThreadOK(l), NEW m \in Locals,
           m = [l EXCEPT !.calm = FALSE],
           \/ DiskStep
           \/ RowStep(track) /\ seq' >= seq /\ UNCHANGED <<dir, stat, clock>>
    PROVE  ThreadOK(m)'
  <1>1. /\ m.pc = l.pc /\ m.cv = l.cv /\ m.life = l.life /\ m.row = l.row
        /\ m.tags = l.tags /\ m.art = l.art /\ m.resolved = l.resolved
    BY DEF Locals
  <1>2. l.pc \in HasRow => Versioned(l.row) /\ l.row.backing_path \in Paths /\ l.row.ctime \in Nat
    BY RowFields, ServeAssumption DEF Shape, Versioned
  <1>3. l.pc \in {"resolved", "store_resolved", "send"} => l.resolved \in Layouts /\ Versioned(l.resolved)
    BY LayoutFields DEF Shape, Versioned
  <1>4. l.pc \in {"resolved", "store_resolved", "send"} => LayoutOK(l.resolved)'
    BY <1>3, LayoutStep DEF ThreadOK
  <1>5. CASE DiskStep
    <2>1. UNCHANGED <<rows, seq>>
      BY <1>5 DEF DiskStep, storeVars
    <2>2. \A k : Built(k)' = Built(k) /\ Present(k)' = Present(k) /\ Same(k)' = Same(k)
      BY <2>1 DEF Built, Past, Present, Same, Live, SameInputs
    <2>3. IdentityPast(m)'
      BY <1>1, <2>1 DEF ThreadOK, IdentityPast, Live
    <2>4. l.pc \in Statted => OnDisk(l.row.backing_path, l.row.ctime)'
      BY <1>2, <1>5, OnDiskStep DEF ThreadOK, HasRow, Statted
    <2>5. QED
      BY <1>1, <1>4, <2>1, <2>2, <2>3, <2>4 DEF ThreadOK, HasRow, Statted, Building
  <1>6. CASE RowStep(track) /\ seq' >= seq /\ UNCHANGED <<dir, stat, clock>>
    <2>1. IdentityPast(m)'
      <3> DEFINE k == [life |-> l.life, content_version |-> l.cv]
      <3>1. k.life = l.life /\ k.content_version = l.cv
        OBVIOUS
      <3>2. Versioned(k)
        BY <3>1, LocalsFields DEF Versioned
      <3> HIDE DEF k
      <3>3. Past(k)
        BY <3>1 DEF ThreadOK, IdentityPast, Past, Same
      <3>4. Past(k)'
        BY <1>6, <3>2, <3>3, PastStep
      <3>5. QED
        BY <1>1, <3>1, <3>4 DEF IdentityPast, Past, Same
    <2>2. l.pc \in HasRow =>
            /\ Built(l.row)'
            /\ Present(l.row)' => /\ Present(l.row) /\ rows'[track].tags = rows[track].tags
                                  /\ rows'[track].art = rows[track].art
      BY <1>2, <1>6, BuiltStep, PastStep DEF ThreadOK, Built
    <2>3. l.pc \in Statted => OnDisk(l.row.backing_path, l.row.ctime)'
      BY <1>6 DEF ThreadOK, OnDisk
    <2>4. l.pc = "resolved" /\ Same(l.resolved)' => Same(l.resolved)
      BY <1>3, <1>6, PastStep DEF ThreadOK, LayoutOK, Built
    <2>5. QED
      BY <1>1, <1>4, <2>1, <2>2, <2>3, <2>4 DEF ThreadOK, HasRow, Statted, Building
  <1>7. QED
    BY <1>5, <1>6

(***************************************************************************)
(* CacheInv is inductive.                                                  *)
(***************************************************************************)

\* The parts of CacheInv that a step of thread t can disturb.
LEMMA CacheInvStep ==
    ASSUME CacheInv, TypeOK', ShapeOK', NEW t \in Threads, StepFrame(t), ThreadOK(loc'[t]),
           header_cache' # None => LayoutOK(header_cache'),
           size_cache' # None => SizeOK(size_cache'),
           handle' # None => LayoutOK(handle'.resolved)
    PROVE  CacheInv'
  <1>1. UNCHANGED <<storeVars, dir, stat, clock>>
    BY DEF StepFrame
  <1>2. LifeOK' /\ ClockOK'
    BY <1>1 DEF CacheInv, LifeOK, ClockOK, Live, storeVars
  <1>3. CachesOK'
    BY <1>1 DEF CachesOK, SizeOK, LayoutOK, Built, Past, Present, Same, Live, SameInputs, OnDisk, storeVars
  <1>4. ASSUME NEW u \in Threads \ {t} PROVE ThreadOK(loc[u])'
    <2>1. ThreadOK(loc[u]) /\ loc'[u] = loc[u]
      BY DEF CacheInv, ThreadsOK, StepFrame
    <2>2. QED
      BY <1>1, <2>1 DEF ThreadOK, HasRow, Statted, Building, LayoutOK, Built, Past, Present, Same, Live,
         SameInputs, OnDisk, IdentityPast, storeVars
  <1>5. ThreadOK(loc[t])'
    BY <1>1 DEF ThreadOK, HasRow, Statted, Building, LayoutOK, Built, Past, Present, Same, Live,
       SameInputs, OnDisk, IdentityPast, storeVars
  <1>6. QED
    BY <1>2, <1>3, <1>4, <1>5 DEF CacheInv, ThreadsOK

\* An operation that has ended, or starts over, has read nothing.
LEMMA EndedOK ==
    ASSUME CacheInv, NEW t \in Threads,
           Ended(loc'[t], loc[t]) \/ Retries(loc'[t], loc[t])
    PROVE  ThreadOK(loc'[t])
  <1>1. seq \in Nat
    BY DEF CacheInv, TypeOK, StoreTypeOK
  <1>2. Live(track) => rows[track].life \in Nat /\ rows[track].content_version \in Nat
    BY TrackRow, RowFields DEF CacheInv, TypeOK, Live
  <1>3. QED
    BY <1>1, <1>2 DEF Ended, Retries, ThreadOK, IdentityPast, HasRow, Statted, Building, Live

\* Neither has an operation that starts, unless it is a getattr.
LEMMA FreshOK ==
    ASSUME TypeOK, NEW m, m.pc \in {"failed", "get_track", "attempt"}, m.cv = 0, m.life = 0
    PROVE  ThreadOK(m)
  <1>1. seq \in Nat
    BY DEF TypeOK, StoreTypeOK
  <1>2. Live(track) => rows[track].life \in Nat /\ rows[track].content_version \in Nat
    BY TrackRow, RowFields DEF TypeOK, Live
  <1>3. QED
    BY <1>1, <1>2 DEF ThreadOK, IdentityPast, HasRow, Statted, Building

\* The current row is of its own past and present.
LEMMA RowBuilt ==
    ASSUME TypeOK, LifeOK, Live(track)
    PROVE  Built(rows[track]) /\ rows[track] \in Row /\ Versioned(rows[track])
  <1>1. rows[track] \in Row /\ Versioned(rows[track])
    BY TrackRow, RowFields DEF TypeOK, Live, Versioned
  <1>2. QED
    BY <1>1 DEF Built, Past, Present, Same, SameInputs, LifeOK, TypeOK, StoreTypeOK, Versioned

\* Steps of a resolve: what is cached was built from what was read.
LEMMA ResolveCaches ==
    ASSUME CacheInv, NEW t \in Threads,
           \/ GetTrack(t) \/ Stat(t) \/ Lookup(t) \/ BuildTags(t) \/ BuildArt(t) \/ BuildInsert(t)
    PROVE  CacheInv'
  <1> DEFINE l == loc[t]
             r == rows[track]
  <1>1. TypeOK /\ ShapeOK /\ LifeOK /\ ClockOK /\ CachesOK
    BY DEF CacheInv
  <1>2. l \in Locals /\ Shape(l) /\ ThreadOK(l) /\ loc \in [Threads -> Locals]
    BY DEF CacheInv, TypeOK, ShapeOK, ThreadsOK
  <1>3. TypeOK' /\ StepFrame(t) /\ ShapeOK' /\ UNCHANGED handle
    BY <1>1, ResolveTypes, ResolveShape DEF GetTrack, Stat, Lookup, BuildTags, BuildArt, BuildInsert
  <1>4. size_cache' \in {size_cache, None}
    BY <1>1, BackingChangedType DEF GetTrack, Stat, Lookup, BuildTags, BuildArt, BuildInsert
  <1>5. SUFFICES ThreadOK(loc'[t]) /\ (header_cache' # None => LayoutOK(header_cache'))
    BY <1>1, <1>3, <1>4, CacheInvStep DEF CachesOK
  <1>6. Live(track) => r \in Row /\ Versioned(r) /\ Built(r)
    BY <1>1, RowBuilt
  <1>7. CASE GetTrack(t)
    <2>1. CASE ~Live(track)
      BY <1>1, <1>7, <2>1, FinishFields, EndedOK DEF GetTrack, CachesOK
    <2>2. CASE Live(track)
      <3>1. loc'[t] = [l EXCEPT !.row = r, !.pc = "stat"] /\ UNCHANGED header_cache
        BY <1>2, <1>7, <2>2 DEF GetTrack
      <3>2. loc'[t].pc = "stat" /\ loc'[t].row = r /\ loc'[t].cv = l.cv /\ loc'[t].life = l.life
        BY <1>2, <3>1 DEF Locals
      <3>3. ThreadOK(loc'[t])
        BY <1>2, <1>6, <2>2, <3>2 DEF ThreadOK, IdentityPast, HasRow, Statted, Building
      <3>4. QED
        BY <1>1, <3>1, <3>3 DEF CachesOK
    <2>3. QED
      BY <2>1, <2>2
  <1>8. CASE Stat(t)
    <2>1. UNCHANGED header_cache
      BY <1>8 DEF Stat
    <2>2. l.row \in Row /\ l.pc = "stat"
      BY <1>2, <1>8 DEF Stat, At, Shape, HasRow, Building
    <2>3. \/ Finish(t, "failed") \/ BackingChanged(t)
          \/ Goto(t, "lookup") /\ StatPath(l.row.backing_path) = RowStamp(l.row)
      BY <1>8 DEF Stat
    <2>4. CASE Goto(t, "lookup") /\ StatPath(l.row.backing_path) = RowStamp(l.row)
      <3>1. loc'[t] = [l EXCEPT !.pc = "lookup"]
        BY <1>2, <2>4 DEF Goto
      <3>2. /\ loc'[t].pc = "lookup" /\ loc'[t].row = l.row /\ loc'[t].cv = l.cv
            /\ loc'[t].life = l.life
        BY <1>2, <3>1 DEF Locals
      <3>3. OnDisk(l.row.backing_path, l.row.ctime)
        <4>1. RowStamp(l.row) # None /\ RowStamp(l.row).ctime = l.row.ctime
              /\ l.row.backing_path \in Paths /\ l.row.ctime \in Nat
          BY <2>2, RowFields, ServeAssumption
        <4>2. dir[l.row.backing_path] \in Files
              /\ stat[dir[l.row.backing_path]].ctime = l.row.ctime
          BY <1>1, <2>4, <4>1, StatType
        <4>3. QED
          BY <1>1, <4>1, <4>2 DEF OnDisk, ClockOK
      <3>4. ThreadOK(loc'[t])
        BY <1>2, <2>2, <3>2, <3>3 DEF ThreadOK, IdentityPast, HasRow, Statted, Building
      <3>5. QED
        BY <1>1, <2>1, <3>4 DEF CachesOK
    <2>5. QED
      BY <1>1, <2>1, <2>3, <2>4, FinishFields, BackingChangedFields, EndedOK DEF CachesOK
  <1>9. CASE Lookup(t)
    <2>1. l.row \in Row /\ l.pc = "lookup" /\ UNCHANGED header_cache
      BY <1>2, <1>9 DEF Lookup, At, Shape, HasRow, Building
    <2>2. CASE ~Hit(header_cache, l.row)
      <3>1. loc'[t] = [l EXCEPT !.pc = "tags"]
        BY <1>2, <1>9, <2>2 DEF Lookup
      <3>2. /\ loc'[t].pc = "tags" /\ loc'[t].row = l.row /\ loc'[t].cv = l.cv
            /\ loc'[t].life = l.life
        BY <1>2, <3>1 DEF Locals
      <3>3. ThreadOK(loc'[t])
        BY <1>2, <2>1, <3>2 DEF ThreadOK, IdentityPast, HasRow, Statted, Building
      <3>4. QED
        BY <1>1, <2>1, <3>3 DEF CachesOK
    <2>3. CASE Hit(header_cache, l.row)
      <3>1. loc'[t] = [l EXCEPT !.resolved = header_cache, !.row = None, !.pc = "resolved"]
        BY <1>2, <1>9, <2>3 DEF Lookup
      <3>2. /\ loc'[t].pc = "resolved" /\ loc'[t].resolved = header_cache
            /\ loc'[t].cv = l.cv /\ loc'[t].life = l.life
        BY <1>2, <3>1 DEF Locals
      <3>3. header_cache \in Layouts /\ LayoutOK(header_cache) /\ Versioned(header_cache)
            /\ header_cache.content_version = l.row.content_version
        BY <1>1, <2>3, LayoutFields DEF TypeOK, Hit, CachesOK, Versioned
      <3>4. Same(header_cache) /\ header_cache.life = l.life => l.cv <= header_cache.content_version
        <4>1. l.life \in Nat /\ l.row.life \in Nat /\ l.life <= l.row.life
              /\ (Live(track) => l.row.life <= r.life)
              /\ (l.life = l.row.life => l.cv <= l.row.content_version)
          BY <1>2, <2>1, LocalsFields, RowFields DEF ThreadOK, HasRow, Building, Built, Past
        <4>2. QED
          BY <1>6, <3>3, <4>1 DEF Same, Versioned
      <3>5. ThreadOK(loc'[t])
        BY <1>2, <3>2, <3>3, <3>4 DEF ThreadOK, IdentityPast, HasRow, Statted, Building
      <3>6. QED
        BY <1>1, <2>1, <3>5 DEF CachesOK
    <2>4. QED
      BY <2>2, <2>3
  <1>10. CASE BuildTags(t)
    <2>1. l.row \in Row /\ l.pc = "tags" /\ UNCHANGED header_cache
      BY <1>2, <1>10 DEF BuildTags, At, Shape, HasRow, Building
    <2>2. loc'[t] = [l EXCEPT !.tags = TagsOf(r), !.pc = "art"]
      BY <1>2, <1>10 DEF BuildTags
    <2>3. /\ loc'[t].pc = "art" /\ loc'[t].row = l.row /\ loc'[t].tags = TagsOf(r)
          /\ loc'[t].cv = l.cv /\ loc'[t].life = l.life
      BY <1>2, <2>2 DEF Locals
    <2>4. Present(l.row) => TagsOf(r) = r.tags
      BY DEF Present, Same, Live, TagsOf
    <2>5. ThreadOK(loc'[t])
      BY <1>2, <2>1, <2>3, <2>4 DEF ThreadOK, IdentityPast, HasRow, Statted, Building
    <2>6. QED
      BY <1>1, <2>1, <2>5 DEF CachesOK
  <1>11. CASE BuildArt(t)
    <2>1. l.row \in Row /\ l.pc = "art" /\ UNCHANGED header_cache
      BY <1>2, <1>11 DEF BuildArt, At, Shape, HasRow, Building
    <2>2. loc'[t] = [l EXCEPT !.art = ArtOf(r), !.pc = "insert"]
      BY <1>2, <1>11 DEF BuildArt
    <2>3. /\ loc'[t].pc = "insert" /\ loc'[t].row = l.row /\ loc'[t].art = ArtOf(r)
          /\ loc'[t].tags = l.tags /\ loc'[t].cv = l.cv /\ loc'[t].life = l.life
      BY <1>2, <2>2 DEF Locals
    <2>4. Present(l.row) => ArtOf(r) = r.art
      BY DEF Present, Same, Live, ArtOf
    <2>5. ThreadOK(loc'[t])
      BY <1>2, <2>1, <2>3, <2>4 DEF ThreadOK, IdentityPast, HasRow, Statted, Building
    <2>6. QED
      BY <1>1, <2>1, <2>5 DEF CachesOK
  <1>12. CASE BuildInsert(t)
    <2> DEFINE s == StatPath(l.row.backing_path)
               built == Layout(l, s.ctime)
    <2>1. l.row \in Row /\ l.pc = "insert"
      BY <1>2, <1>12 DEF BuildInsert, At, Shape, HasRow, Building
    <2>2. CASE s = None
      BY <1>1, <1>12, <2>2, FinishFields, EndedOK DEF BuildInsert, CachesOK
    <2>3. CASE s # None
      <3>1. /\ header_cache' = built
            /\ loc'[t] = [l EXCEPT !.resolved = built, !.row = None, !.tags = None, !.art = None,
                                   !.pc = "resolved"]
        BY <1>2, <1>12, <2>3 DEF BuildInsert
      <3>2. /\ built.content_version = l.row.content_version /\ built.life = l.row.life
            /\ built.tags = l.tags /\ built.art = l.art /\ built.front = s.ctime
            /\ built.backing_path = l.row.backing_path /\ built.stamp.ctime = l.row.ctime
        BY DEF Layout, RowStamp
      <3> HIDE DEF built
      <3>3. /\ loc'[t].pc = "resolved" /\ loc'[t].resolved = built
            /\ loc'[t].cv = l.cv /\ loc'[t].life = l.life
        BY <1>2, <3>1 DEF Locals
      <3>4. Built(built)
        BY <1>2, <2>1, <3>2
           DEF ThreadOK, HasRow, Building, Built, Past, Present, Same, SameInputs
      <3>5. LayoutOK(built)
        <4>1. l.row.backing_path \in Paths /\ l.row.ctime \in Nat
          BY <2>1, RowFields, ServeAssumption
        <4>2. dir[l.row.backing_path] \in Files /\ dir[l.row.backing_path] # None
              /\ s = stat[dir[l.row.backing_path]] /\ s.ctime \in Nat
          BY <1>1, <2>3, <4>1, StatType, ServeAssumption
        <4>3. s.ctime <= clock
          BY <1>1, <4>2 DEF ClockOK
        <4>4. l.row.ctime <= s.ctime
          BY <1>2, <2>1, <4>2 DEF ThreadOK, Statted, Building, OnDisk
        <4>5. QED
          BY <3>2, <3>4, <4>2, <4>3, <4>4 DEF LayoutOK, OnDisk
      <3>6. Same(built) /\ built.life = l.life => l.cv <= built.content_version
        BY <1>2, <2>1, <3>2 DEF ThreadOK, HasRow, Building
      <3>7. ThreadOK(loc'[t])
        BY <1>2, <3>3, <3>5, <3>6 DEF ThreadOK, IdentityPast, HasRow, Statted, Building
      <3>8. QED
        BY <3>1, <3>5, <3>7
    <2>4. QED
      BY <2>2, <2>3
  <1>13. QED
    BY <1>7, <1>8, <1>9, <1>10, <1>11, <1>12

\* Steps of getattr: the version its entry is filed under is no newer than
\* the version of the layout the attributes are of.
LEMMA GetattrCaches ==
    ASSUME CacheInv, NEW t \in Threads,
           GetattrIdentity(t) \/ GetattrSize(t) \/ GetattrRestat(t) \/ GetattrInsert(t)
    PROVE  CacheInv'
  <1> DEFINE l == loc[t]
             r == rows[track]
  <1>1. TypeOK /\ ShapeOK /\ LifeOK /\ ClockOK /\ CachesOK
    BY DEF CacheInv
  <1>2. l \in Locals /\ Shape(l) /\ ThreadOK(l) /\ loc \in [Threads -> Locals]
    BY DEF CacheInv, TypeOK, ShapeOK, ThreadsOK
  <1>3. TypeOK' /\ StepFrame(t) /\ ShapeOK' /\ UNCHANGED <<handle, header_cache>>
    BY <1>1, GetattrTypes, GetattrShape DEF GetattrIdentity, GetattrSize, GetattrRestat, GetattrInsert
  <1>4. SUFFICES ThreadOK(loc'[t]) /\ (size_cache' # None => SizeOK(size_cache'))
    BY <1>1, <1>3, CacheInvStep DEF CachesOK
  <1>5. Live(track) => r \in Row /\ Versioned(r) /\ Built(r)
    BY <1>1, RowBuilt
  <1>7. CASE GetattrIdentity(t)
    <2>1. "getattr" \in AllOperations /\ {"size", "failed"} \subseteq Pcs /\ UNCHANGED size_cache
      BY <1>7 DEF AllOperations, Pcs, GetattrIdentity
    <2>2. CASE Live(track)
      <3> DEFINE m == [Idle EXCEPT !.row = r, !.cv = r.content_version, !.life = r.life]
      <3>1. m \in Locals /\ m.row = r /\ m.cv = r.content_version /\ m.life = r.life
        BY <1>5, <2>2, IdleType, RowFields DEF Locals
      <3>2. Begin(t, "getattr", "size", m)
        BY <1>7, <2>2 DEF GetattrIdentity
      <3> HIDE DEF m
      <3>3. /\ loc'[t].pc = "size" /\ loc'[t].row = r /\ loc'[t].cv = r.content_version
            /\ loc'[t].life = r.life
        BY <1>1, <2>1, <3>1, <3>2, BeginType
      <3>4. ThreadOK(loc'[t])
        BY <1>5, <2>2, <3>3 DEF ThreadOK, IdentityPast, HasRow, Statted, Building, Built, Past, Versioned
      <3>5. QED
        BY <1>1, <2>1, <3>4 DEF CachesOK
    <2>3. CASE ~Live(track)
      <3>1. loc'[t].pc = "failed" /\ loc'[t].cv = 0 /\ loc'[t].life = 0
        <4>1. Idle.cv = 0 /\ Idle.life = 0
          BY DEF Idle
        <4>2. QED
          BY <1>1, <1>7, <2>1, <2>3, <4>1, IdleType, BeginType DEF GetattrIdentity
      <3>2. ThreadOK(loc'[t])
        BY <1>1, <3>1, FreshOK
      <3>3. QED
        BY <1>1, <2>1, <3>2 DEF CachesOK
    <2>4. QED
      BY <2>2, <2>3
  <1>8. CASE GetattrSize(t)
    <2>1. l.row \in Row /\ l.pc = "size" /\ UNCHANGED size_cache
      BY <1>2, <1>8 DEF GetattrSize, At, Shape, HasRow
    <2>2. CASE SizeHit(size_cache, l.row) /\ trust_backing_mtime
      BY <1>1, <1>8, <2>1, <2>2, FinishFields, EndedOK DEF GetattrSize, CachesOK
    <2>3. CASE SizeHit(size_cache, l.row) /\ ~trust_backing_mtime
      <3>1. loc'[t] = [l EXCEPT !.resolved = size_cache.attrs, !.pc = "restat"]
        BY <1>2, <1>8, <2>3 DEF GetattrSize
      <3>2. /\ loc'[t].pc = "restat" /\ loc'[t].row = l.row /\ loc'[t].cv = l.cv
            /\ loc'[t].life = l.life
        BY <1>2, <3>1 DEF Locals
      <3>3. ThreadOK(loc'[t])
        BY <1>2, <2>1, <3>2 DEF ThreadOK, IdentityPast, HasRow, Statted, Building
      <3>4. QED
        BY <1>1, <2>1, <3>3 DEF CachesOK
    <2>4. CASE ~SizeHit(size_cache, l.row)
      <3>1. loc'[t] = [l EXCEPT !.row = None, !.pc = "get_track"]
        BY <1>2, <1>8, <2>4 DEF GetattrSize
      <3>2. loc'[t].pc = "get_track" /\ loc'[t].cv = l.cv /\ loc'[t].life = l.life
        BY <1>2, <3>1 DEF Locals
      <3>3. ThreadOK(loc'[t])
        BY <1>2, <3>2 DEF ThreadOK, IdentityPast, HasRow, Statted, Building
      <3>4. QED
        BY <1>1, <2>1, <3>3 DEF CachesOK
    <2>5. QED
      BY <2>2, <2>3, <2>4
  <1>9. CASE GetattrRestat(t)
    <2>1. \/ (Finish(t, "failed") \/ Finish(t, "done")) /\ UNCHANGED size_cache
          \/ BackingChanged(t)
      BY <1>9 DEF GetattrRestat
    <2>2. size_cache' \in {size_cache, None} /\ ThreadOK(loc'[t])
      BY <1>1, <2>1, FinishFields, BackingChangedFields, BackingChangedType, EndedOK
    <2>3. QED
      BY <1>1, <2>2 DEF CachesOK
  <1>10. CASE GetattrInsert(t)
    <2> DEFINE e == SizeEntry(l)
    <2>1. l.resolved \in Layouts /\ l.pc = "resolved"
      BY <1>2, <1>10 DEF GetattrInsert, At, Shape
    <2>2. /\ e.content_version = l.cv /\ e.attrs = l.resolved /\ e.stamp = l.resolved.stamp
          /\ e.life = l.life /\ size_cache' = e
      BY <1>10 DEF GetattrInsert, SizeEntry
    <2> HIDE DEF e
    <2>3. SizeOK(e)
      BY <1>2, <2>1, <2>2 DEF SizeOK, ThreadOK, IdentityPast
    <2>4. ThreadOK(loc'[t])
      BY <1>1, <1>10, FinishFields, EndedOK DEF GetattrInsert
    <2>5. QED
      BY <2>2, <2>3, <2>4
  <1>11. QED
    BY <1>7, <1>8, <1>9, <1>10

\* Steps of an open: the handle takes the layout that was resolved.
LEMMA OpenCaches ==
    ASSUME CacheInv, NEW t \in Threads, OpenBegin(t) \/ OpenFile(t)
    PROVE  CacheInv'
  <1> DEFINE l == loc[t]
  <1>1. TypeOK /\ ShapeOK /\ LifeOK /\ ClockOK /\ CachesOK
    BY DEF CacheInv
  <1>2. l \in Locals /\ Shape(l) /\ ThreadOK(l)
    BY DEF CacheInv, TypeOK, ShapeOK, ThreadsOK
  <1>3. TypeOK' /\ StepFrame(t) /\ ShapeOK' /\ UNCHANGED header_cache
    BY <1>1, OpenTypes, OpenShape DEF OpenBegin, OpenFile
  <1>4. SUFFICES /\ ThreadOK(loc'[t]) /\ (size_cache' # None => SizeOK(size_cache'))
                 /\ handle' # None => LayoutOK(handle'.resolved)
    BY <1>1, <1>3, CacheInvStep DEF CachesOK
  <1>5. CASE OpenBegin(t)
    <2> DEFINE m == [Idle EXCEPT !.cur = refresh_gen]
    <2>1. m \in Locals /\ m.cv = 0 /\ m.life = 0
      BY <1>1, IdleType DEF Locals, TypeOK, Idle
    <2>2. Begin(t, "open", "get_track", m) /\ UNCHANGED <<handle, size_cache>>
      BY <1>5 DEF OpenBegin
    <2> HIDE DEF m
    <2>3. "open" \in AllOperations /\ "get_track" \in Pcs
      BY DEF AllOperations, Pcs
    <2>4. loc'[t].pc = "get_track" /\ loc'[t].cv = 0 /\ loc'[t].life = 0
      BY <1>1, <2>1, <2>2, <2>3, BeginType
    <2>5. ThreadOK(loc'[t])
      BY <1>1, <2>4, FreshOK
    <2>6. QED
      BY <1>1, <2>2, <2>5 DEF CachesOK
  <1>6. CASE OpenFile(t)
    <2>1. \/ /\ handle' = Opened(l) /\ Finish(t, "done") /\ UNCHANGED size_cache
          \/ /\ handle' = handle
             /\ (Finish(t, "failed") /\ UNCHANGED size_cache) \/ BackingChanged(t)
      BY <1>6 DEF OpenFile
    <2>2. size_cache' \in {size_cache, None} /\ ThreadOK(loc'[t])
      BY <1>1, <2>1, FinishFields, BackingChangedFields, BackingChangedType, EndedOK
    <2>3. LayoutOK(l.resolved) /\ Opened(l).resolved = l.resolved
      BY <1>2, <1>6 DEF OpenFile, At, ThreadOK, Opened
    <2>4. QED
      BY <1>1, <2>1, <2>2, <2>3 DEF CachesOK
  <1>7. QED
    BY <1>5, <1>6

\* Steps of a read: the handle and the thread hand sound layouts around.
LEMMA ReadCaches ==
    ASSUME CacheInv, NEW t \in Threads,
           \/ ReadBegin(t) \/ ReadAttempt(t) \/ ReadRecheck(t) \/ StoreResolved(t)
           \/ StoreGeneration(t) \/ ReadValidate(t) \/ ReadSend(t)
           \/ FallbackBegin(t) \/ FallbackOpen(t)
    PROVE  CacheInv'
  <1> DEFINE l == loc[t]
  <1>1. TypeOK /\ ShapeOK /\ LifeOK /\ ClockOK /\ CachesOK
    BY DEF CacheInv
  <1>2. l \in Locals /\ Shape(l) /\ ThreadOK(l) /\ loc \in [Threads -> Locals]
    BY DEF CacheInv, TypeOK, ShapeOK, ThreadsOK
  <1>3. TypeOK' /\ StepFrame(t) /\ ShapeOK' /\ UNCHANGED header_cache
    BY <1>1, ReadTypes, ReadShape
       DEF ReadBegin, ReadAttempt, ReadRecheck, StoreResolved, StoreGeneration, ReadValidate,
           ReadSend, FallbackBegin, FallbackOpen
  <1>4. size_cache' \in {size_cache, None}
    BY <1>1, BackingChangedType
       DEF ReadBegin, ReadAttempt, ReadRecheck, StoreResolved, StoreGeneration, ReadValidate,
           ReadSend, Served, FallbackBegin, FallbackOpen
  <1>5. handle' # None => LayoutOK(handle'.resolved)
    <2>1. CASE StoreResolved(t)
      <3>1. handle \in Handles /\ LayoutOK(l.resolved)
        BY <1>1, <1>2, <2>1 DEF StoreResolved, At, Shape, ThreadOK, TypeOK
      <3>2. handle'.resolved = l.resolved
        BY <2>1, <3>1 DEF StoreResolved, Handles
      <3>3. QED
        BY <3>1, <3>2
    <2>2. CASE StoreGeneration(t)
      <3>1. handle \in Handles /\ handle # None
        BY <1>1, <1>2, <2>2 DEF StoreGeneration, At, Shape, TypeOK
      <3>2. handle'.resolved = handle.resolved
        BY <2>2, <3>1 DEF StoreGeneration, Handles
      <3>3. QED
        BY <1>1, <3>1, <3>2 DEF CachesOK
    <2>3. CASE ~(StoreResolved(t) \/ StoreGeneration(t))
      BY <1>1, <2>3 DEF ReadBegin, ReadAttempt, ReadRecheck, ReadValidate, ReadSend, FallbackBegin,
         FallbackOpen, CachesOK
    <2>4. QED
      BY <2>1, <2>2, <2>3
  <1>6. SUFFICES ThreadOK(loc'[t])
    BY <1>1, <1>3, <1>4, <1>5, CacheInvStep DEF CachesOK
  <1>7. {"read", "read_fallback"} \subseteq AllOperations
        /\ {"attempt", "get_track"} \subseteq Pcs /\ Idle.cv = 0 /\ Idle.life = 0
    BY DEF AllOperations, Pcs, Idle
  <1>8. CASE ReadBegin(t) \/ FallbackBegin(t)
    <2>1. loc'[t].pc \in {"attempt", "get_track"} /\ loc'[t].cv = 0 /\ loc'[t].life = 0
      BY <1>1, <1>7, <1>8, IdleType, BeginType DEF ReadBegin, FallbackBegin
    <2>2. QED
      BY <1>1, <2>1, FreshOK
  <1>9. CASE ReadAttempt(t)
    <2>1. CASE Exhausted(l)
      BY <1>1, <1>9, <2>1, BackingChangedFields, EndedOK DEF ReadAttempt
    <2>2. CASE ~Exhausted(l)
      <3>1. /\ loc'[t].pc \in {"get_track", "validate"}
            /\ loc'[t].cv = l.cv /\ loc'[t].life = l.life
        BY <1>2, <1>9, <2>2 DEF ReadAttempt, Locals
      <3>2. QED
        BY <1>2, <3>1 DEF ThreadOK, IdentityPast, HasRow, Statted, Building
    <2>3. QED
      BY <2>1, <2>2
  <1>10. CASE ReadRecheck(t)
    <2>1. \/ loc'[t] = [l EXCEPT !.resolved = None, !.pc = "attempt"]
          \/ loc'[t] = [l EXCEPT !.pc = "store_resolved"]
      BY <1>2, <1>10 DEF ReadRecheck
    <2>2. l.pc = "resolved" /\ loc'[t].cv = l.cv /\ loc'[t].life = l.life
          /\ \/ loc'[t].pc = "attempt"
             \/ loc'[t].pc = "store_resolved" /\ loc'[t].resolved = l.resolved
      BY <1>2, <1>10, <2>1 DEF ReadRecheck, At, Locals
    <2>3. QED
      BY <1>2, <2>2 DEF ThreadOK, IdentityPast, HasRow, Statted, Building
  <1>11. CASE StoreResolved(t)
    <2>1. loc'[t] = [l EXCEPT !.resolved = None, !.pc = "store_generation"]
      BY <1>2, <1>11 DEF StoreResolved
    <2>2. loc'[t].pc = "store_generation" /\ loc'[t].cv = l.cv /\ loc'[t].life = l.life
      BY <1>2, <2>1 DEF Locals
    <2>3. QED
      BY <1>2, <2>2 DEF ThreadOK, IdentityPast, HasRow, Statted, Building
  <1>12. CASE StoreGeneration(t)
    <2>1. \E p \in {"attempt", "validate"} : loc'[t] = [l EXCEPT !.pc = p]
      BY <1>2, <1>12 DEF StoreGeneration, Goto
    <2>2. loc'[t].pc \in {"attempt", "validate"} /\ loc'[t].cv = l.cv /\ loc'[t].life = l.life
      BY <1>2, <2>1 DEF Locals
    <2>3. QED
      BY <1>2, <2>2 DEF ThreadOK, IdentityPast, HasRow, Statted, Building
  <1>13. CASE ReadValidate(t)
    <2>1. CASE stat[handle.file] = handle.resolved.stamp
      <3>1. LayoutOK(handle.resolved)
        BY <1>1, <1>2, <1>13 DEF ReadValidate, At, Shape, CachesOK
      <3>2. loc'[t] = [l EXCEPT !.resolved = handle.resolved, !.pc = "send"]
        BY <1>2, <1>13, <2>1 DEF ReadValidate
      <3>3. /\ loc'[t].pc = "send" /\ loc'[t].resolved = handle.resolved
            /\ loc'[t].cv = l.cv /\ loc'[t].life = l.life
        BY <1>2, <3>2 DEF Locals
      <3>4. QED
        BY <1>2, <3>1, <3>3 DEF ThreadOK, IdentityPast, HasRow, Statted, Building
    <2>2. CASE stat[handle.file] # handle.resolved.stamp
      BY <1>1, <1>13, <2>2, BackingChangedFields, EndedOK DEF ReadValidate
    <2>3. QED
      BY <2>1, <2>2
  <1>14. CASE ReadSend(t)
    <2>1. \/ Served(t) \/ Finish(t, "failed") \/ BackingChanged(t)
          \/ loc'[t] = [l EXCEPT !.why = "stale", !.resolved = None, !.pc = "get_track"]
      BY <1>2, <1>14 DEF ReadSend
    <2>2. CASE loc'[t] = [l EXCEPT !.why = "stale", !.resolved = None, !.pc = "get_track"]
      <3>1. loc'[t].pc = "get_track" /\ loc'[t].cv = l.cv /\ loc'[t].life = l.life
        BY <1>2, <2>2 DEF Locals
      <3>2. QED
        BY <1>2, <3>1 DEF ThreadOK, IdentityPast, HasRow, Statted, Building
    <2>3. QED
      BY <1>1, <2>1, <2>2, FinishFields, BackingChangedFields, EndedOK DEF Served
  <1>15. CASE FallbackOpen(t)
    <2>1. Finish(t, "failed") \/ Goto(t, "send") \/ BackingChanged(t)
      BY <1>15 DEF FallbackOpen
    <2>2. CASE Goto(t, "send")
      <3>1. loc'[t] = [l EXCEPT !.pc = "send"] /\ l.pc = "resolved"
        BY <1>2, <1>15, <2>2 DEF Goto, FallbackOpen, At
      <3>2. /\ loc'[t].pc = "send" /\ loc'[t].resolved = l.resolved
            /\ loc'[t].cv = l.cv /\ loc'[t].life = l.life
        BY <1>2, <3>1 DEF Locals
      <3>3. QED
        BY <1>2, <3>1, <3>2 DEF ThreadOK, IdentityPast, HasRow, Statted, Building
    <2>3. QED
      BY <1>1, <2>1, <2>2, FinishFields, BackingChangedFields, EndedOK
  <1>16. QED
    BY <1>8, <1>9, <1>10, <1>11, <1>12, <1>13, <1>14, <1>15

\* Commits and changes of files leave every layout in the past.
LEMMA EnvironmentCaches ==
    ASSUME CacheInv, DiskChanges \/ Write
    PROVE  CacheInv'
  <1>1. TypeOK /\ ShapeOK /\ LifeOK /\ ClockOK /\ CachesOK /\ ThreadsOK
    BY DEF CacheInv
  <1>2. /\ TypeOK' /\ Disturbed /\ UNCHANGED <<handle, header_cache, size_cache>>
        /\ DiskStep \/ (RowStep(track) /\ seq' >= seq /\ UNCHANGED <<dir, stat, clock>>)
    BY <1>1, DiskTypes, WriteStep DEF DiskStep
  <1>3. ShapeOK'
    BY <1>1, <1>2, DisturbedShape
  <1>4. ThreadsOK'
    <2> SUFFICES ASSUME NEW t \in Threads PROVE ThreadOK(loc[t])'
      BY DEF ThreadsOK
    <2>1. /\ loc[t] \in Locals /\ loc'[t] \in Locals /\ loc'[t] = [loc[t] EXCEPT !.calm = FALSE]
          /\ Shape(loc[t]) /\ ThreadOK(loc[t])
      BY <1>1, <1>2, DisturbedType DEF TypeOK, ShapeOK, ThreadsOK
    <2>2. \A m \in Locals : m = [loc[t] EXCEPT !.calm = FALSE] => ThreadOK(m)'
      BY <1>1, <1>2, <2>1, ThreadStep
    <2>3. QED
      BY <2>1, <2>2
  <1>5. LifeOK' /\ ClockOK'
    <2>1. CASE DiskStep
      <3>1. clock \in Nat /\ clock' = clock + 1 /\ \A f \in Files : stat[f].ctime \in Nat
        BY <1>1, <2>1, ServeAssumption DEF DiskStep, TypeOK, Stamps
      <3>2. \A f \in Files : stat[f].ctime <= clock /\ stat'[f].ctime \in {stat[f].ctime, clock + 1}
        BY <1>1, <2>1 DEF DiskStep, ClockOK
      <3>3. ClockOK'
        BY <3>1, <3>2 DEF ClockOK
      <3>4. QED
        BY <1>1, <2>1, <3>3 DEF DiskStep, LifeOK, Live, storeVars
    <2>2. CASE RowStep(track) /\ seq' >= seq /\ UNCHANGED <<dir, stat, clock>>
      <3>1. seq \in Nat /\ seq' \in Nat
        BY <1>1, <1>2 DEF TypeOK, StoreTypeOK
      <3>2. QED
        BY <1>1, <2>2, <3>1 DEF RowStep, LifeOK, ClockOK, Live
    <2>3. QED
      BY <1>2, <2>1, <2>2
  <1>6. CachesOK'
    <2>1. ASSUME NEW k \in Layouts, LayoutOK(k) PROVE LayoutOK(k)' /\ (Same(k)' => Same(k))
      <3>1. LayoutOK(k)'
        BY <1>1, <1>2, <2>1, LayoutStep
      <3>2. CASE DiskStep
        BY <3>1, <3>2 DEF DiskStep, storeVars, Same, Live
      <3>3. CASE RowStep(track) /\ seq' >= seq
        <4>1. Versioned(k) /\ Past(k)
          BY <2>1, LayoutFields DEF Versioned, LayoutOK, Built
        <4>2. QED
          BY <1>1, <1>2, <3>1, <3>3, <4>1, PastStep
      <3>4. QED
        BY <1>2, <3>2, <3>3
    <2>2. header_cache' # None => LayoutOK(header_cache)'
      BY <1>1, <1>2, <2>1 DEF CachesOK, TypeOK
    <2>3. handle' # None => LayoutOK(handle.resolved)'
      BY <1>1, <1>2, <2>1 DEF CachesOK, TypeOK, Handles
    <2>4. size_cache' # None => SizeOK(size_cache)'
      <3>1. seq \in Nat /\ seq' \in Nat /\ seq' >= seq
        BY <1>1, <1>2 DEF TypeOK, StoreTypeOK, DiskStep, storeVars
      <3>2. size_cache # None => /\ size_cache \in SizeEntries /\ size_cache.attrs \in Layouts
                                 /\ size_cache.life \in Nat /\ SizeOK(size_cache)
        BY <1>1 DEF CachesOK, TypeOK, SizeEntries
      <3>3. QED
        BY <1>2, <2>1, <3>1, <3>2 DEF SizeOK
    <2>5. QED
      BY <2>2, <2>3, <2>4 DEF CachesOK
  <1>7. QED
    BY <1>2, <1>3, <1>4, <1>5, <1>6 DEF CacheInv

\* Evictions, releases and refreshes only drop what the caches hold.
LEMMA OtherCaches ==
    ASSUME CacheInv, Evict \/ Release \/ PollRead \/ PollNotify \/ PollStamp \/ UNCHANGED vars
    PROVE  CacheInv'
  <1>1. TypeOK' /\ ShapeOK'
    BY TypeNext DEF CacheInv, Next
  <1>2. /\ UNCHANGED <<storeVars, dir, stat, clock, loc>>
        /\ header_cache' \in {header_cache, None} /\ size_cache' \in {size_cache, None}
        /\ handle' \in {handle, None}
    BY DEF Evict, Release, PollRead, PollNotify, PollStamp, vars, serveVars
  <1>3. LifeOK' /\ ClockOK'
    BY <1>2 DEF CacheInv, LifeOK, ClockOK, Live, storeVars
  <1>4. ThreadsOK'
    BY <1>2 DEF CacheInv, ThreadsOK, ThreadOK, HasRow, Statted, Building, LayoutOK, Built, Past,
       Present, Same, Live, SameInputs, OnDisk, IdentityPast, storeVars
  <1>5. CachesOK'
    BY <1>2 DEF CacheInv, CachesOK, SizeOK, LayoutOK, Built, Past, Present, Same, Live,
       SameInputs, OnDisk, storeVars
  <1>6. QED
    BY <1>1, <1>3, <1>4, <1>5 DEF CacheInv

\* The caches are empty at first.
LEMMA CacheInvInit == Init => CacheInv
  <1> SUFFICES ASSUME Init PROVE CacheInv
    OBVIOUS
  <1>1. TypeOK /\ ShapeOK
    BY TypeInit
  <1>2. rows[track] \in Row /\ rows[track].life = 1 /\ rows[track].content_version = 1 /\ seq = 2
    BY InitRow DEF Init
  <1>3. LifeOK
    BY <1>2 DEF LifeOK
  <1>4. ClockOK
    BY <1>2, RowFields DEF Init, ClockOK
  <1>5. ThreadsOK
    <2>1. \A t \in Threads : loc[t] = Idle
      BY DEF Init
    <2>2. ThreadOK(Idle)
      BY <1>2 DEF Idle, ThreadOK, IdentityPast, HasRow, Statted, Building
    <2>3. QED
      BY <2>1, <2>2 DEF ThreadsOK
  <1>6. CachesOK
    BY DEF Init, CachesOK
  <1>7. QED
    BY <1>1, <1>3, <1>4, <1>5, <1>6 DEF CacheInv

\* No step breaks the invariant of the caches.
LEMMA CacheInvNext == CacheInv /\ [Next]_vars => CacheInv'
  <1> SUFFICES ASSUME CacheInv, [Next]_vars PROVE CacheInv'
    OBVIOUS
  <1>1. ASSUME NEW t \in Threads, Step(t) PROVE CacheInv'
    BY <1>1, ResolveCaches, GetattrCaches, OpenCaches, ReadCaches DEF Step
  <1>2. QED
    BY <1>1, OtherCaches, EnvironmentCaches DEF Next, DiskChanges

\* The invariant of the caches holds in every behaviour.
LEMMA CachesHold == Spec => []CacheInv
  BY CacheInvInit, CacheInvNext, PTL DEF Spec

\* A layout of the current row's version and life was built from that row.
LEMMA CacheInvSound == CacheInv => CacheSound
  <1> DEFINE r == rows[track]
  <1> SUFFICES ASSUME CacheInv, Live(track), Hit(header_cache, r), header_cache.life = r.life
               PROVE  /\ SameInputs(header_cache, r)
                      /\ StatPath(r.backing_path) = RowStamp(r) => header_cache.front = r.ctime
    BY DEF CacheSound
  <1>1. header_cache \in Layouts /\ LayoutOK(header_cache) /\ r \in Row
    BY TrackRow DEF CacheInv, TypeOK, CachesOK, Hit, Live
  <1>2. SameInputs(header_cache, r)
    BY <1>1 DEF LayoutOK, Built, Present, Same, Hit
  <1>3. ASSUME StatPath(r.backing_path) = RowStamp(r) PROVE header_cache.front = r.ctime
    <2>1. r.ctime \in Nat /\ header_cache.front \in Nat /\ r.backing_path \in Paths
          /\ RowStamp(r) # None /\ RowStamp(r).ctime = r.ctime
      BY <1>1, RowFields, LayoutFields, ServeAssumption
    <2>2. dir[r.backing_path] # None /\ stat[dir[r.backing_path]].ctime = r.ctime
      BY <1>3, <2>1, StatType DEF CacheInv, StatPath
    <2>3. r.ctime <= header_cache.front /\ header_cache.front <= r.ctime
      BY <1>1, <2>1, <2>2 DEF LayoutOK, OnDisk, Hit
    <2>4. QED
      BY <2>1, <2>3
  <1>4. QED
    BY <1>2, <1>3

\* Attributes filed under the current version are those of the current row.
LEMMA CacheInvSizes == CacheInv => SizeCacheSound
  <1> DEFINE r == rows[track]
             a == size_cache.attrs
  <1> SUFFICES ASSUME CacheInv, Live(track), SizeHit(size_cache, r),
                      size_cache.life = r.life, a.life = r.life
               PROVE  SameInputs(a, r)
    BY DEF SizeCacheSound
  <1>1. a \in Layouts /\ SizeOK(size_cache) /\ r \in Row
    BY TrackRow DEF CacheInv, TypeOK, CachesOK, SizeHit, Live, SizeEntries
  <1>2. r.content_version \in Nat /\ a.content_version \in Nat
    BY <1>1, RowFields, LayoutFields
  <1>3. r.content_version <= a.content_version /\ a.content_version <= r.content_version
    BY <1>1 DEF SizeOK, LayoutOK, Built, Past, Same, SizeHit
  <1>4. QED
    BY <1>1, <1>2, <1>3 DEF SizeOK, LayoutOK, Built, Present, Same

\* Whatever a lookup of the header cache would accept for the current row was
\* built from that row, however the four reads of a build interleave with
\* commits and with changes of the file: HeaderCache::resolve never serves one
\* of the torn layouts that a build may leave in the cache.
THEOREM CachedLayoutsAreSound == Spec => []CacheSound
  BY CachesHold, CacheInvSound, PTL

\* The size getattr takes from its cache is that of the current row's layout,
\* although the version it is filed under was read before the resolve.
THEOREM CachedSizesAreSound == Spec => []SizeCacheSound
  BY CachesHold, CacheInvSizes, PTL

\* The step that serves a streamed layout.
LEMMA SendStep == CacheInv /\ [Next]_vars =>
    [\A t \in Threads :
         LET r == loc[t].resolved IN
         (/\ At(t, "send") /\ loc'[t].pc = "idle" /\ Streams(r)
          /\ r.life = rows[track].life)
         => SameInputs(r, rows[track])]_vars
  <1> SUFFICES ASSUME CacheInv, Next, NEW t \in Threads, At(t, "send"), loc'[t].pc = "idle",
                      Streams(loc[t].resolved), loc[t].resolved.life = rows[track].life
               PROVE  SameInputs(loc[t].resolved, rows[track])
    BY DEF At, vars, serveVars
  <1> DEFINE l == loc[t]
  <1>1. TypeOK /\ ShapeOK /\ l \in Locals /\ LayoutOK(l.resolved)
    BY DEF CacheInv, TypeOK, ThreadsOK, ThreadOK, At
  <1>2. ReadSend(t)
    <2>1. ASSUME NEW u \in Threads \ {t} PROVE ~Step(u)
      BY <1>1, StepTypes DEF StepFrame, At
    <2>2. ~(Evict \/ Release \/ PollRead \/ PollNotify \/ PollStamp)
      BY <1>1, OtherTypes DEF At
    <2>3. ~(DiskChanges \/ Write)
      <3>1. SUFFICES ~Disturbed
        BY <1>1, DiskTypes, WriteStep DEF DiskStep
      <3>2. [l EXCEPT !.calm = FALSE].pc = "send"
        BY <1>1 DEF Locals, At
      <3>3. QED
        BY <1>1, <3>2, DisturbedType
    <2>4. Step(t)
      BY <2>1, <2>2, <2>3 DEF Next, DiskChanges
    <2>5. QED
      BY <2>4 DEF Step, GetTrack, Stat, Lookup, BuildTags, BuildArt, BuildInsert, GetattrIdentity,
         GetattrSize, GetattrRestat, GetattrInsert, OpenBegin, OpenFile, ReadBegin, ReadAttempt,
         ReadRecheck, StoreResolved, StoreGeneration, ReadValidate, FallbackBegin, FallbackOpen,
         Begin, At
  <1>3. Live(track) /\ ~Stale(l.resolved)
    <2>1. \/ Live(track) /\ ~Stale(l.resolved)
          \/ Finish(t, "failed") \/ BackingChanged(t)
          \/ loc'[t] = [l EXCEPT !.why = "stale", !.resolved = None, !.pc = "get_track"]
      BY <1>1, <1>2 DEF ReadSend, TypeOK
    <2>2. ~Finish(t, "failed") /\ ~BackingChanged(t)
      BY <1>1, FinishFields, BackingChangedFields
    <2>3. loc'[t] # [l EXCEPT !.why = "stale", !.resolved = None, !.pc = "get_track"]
      BY <1>1 DEF Locals
    <2>4. QED
      BY <2>1, <2>2, <2>3
  <1>4. QED
    BY <1>1, <1>3 DEF LayoutOK, Built, Present, Same, Stale

\* A read that streams art or binary tags by rowid takes them from the row its
\* layout was built from: the content_version checked in the read snapshot
\* (read_into_inner) leaves no room for a commit between layout and bytes.
THEOREM StreamsAreOfTheirRow == Spec => StreamedFromCurrentRow
  BY CachesHold, SendStep, PTL DEF Spec, StreamedFromCurrentRow

(***************************************************************************)
(* HandleInv is inductive.                                                 *)
(***************************************************************************)

\* The parts of HandleInv that a step of thread t can disturb.
LEMMA HandleInvStep ==
    ASSUME HandleInv, CacheInv', NEW t \in Threads, StepFrame(t),
           loc'[t].cur <= refresh_gen,
           handle' # None => handle'.generation <= refresh_gen,
           loc'[t].op = "open" => /\ handle' = None
                                  /\ loc[t].op = "open" \/ \A u \in Threads : loc[u].op # "open",
           handle' # None /\ handle = None => loc[t].op = "open",
           keep_cache /\ ~poll.missed =>
             /\ loc'[t].op = "read" => ReaderAhead(loc'[t], handle')
             /\ loc'[t].op = "open" => OpenAhead(loc'[t])
             /\ handle' # None /\ handle'.generation = refresh_gen => Published(handle'.resolved)
             /\ \/ handle' = handle \/ handle'.resolved = handle.resolved
                \/ Published(handle'.resolved) /\ Pending(handle'.resolved)
                \/ \A u \in Threads : loc[u].op # "read"
    PROVE  HandleInv'
  <1>1. UNCHANGED <<rows, seq, poll, refresh_gen, last_seq>>
        /\ \A u \in Threads \ {t} : loc'[u] = loc[u]
    BY DEF StepFrame, storeVars
  <1>2. PollOK' /\ GenerationsOK'
    BY <1>1 DEF HandleInv, PollOK, Read, GenerationsOK, Live
  <1>3. OpenOK'
    BY <1>1 DEF HandleInv, OpenOK
  <1>4. HandleAhead'
    <2>1. \A l : Published(l)' = Published(l) /\ Pending(l)' = Pending(l)
      BY <1>1 DEF Published, Pending, NotBehind, Same, Live
    <2>2. \A l, h : ReaderAhead(l, h)' = ReaderAhead(l, h) /\ OpenAhead(l)' = OpenAhead(l)
      BY <1>1, <2>1 DEF ReaderAhead, OpenAhead
    <2>3. SUFFICES ASSUME keep_cache, ~poll.missed
                   PROVE  /\ \A u \in Threads :
                               /\ loc'[u].op = "read" => ReaderAhead(loc'[u], handle')
                               /\ loc'[u].op = "open" => OpenAhead(loc'[u])
                          /\ handle' # None /\ handle'.generation = refresh_gen
                                => Published(handle'.resolved)
      BY <1>1, <2>1, <2>2 DEF HandleAhead
    <2>4. ASSUME NEW u \in Threads \ {t}
          PROVE  /\ loc'[u].op = "read" => ReaderAhead(loc'[u], handle')
                 /\ loc'[u].op = "open" => OpenAhead(loc'[u])
      BY <1>1, <2>3 DEF HandleInv, HandleAhead, ReaderAhead
    <2>5. QED
      BY <2>3, <2>4
  <1>5. QED
    BY <1>2, <1>3, <1>4 DEF HandleInv

\* An operation that has ended, or starts over, owes nothing.
LEMMA EndedAhead ==
    ASSUME HandleInv, CacheInv', NEW t \in Threads, StepFrame(t), UNCHANGED handle,
           Ended(loc'[t], loc[t]) \/ Retries(loc'[t], loc[t])
    PROVE  HandleInv'
  <1>1. loc'[t].op \in {"none", "read_fallback"} /\ loc'[t].cur = 0 /\ refresh_gen \in Nat
    BY DEF Ended, Retries, HandleInv, CacheInv, TypeOK
  <1>2. QED
    BY <1>1, HandleInvStep DEF HandleInv, GenerationsOK, HandleAhead

\* A step that only moves the program point of an operation.
LEMMA MovedAhead ==
    ASSUME HandleInv, CacheInv', NEW t \in Threads, StepFrame(t), UNCHANGED handle,
           loc'[t].op = loc[t].op, loc'[t].cur \in {loc[t].cur, refresh_gen},
           keep_cache /\ ~poll.missed =>
             /\ loc'[t].op = "read" => ReaderAhead(loc'[t], handle)
             /\ loc'[t].op = "open" => OpenAhead(loc'[t])
    PROVE  HandleInv'
  <1>1. loc'[t].cur <= refresh_gen
    BY DEF HandleInv, GenerationsOK, CacheInv, TypeOK
  <1>2. QED
    BY <1>1, HandleInvStep DEF HandleInv, GenerationsOK, HandleAhead, OpenOK

\* The current row is not behind what a refresh has read.
LEMMA RowNotBehind ==
    ASSUME HandleInv, Live(track)
    PROVE  /\ Published(rows[track]) /\ poll.published_life <= rows[track].life
           /\ Pending(rows[track]) /\ (poll.stage = "stamp" => poll.life <= rows[track].life)
  <1>1. rows[track].content_version \in Nat
    BY RowBuilt DEF HandleInv, CacheInv, Versioned
  <1>2. Read(poll.published_life, poll.published) /\ (poll.stage = "stamp" => Read(poll.life, poll.cv))
    BY DEF HandleInv, PollOK
  <1>3. QED
    BY <1>1, <1>2 DEF Read, Published, Pending, NotBehind

\* A layout that was hit under a row's version is not behind what the row was
\* not behind: the row would have to be of an older life.
LEMMA HitNotBehind ==
    ASSUME TypeOK, NEW row \in Row, Past(row), NEW e, e.content_version = row.content_version,
           NEW life \in Nat, NEW cv, NotBehind(row, life, cv), life <= row.life
    PROVE  NotBehind(e, life, cv)
  <1>1. row.life \in Nat
    BY RowFields
  <1>2. QED
    BY <1>1 DEF NotBehind, Past, Same

\* Steps of a resolve, by a read or an open.
LEMMA ResolveAhead ==
    ASSUME HandleInv, NEW t \in Threads,
           \/ GetTrack(t) \/ Stat(t) \/ Lookup(t) \/ BuildTags(t) \/ BuildArt(t) \/ BuildInsert(t)
    PROVE  HandleInv'
  <1> DEFINE l == loc[t]
             r == rows[track]
  <1>1. CacheInv /\ TypeOK /\ ShapeOK
    BY DEF HandleInv, CacheInv
  <1>2. l \in Locals /\ Shape(l) /\ ThreadOK(l) /\ loc \in [Threads -> Locals]
    BY <1>1 DEF CacheInv, TypeOK, ShapeOK, ThreadsOK
  <1>3. CacheInv' /\ StepFrame(t) /\ UNCHANGED handle
    BY <1>1, ResolveCaches, ResolveTypes DEF GetTrack, Stat, Lookup, BuildTags, BuildArt, BuildInsert
  <1>4. keep_cache /\ ~poll.missed =>
          (l.op = "read" => ReaderAhead(l, handle)) /\ (l.op = "open" => OpenAhead(l))
    BY DEF HandleInv, HandleAhead
  <1>5. l.pc \in Building => l.row \in Row /\ Past(l.row)
    BY <1>2 DEF Shape, ThreadOK, HasRow, Built
  <1>6. poll.published_life \in Nat /\ poll.life \in Nat
    BY <1>1 DEF TypeOK, Polls
  \* The row is kept.
  <1>7. CASE /\ l.pc \in Building /\ loc'[t].pc \in Building /\ loc'[t].row = l.row
             /\ loc'[t].op = l.op /\ loc'[t].cur = l.cur
    <2>1. keep_cache /\ ~poll.missed =>
            /\ loc'[t].op = "read" => ReaderAhead(loc'[t], handle)
            /\ loc'[t].op = "open" => OpenAhead(loc'[t])
      BY <1>4, <1>7 DEF ReaderAhead, OpenAhead, Building
    <2>2. QED
      BY <1>3, <1>7, <2>1, MovedAhead
  \* The row is turned into a layout of its version.
  <1>8. CASE /\ l.pc \in Building /\ loc'[t].pc = "resolved"
             /\ loc'[t].resolved.content_version = l.row.content_version
             /\ loc'[t].op = l.op /\ loc'[t].cur = l.cur
    <2> DEFINE e == loc'[t].resolved
    <2>1. l.row \in Row /\ Past(l.row) /\ e.content_version = l.row.content_version
      BY <1>5, <1>8
    <2> HIDE DEF e
    <2>2. Published(l.row) /\ poll.published_life <= l.row.life => Published(e)
      BY <1>1, <1>6, <2>1, HitNotBehind DEF Published
    <2>3. Pending(l.row) /\ (poll.stage = "stamp" => poll.life <= l.row.life) => Pending(e)
      BY <1>1, <1>6, <2>1, HitNotBehind DEF Pending
    <2>4. keep_cache /\ ~poll.missed =>
            /\ loc'[t].op = "read" => ReaderAhead(loc'[t], handle)
            /\ loc'[t].op = "open" => OpenAhead(loc'[t])
      BY <1>4, <1>8, <2>2, <2>3 DEF ReaderAhead, OpenAhead, Building, e
    <2>5. QED
      BY <1>3, <1>8, <2>4, MovedAhead
  <1>9. CASE GetTrack(t)
    <2>1. CASE ~Live(track)
      BY <1>1, <1>3, <1>9, <2>1, FinishFields, EndedAhead DEF GetTrack
    <2>2. CASE Live(track)
      <3>1. loc'[t] = [l EXCEPT !.row = r, !.pc = "stat"]
        BY <1>2, <1>9, <2>2 DEF GetTrack
      <3>2. loc'[t].pc = "stat" /\ loc'[t].row = r /\ loc'[t].op = l.op /\ loc'[t].cur = l.cur
        BY <1>2, <3>1 DEF Locals
      <3>3. ReaderAhead(loc'[t], handle) /\ OpenAhead(loc'[t])
        BY <2>2, <3>2, RowNotBehind DEF ReaderAhead, OpenAhead
      <3>4. QED
        BY <1>3, <3>2, <3>3, MovedAhead
    <2>3. QED
      BY <2>1, <2>2
  <1>10. CASE Stat(t)
    <2>1. l.pc = "stat" /\ (Finish(t, "failed") \/ BackingChanged(t) \/ Goto(t, "lookup"))
      BY <1>10 DEF Stat, At
    <2>2. CASE Goto(t, "lookup")
      <3>1. loc'[t] = [l EXCEPT !.pc = "lookup"]
        BY <1>2, <2>2 DEF Goto
      <3>2. loc'[t].pc = "lookup" /\ loc'[t].row = l.row /\ loc'[t].op = l.op /\ loc'[t].cur = l.cur
        BY <1>2, <3>1 DEF Locals
      <3>3. QED
        BY <1>7, <2>1, <3>2 DEF Building
    <2>3. QED
      BY <1>1, <1>3, <2>1, <2>2, FinishFields, BackingChangedFields, EndedAhead
  <1>11. CASE Lookup(t)
    <2>1. l.pc = "lookup"
          /\ \/ loc'[t] = [l EXCEPT !.pc = "tags"]
             \/ /\ loc'[t] = [l EXCEPT !.resolved = header_cache, !.row = None, !.pc = "resolved"]
                /\ header_cache.content_version = l.row.content_version
      BY <1>2, <1>11 DEF Lookup, At, Hit
    <2>2. /\ loc'[t].op = l.op /\ loc'[t].cur = l.cur
          /\ \/ loc'[t].pc = "tags" /\ loc'[t].row = l.row
             \/ /\ loc'[t].pc = "resolved"
                /\ loc'[t].resolved.content_version = l.row.content_version
      BY <1>2, <2>1 DEF Locals
    <2>3. QED
      BY <1>7, <1>8, <2>1, <2>2 DEF Building
  <1>12. CASE BuildTags(t) \/ BuildArt(t)
    <2>1. \/ l.pc = "tags" /\ loc'[t] = [l EXCEPT !.tags = TagsOf(r), !.pc = "art"]
          \/ l.pc = "art" /\ loc'[t] = [l EXCEPT !.art = ArtOf(r), !.pc = "insert"]
      BY <1>2, <1>12 DEF BuildTags, BuildArt, At
    <2>2. /\ loc'[t].op = l.op /\ loc'[t].cur = l.cur /\ loc'[t].row = l.row
          /\ loc'[t].pc \in {"art", "insert"}
      BY <1>2, <2>1 DEF Locals
    <2>3. QED
      BY <1>7, <2>1, <2>2 DEF Building
  <1>13. CASE BuildInsert(t)
    <2> DEFINE s == StatPath(l.row.backing_path)
               built == Layout(l, s.ctime)
    <2>1. CASE s = None
      BY <1>1, <1>3, <1>13, <2>1, FinishFields, EndedAhead DEF BuildInsert
    <2>2. CASE s # None
      <3>1. /\ loc'[t] = [l EXCEPT !.resolved = built, !.row = None, !.tags = None, !.art = None,
                                   !.pc = "resolved"]
            /\ l.pc = "insert"
        BY <1>2, <1>13, <2>2 DEF BuildInsert, At
      <3>2. built.content_version = l.row.content_version
        BY DEF Layout
      <3> HIDE DEF built
      <3>3. /\ loc'[t].pc = "resolved" /\ loc'[t].resolved = built
            /\ loc'[t].op = l.op /\ loc'[t].cur = l.cur
        BY <1>2, <3>1 DEF Locals
      <3>4. QED
        BY <1>8, <3>1, <3>2, <3>3 DEF Building
    <2>3. QED
      BY <2>1, <2>2
  <1>14. QED
    BY <1>9, <1>10, <1>11, <1>12, <1>13

\* Steps of getattr touch neither handle nor generation.
LEMMA GetattrAhead ==
    ASSUME HandleInv, NEW t \in Threads,
           GetattrIdentity(t) \/ GetattrSize(t) \/ GetattrRestat(t) \/ GetattrInsert(t)
    PROVE  HandleInv'
  <1> DEFINE l == loc[t]
  <1>1. CacheInv /\ TypeOK /\ ShapeOK /\ l \in Locals /\ Shape(l) /\ loc \in [Threads -> Locals]
    BY DEF HandleInv, CacheInv, TypeOK, ShapeOK
  <1>2. CacheInv' /\ StepFrame(t) /\ UNCHANGED handle
    BY <1>1, GetattrCaches, GetattrTypes DEF GetattrIdentity, GetattrSize, GetattrRestat, GetattrInsert
  <1>3. CASE GetattrIdentity(t)
    <2> DEFINE m == [Idle EXCEPT !.row = rows[track], !.cv = rows[track].content_version,
                                 !.life = rows[track].life]
    <2>1. Idle \in Locals /\ Idle.cur = 0 /\ (Live(track) => m \in Locals /\ m.cur = 0)
      <3>1. Live(track) => rows[track] \in Row
        BY <1>1, RowBuilt DEF CacheInv
      <3>2. QED
        BY <3>1, IdleType, RowFields DEF Locals, Idle
    <2>2. IF Live(track) THEN Begin(t, "getattr", "size", m) ELSE Begin(t, "getattr", "failed", Idle)
      BY <1>3 DEF GetattrIdentity
    <2> HIDE DEF m
    <2>3. "getattr" \in AllOperations /\ {"size", "failed"} \subseteq Pcs
      BY DEF AllOperations, Pcs
    <2>4. loc'[t].op = "getattr" /\ loc'[t].cur = 0
      BY <1>1, <2>1, <2>2, <2>3, BeginType
    <2>5. refresh_gen \in Nat
      BY <1>1 DEF TypeOK
    <2>6. QED
      BY <1>2, <2>4, <2>5, HandleInvStep DEF HandleInv, GenerationsOK, HandleAhead
  <1>4. CASE GetattrSize(t)
    <2>1. l.op = "getattr"
          /\ \/ Finish(t, "done")
             \/ loc'[t] = [l EXCEPT !.resolved = size_cache.attrs, !.pc = "restat"]
             \/ loc'[t] = [l EXCEPT !.row = None, !.pc = "get_track"]
      BY <1>1, <1>4 DEF GetattrSize, At, Shape
    <2>2. CASE ~Finish(t, "done")
      <3>1. loc'[t].op = l.op /\ loc'[t].cur = l.cur
        BY <1>1, <2>1, <2>2 DEF Locals
      <3>2. QED
        BY <1>2, <2>1, <3>1, MovedAhead
    <2>3. QED
      BY <1>1, <1>2, <2>2, FinishFields, EndedAhead
  <1>5. CASE GetattrRestat(t) \/ GetattrInsert(t)
    <2>1. Finish(t, "failed") \/ Finish(t, "done") \/ BackingChanged(t)
      BY <1>5 DEF GetattrRestat, GetattrInsert
    <2>2. QED
      BY <1>1, <1>2, <2>1, FinishFields, BackingChangedFields, EndedAhead
  <1>6. QED
    BY <1>3, <1>4, <1>5

\* Steps of an open: the generation its handle carries was loaded before the
\* row was read.
LEMMA OpenHandleAhead ==
    ASSUME HandleInv, NEW t \in Threads, OpenBegin(t) \/ OpenFile(t)
    PROVE  HandleInv'
  <1> DEFINE l == loc[t]
  <1>1. CacheInv /\ TypeOK /\ ShapeOK /\ l \in Locals /\ Shape(l)
    BY DEF HandleInv, CacheInv, TypeOK, ShapeOK
  <1>2. CacheInv' /\ StepFrame(t)
    BY <1>1, OpenCaches, OpenTypes
  <1>3. CASE OpenBegin(t)
    <2> DEFINE m == [Idle EXCEPT !.cur = refresh_gen]
    <2>1. m \in Locals /\ m.cur = refresh_gen /\ refresh_gen \in Nat
      BY <1>1, IdleType DEF Locals, TypeOK, Idle
    <2>2. /\ Begin(t, "open", "get_track", m) /\ UNCHANGED handle /\ handle = None
          /\ \A u \in Threads : loc[u].op # "open"
      BY <1>3 DEF OpenBegin, Op
    <2> HIDE DEF m
    <2>3. "open" \in AllOperations /\ "get_track" \in Pcs
      BY DEF AllOperations, Pcs
    <2>4. loc'[t].op = "open" /\ loc'[t].pc = "get_track" /\ loc'[t].cur = refresh_gen
      BY <1>1, <2>1, <2>2, <2>3, BeginType
    <2>5. OpenAhead(loc'[t])
      BY <2>4 DEF OpenAhead, Building
    <2>6. QED
      BY <1>2, <2>1, <2>2, <2>4, <2>5, HandleInvStep
  <1>4. CASE OpenFile(t)
    <2>1. l.pc = "resolved" /\ l.op = "open" /\ l.resolved \in Layouts
          /\ \/ /\ handle' = Opened(l) /\ Finish(t, "done")
             \/ handle' = handle /\ (Finish(t, "failed") \/ BackingChanged(t))
      BY <1>1, <1>4 DEF OpenFile, At, Op, Shape
    <2>2. CASE handle' = handle /\ (Finish(t, "failed") \/ BackingChanged(t))
      BY <1>1, <1>2, <2>2, FinishFields, BackingChangedFields, EndedAhead
    <2>3. CASE handle' = Opened(l) /\ Finish(t, "done")
      <3>1. handle'.generation = l.cur /\ handle'.resolved = l.resolved
        BY <2>3 DEF Opened
      <3>2. handle = None /\ \A u \in Threads : loc[u].op # "read"
        BY <1>1, <2>1 DEF HandleInv, OpenOK, ShapeOK, Shape
      <3>3. loc'[t].op = "none" /\ loc'[t].cur = 0
        BY <1>1, <2>3, FinishFields DEF Ended
      <3>4. l.cur <= refresh_gen /\ 0 <= refresh_gen
        BY <1>1 DEF HandleInv, GenerationsOK, TypeOK
      <3>5. keep_cache /\ ~poll.missed => (l.cur = refresh_gen => Published(l.resolved))
        BY <2>1 DEF HandleInv, HandleAhead, OpenAhead
      <3>6. QED
        BY <1>2, <2>1, <3>1, <3>2, <3>3, <3>4, <3>5, HandleInvStep
    <2>4. QED
      BY <2>1, <2>2, <2>3
  <1>5. QED
    BY <1>3, <1>4

\* Steps of a read: the handle takes its layout and its generation in two
\* stores, and the layout is never behind the last refresh.
LEMMA ReadHandleAhead ==
    ASSUME HandleInv, NEW t \in Threads,
           \/ ReadBegin(t) \/ ReadAttempt(t) \/ ReadRecheck(t) \/ StoreResolved(t)
           \/ StoreGeneration(t) \/ ReadValidate(t) \/ ReadSend(t)
           \/ FallbackBegin(t) \/ FallbackOpen(t)
    PROVE  HandleInv'
  <1> DEFINE l == loc[t]
  <1>1. CacheInv /\ TypeOK /\ ShapeOK
    BY DEF HandleInv, CacheInv
  <1>2. l \in Locals /\ Shape(l) /\ loc \in [Threads -> Locals] /\ refresh_gen \in Nat
    BY <1>1 DEF TypeOK, ShapeOK
  <1>3. CacheInv' /\ StepFrame(t)
    BY <1>1, ReadCaches, ReadTypes
  <1>4. l.op = "read" /\ keep_cache /\ ~poll.missed => ReaderAhead(l, handle)
    BY DEF HandleInv, HandleAhead
  <1>5. {"read", "read_fallback"} \subseteq AllOperations
        /\ {"attempt", "get_track"} \subseteq Pcs /\ Idle.cur = 0
    BY DEF AllOperations, Pcs, Idle
  <1>6. CASE ReadBegin(t) \/ FallbackBegin(t)
    <2>1. /\ loc'[t].pc \in {"attempt", "get_track"} /\ loc'[t].op \in {"read", "read_fallback"}
          /\ loc'[t].cur = 0 /\ UNCHANGED handle
      BY <1>1, <1>5, <1>6, IdleType, BeginType DEF ReadBegin, FallbackBegin
    <2>2. ReaderAhead(loc'[t], handle)
      BY <2>1 DEF ReaderAhead, Building
    <2>3. QED
      BY <1>2, <1>3, <2>1, <2>2, HandleInvStep DEF HandleInv, GenerationsOK, HandleAhead
  <1>7. CASE ReadAttempt(t)
    <2>1. UNCHANGED handle
      BY <1>7 DEF ReadAttempt
    <2>2. CASE Exhausted(l)
      BY <1>1, <1>3, <1>7, <2>1, <2>2, BackingChangedFields, EndedAhead DEF ReadAttempt
    <2>3. CASE ~Exhausted(l)
      <3>1. /\ loc'[t].pc \in {"get_track", "validate"} /\ loc'[t].op = l.op
            /\ loc'[t].cur = refresh_gen /\ l.op = "read"
        BY <1>2, <1>7, <2>3 DEF ReadAttempt, Locals, At, Shape
      <3>2. ReaderAhead(loc'[t], handle)
        BY <3>1 DEF ReaderAhead, Building
      <3>3. QED
        BY <1>3, <2>1, <3>1, <3>2, MovedAhead
    <2>4. QED
      BY <2>2, <2>3
  <1>8. CASE ReadRecheck(t)
    <2>1. /\ UNCHANGED handle /\ l.pc = "resolved" /\ l.op = "read"
          /\ \/ loc'[t] = [l EXCEPT !.resolved = None, !.pc = "attempt"]
             \/ loc'[t] = [l EXCEPT !.pc = "store_resolved"]
      BY <1>2, <1>8 DEF ReadRecheck, At, Op
    <2>2. /\ loc'[t].op = l.op /\ loc'[t].cur = l.cur
          /\ \/ loc'[t].pc = "attempt"
             \/ loc'[t].pc = "store_resolved" /\ loc'[t].resolved = l.resolved
      BY <1>2, <2>1 DEF Locals
    <2>3. keep_cache /\ ~poll.missed => ReaderAhead(loc'[t], handle)
      BY <1>4, <2>1, <2>2 DEF ReaderAhead, Building
    <2>4. QED
      BY <1>3, <2>1, <2>2, <2>3, MovedAhead
  <1>9. CASE StoreResolved(t)
    <2>1. /\ l.pc = "store_resolved" /\ l.op = "read" /\ handle \in Handles /\ handle # None
          /\ loc'[t] = [l EXCEPT !.resolved = None, !.pc = "store_generation"]
          /\ handle' = [handle EXCEPT !.resolved = l.resolved]
      BY <1>1, <1>2, <1>9 DEF StoreResolved, At, Shape, TypeOK
    <2>2. /\ loc'[t].op = "read" /\ loc'[t].cur = l.cur /\ loc'[t].pc = "store_generation"
          /\ handle'.resolved = l.resolved /\ handle'.generation = handle.generation
      BY <1>2, <2>1 DEF Locals, Handles
    <2>3. keep_cache /\ ~poll.missed => Published(l.resolved) /\ Pending(l.resolved)
      BY <1>4, <2>1 DEF ReaderAhead
    <2>4. keep_cache /\ ~poll.missed => ReaderAhead(loc'[t], handle')
      BY <2>2, <2>3 DEF ReaderAhead, Building
    <2>5. l.cur <= refresh_gen /\ handle.generation <= refresh_gen
      BY <2>1 DEF HandleInv, GenerationsOK
    <2>6. QED
      BY <1>3, <2>1, <2>2, <2>3, <2>4, <2>5, HandleInvStep
  <1>10. CASE StoreGeneration(t)
    <2> DEFINE g == IF l.why = "stale" THEN refresh_gen ELSE l.cur
               b == l.why = "stale" /\ refresh_gen # l.cur
    <2>1. /\ l.pc = "store_generation" /\ l.op = "read" /\ handle \in Handles /\ handle # None
          /\ \E p \in {"attempt", "validate"} : loc'[t] = [l EXCEPT !.pc = p]
          /\ handle' = [handle EXCEPT !.generation = g, !.late = b]
      BY <1>1, <1>2, <1>10 DEF StoreGeneration, Goto, At, Shape, TypeOK
    <2>2. g \in {refresh_gen, l.cur}
      OBVIOUS
    <2> HIDE DEF g, b
    <2>3. /\ loc'[t].op = "read" /\ loc'[t].cur = l.cur /\ loc'[t].pc \in {"attempt", "validate"}
          /\ handle'.resolved = handle.resolved /\ handle'.generation = g
      BY <1>2, <2>1 DEF Locals, Handles
    <2>4. keep_cache /\ ~poll.missed => Published(handle.resolved)
      BY <1>4, <2>1 DEF ReaderAhead
    <2>5. ReaderAhead(loc'[t], handle')
      BY <2>3 DEF ReaderAhead, Building
    <2>6. l.cur <= refresh_gen /\ refresh_gen <= refresh_gen
      BY <1>2 DEF HandleInv, GenerationsOK
    <2>7. QED
      BY <1>3, <2>1, <2>2, <2>3, <2>4, <2>5, <2>6, HandleInvStep
  <1>11. CASE ReadValidate(t)
    <2>1. UNCHANGED handle
      BY <1>11 DEF ReadValidate
    <2>2. CASE stat[handle.file] = handle.resolved.stamp
      <3>1. loc'[t] = [l EXCEPT !.resolved = handle.resolved, !.pc = "send"] /\ l.op = "read"
        BY <1>2, <1>11, <2>2 DEF ReadValidate, At, Shape
      <3>2. loc'[t].op = l.op /\ loc'[t].cur = l.cur /\ loc'[t].pc = "send"
        BY <1>2, <3>1 DEF Locals
      <3>3. ReaderAhead(loc'[t], handle)
        BY <3>2 DEF ReaderAhead, Building
      <3>4. QED
        BY <1>3, <2>1, <3>1, <3>2, <3>3, MovedAhead
    <2>3. CASE stat[handle.file] # handle.resolved.stamp
      BY <1>1, <1>3, <1>11, <2>1, <2>3, BackingChangedFields, EndedAhead DEF ReadValidate
    <2>4. QED
      BY <2>2, <2>3
  <1>12. CASE ReadSend(t)
    <2>1. UNCHANGED handle
      BY <1>12 DEF ReadSend
    <2>2. \/ Served(t) \/ Finish(t, "failed") \/ BackingChanged(t)
          \/ /\ loc'[t] = [l EXCEPT !.why = "stale", !.resolved = None, !.pc = "get_track"]
             /\ l.op = "read"
      BY <1>2, <1>12 DEF ReadSend, Op
    <2>3. CASE /\ loc'[t] = [l EXCEPT !.why = "stale", !.resolved = None, !.pc = "get_track"]
               /\ l.op = "read"
      <3>1. loc'[t].op = l.op /\ loc'[t].cur = l.cur /\ loc'[t].pc = "get_track"
        BY <1>2, <2>3 DEF Locals
      <3>2. ReaderAhead(loc'[t], handle)
        BY <3>1 DEF ReaderAhead, Building
      <3>3. QED
        BY <1>3, <2>1, <2>3, <3>1, <3>2, MovedAhead
    <2>4. QED
      BY <1>1, <1>3, <2>1, <2>2, <2>3, FinishFields, BackingChangedFields, EndedAhead DEF Served
  <1>13. CASE FallbackOpen(t)
    <2>1. UNCHANGED handle /\ l.op = "read_fallback"
          /\ (Finish(t, "failed") \/ Goto(t, "send") \/ BackingChanged(t))
      BY <1>13 DEF FallbackOpen, Op
    <2>2. CASE Goto(t, "send")
      <3>1. loc'[t] = [l EXCEPT !.pc = "send"]
        BY <1>2, <2>2 DEF Goto
      <3>2. loc'[t].op = l.op /\ loc'[t].cur = l.cur
        BY <1>2, <3>1 DEF Locals
      <3>3. QED
        BY <1>3, <2>1, <3>2, MovedAhead
    <2>3. QED
      BY <1>1, <1>3, <2>1, <2>2, FinishFields, BackingChangedFields, EndedAhead
  <1>14. QED
    BY <1>6, <1>7, <1>8, <1>9, <1>10, <1>11, <1>12, <1>13

\* An eviction, a release and the three steps of a refresh.
LEMMA OtherAhead ==
    ASSUME HandleInv, Evict \/ Release \/ PollRead \/ PollNotify \/ PollStamp \/ UNCHANGED vars
    PROVE  HandleInv'
  <1>1. CacheInv /\ TypeOK /\ ShapeOK
    BY DEF HandleInv, CacheInv
  <1>2. CacheInv'
    BY <1>1, OtherCaches
  <1>3. UNCHANGED <<rows, seq, loc>>
    BY DEF Evict, Release, PollRead, PollNotify, PollStamp, vars, serveVars, storeVars
  <1>4. poll \in Polls /\ refresh_gen \in Nat /\ seq \in Nat /\ last_seq \in Nat
        /\ poll.published_life \in Nat /\ poll.life \in Nat
    BY <1>1 DEF TypeOK, StoreTypeOK, Polls
  <1>5. \A l, life, cv : NotBehind(l, life, cv)' = NotBehind(l, life, cv)
                         /\ Read(life, cv)' = Read(life, cv)
    BY <1>3 DEF NotBehind, Read, Same, Live
  <1>6. CASE Evict \/ UNCHANGED vars
    <2>1. UNCHANGED <<rows, seq, loc, handle, poll, refresh_gen, last_seq>>
      BY <1>3, <1>6 DEF Evict, vars, serveVars
    <2>2. PollOK' /\ GenerationsOK' /\ OpenOK'
      BY <2>1 DEF HandleInv, PollOK, Read, GenerationsOK, OpenOK, Live
    <2>3. HandleAhead'
      BY <1>5, <2>1 DEF HandleInv, HandleAhead, ReaderAhead, OpenAhead, Published, Pending
    <2>4. QED
      BY <1>2, <2>2, <2>3 DEF HandleInv
  <1>7. CASE Release
    <2>1. UNCHANGED <<poll, refresh_gen, last_seq>> /\ handle' = None
          /\ \A t \in Threads : loc[t].op # "read"
      BY <1>7 DEF Release, Reading, Op
    <2>2. PollOK' /\ GenerationsOK' /\ OpenOK'
      BY <1>3, <2>1 DEF HandleInv, PollOK, Read, GenerationsOK, OpenOK, Live
    <2>3. HandleAhead'
      BY <1>3, <1>5, <2>1 DEF HandleInv, HandleAhead, OpenAhead, Published
    <2>4. QED
      BY <1>2, <2>2, <2>3 DEF HandleInv
  <1>8. CASE PollRead
    <2> DEFINE cv == IF Live(track) THEN rows[track].content_version ELSE None
               life == IF Live(track) THEN rows[track].life ELSE 0
               missed == poll.missed \/ (cv = poll.published /\ life # poll.published_life)
    <2>1. /\ poll' = [poll EXCEPT !.stage = "notify", !.seq = seq, !.cv = cv, !.life = life,
                                  !.missed = missed]
          /\ UNCHANGED <<handle, refresh_gen, last_seq>> /\ last_seq < seq
      BY <1>8 DEF PollRead
    <2>2. missed \in BOOLEAN /\ (~missed => ~poll.missed /\ (cv = poll.published => life = poll.published_life))
      BY <1>4 DEF Polls
    <2>3. Read(life, cv)
          /\ (Live(track) => life = rows[track].life /\ cv = rows[track].content_version)
      <3>1. Live(track) => rows[track].life \in Nat /\ rows[track].content_version \in Nat
                           /\ rows[track].life <= seq
        BY <1>1, RowBuilt DEF CacheInv, Versioned, Built, Past
      <3>2. QED
        BY <1>4, <3>1 DEF Read
    <2> HIDE DEF cv, life, missed
    <2>4. /\ poll'.stage = "notify" /\ poll'.seq = seq /\ poll'.cv = cv /\ poll'.life = life
          /\ poll'.missed = missed /\ poll'.published = poll.published
          /\ poll'.published_life = poll.published_life
      BY <1>4, <2>1, <2>2 DEF Polls
    <2>5. PollOK'
      <3>1. Read(poll.life, poll.cv)' /\ Read(poll.published_life, poll.published)'
        BY <1>3, <2>3, <2>4 DEF HandleInv, PollOK, Read, Live
      <3>2. QED
        BY <1>3, <1>4, <2>1, <2>2, <2>3, <2>4, <3>1 DEF HandleInv, PollOK, Live
    <2>6. GenerationsOK' /\ OpenOK'
      BY <1>3, <2>1 DEF HandleInv, GenerationsOK, OpenOK
    <2>7. HandleAhead'
      BY <1>3, <1>5, <2>1, <2>2, <2>4
         DEF HandleInv, HandleAhead, ReaderAhead, OpenAhead, Published, Pending
    <2>8. QED
      BY <1>2, <2>5, <2>6, <2>7 DEF HandleInv
  <1>9. CASE PollNotify
    <2>1. /\ poll' = [poll EXCEPT !.stage = "stamp"] /\ poll.stage = "notify"
          /\ UNCHANGED <<handle, refresh_gen, last_seq>>
          /\ Invalidates => \A t \in Threads : loc[t].op # "read"
      BY <1>9 DEF PollNotify, Reading, Op
    <2>2. /\ poll'.stage = "stamp" /\ poll'.seq = poll.seq /\ poll'.cv = poll.cv
          /\ poll'.life = poll.life /\ poll'.missed = poll.missed
          /\ poll'.published = poll.published /\ poll'.published_life = poll.published_life
      BY <1>4, <2>1 DEF Polls
    <2>3. PollOK' /\ GenerationsOK' /\ OpenOK'
      BY <1>3, <2>1, <2>2 DEF HandleInv, PollOK, Read, GenerationsOK, OpenOK, Live
    <2>4. HandleAhead'
      <3>1. SUFFICES ASSUME keep_cache, ~poll.missed
                     PROVE  /\ \A t \in Threads :
                                 /\ loc[t].op = "read" => ReaderAhead(loc[t], handle)'
                                 /\ loc[t].op = "open" => OpenAhead(loc[t])'
                            /\ handle # None /\ handle.generation = refresh_gen
                                  => Published(handle.resolved)'
        BY <1>3, <2>1, <2>2 DEF HandleAhead
      <3>2. /\ handle # None /\ handle.generation = refresh_gen => Published(handle.resolved)'
            /\ \A t \in Threads : loc[t].op = "open" => OpenAhead(loc[t])'
        BY <1>3, <1>5, <2>1, <2>2, <3>1 DEF HandleInv, HandleAhead, OpenAhead, Published
      \* Without an invalidation the refresh publishes what it published last.
      <3>3. ASSUME NEW t \in Threads, loc[t].op = "read" PROVE ReaderAhead(loc[t], handle)'
        <4>1. poll.cv = poll.published
          BY <2>1, <3>1, <3>3 DEF Invalidates
        <4>2. poll.life = poll.published_life
          BY <2>1, <3>1, <4>1 DEF HandleInv, PollOK
        <4>3. ReaderAhead(loc[t], handle)
          BY <3>1, <3>3 DEF HandleInv, HandleAhead
        <4>4. \A l : (Published(l)' <=> Published(l)) /\ (Pending(l)' <=> Published(l))
          BY <1>5, <2>2, <4>1, <4>2 DEF Published, Pending
        <4>5. QED
          BY <1>3, <2>1, <2>2, <4>2, <4>3, <4>4 DEF ReaderAhead
      <3>4. QED
        BY <3>2, <3>3
    <2>5. QED
      BY <1>2, <2>3, <2>4 DEF HandleInv
  <1>10. CASE PollStamp
    <2>1. /\ poll' = [poll EXCEPT !.stage = "idle", !.seq = 0, !.cv = None, !.life = 0,
                                  !.published = poll.cv, !.published_life = poll.life]
          /\ poll.stage = "stamp" /\ last_seq' = poll.seq /\ refresh_gen' = refresh_gen + 1
          /\ UNCHANGED handle
      BY <1>10 DEF PollStamp, NextGeneration
    <2>2. /\ poll'.stage = "idle" /\ poll'.missed = poll.missed
          /\ poll'.published = poll.cv /\ poll'.published_life = poll.life
      BY <1>4, <2>1 DEF Polls
    <2>3. PollOK'
      BY <1>3, <2>1, <2>2 DEF HandleInv, PollOK, Read, Live
    <2>4. GenerationsOK' /\ OpenOK'
      <3>1. \A t \in Threads : loc[t].cur \in Nat /\ loc[t].cur <= refresh_gen
        BY <1>1, LocalsFields DEF HandleInv, GenerationsOK, TypeOK
      <3>2. handle # None => handle.generation \in Nat /\ handle.generation <= refresh_gen
        BY <1>1 DEF HandleInv, GenerationsOK, TypeOK, Handles
      <3>3. QED
        BY <1>3, <1>4, <2>1, <3>1, <3>2 DEF HandleInv, GenerationsOK, OpenOK
    <2>5. HandleAhead'
      <3>1. (\A t \in Threads : loc[t].cur # refresh_gen')
            /\ (handle # None => handle.generation # refresh_gen')
        <4>1. \A t \in Threads : loc[t].cur \in Nat /\ loc[t].cur <= refresh_gen
          BY <1>1, LocalsFields DEF HandleInv, GenerationsOK, TypeOK
        <4>2. handle # None => handle.generation \in Nat /\ handle.generation <= refresh_gen
          BY <1>1 DEF HandleInv, GenerationsOK, TypeOK, Handles
        <4>3. QED
          BY <1>4, <2>1, <4>1, <4>2
      <3>2. \A l : (Published(l)' <=> Pending(l)) /\ Pending(l)'
        BY <1>5, <2>1, <2>2 DEF Published, Pending
      <3>3. QED
        BY <1>3, <2>1, <2>2, <3>1, <3>2 DEF HandleInv, HandleAhead, ReaderAhead, OpenAhead
    <2>6. QED
      BY <1>2, <2>3, <2>4, <2>5 DEF HandleInv
  <1>11. QED
    BY <1>6, <1>7, <1>8, <1>9, <1>10

\* A commit leaves the versions that refreshes have read in the past.
LEMMA ReadStep ==
    ASSUME TypeOK, TypeOK', RowStep(track), seq' >= seq, NEW life \in Nat, NEW cv, Read(life, cv)
    PROVE  Read(life, cv)'
  <1>1. /\ rows[track] # None => rows[track].content_version \in Nat /\ rows[track].life \in Nat
        /\ rows'[track] # None => rows'[track].content_version \in Nat /\ rows'[track].life \in Nat
    <2>1. rows[track] \in Row \cup {None} /\ rows'[track] \in Row \cup {None}
      BY TrackRow DEF TypeOK, StoreTypeOK
    <2>2. QED
      BY <2>1 DEF Row
  <1>2. seq \in Nat /\ seq' \in Nat
    BY DEF TypeOK, StoreTypeOK
  <1>3. QED
    BY <1>1, <1>2 DEF Read, Live, RowStep

\* Commits and changes of files move neither handle nor refresh.
LEMMA EnvironmentAhead ==
    ASSUME HandleInv, DiskChanges \/ Write
    PROVE  HandleInv'
  <1>1. CacheInv /\ TypeOK /\ ShapeOK /\ CachesOK /\ ThreadsOK
    BY DEF HandleInv, CacheInv
  <1>2. CacheInv' /\ TypeOK'
    BY <1>1, EnvironmentCaches DEF CacheInv
  <1>3. /\ Disturbed /\ UNCHANGED <<handle, poll, refresh_gen, last_seq>>
        /\ RowStep(track) /\ seq' >= seq
    <2>1. CASE DiskChanges
      <3>1. DiskStep /\ seq \in Nat
        BY <1>1, <2>1, DiskTypes DEF TypeOK, StoreTypeOK
      <3>2. QED
        BY <3>1 DEF DiskStep, storeVars, RowStep
    <2>2. CASE Write
      BY <1>1, <2>2, WriteStep
    <2>3. QED
      BY <2>1, <2>2
  <1>4. \A t \in Threads : /\ loc'[t].op = loc[t].op /\ loc'[t].pc = loc[t].pc
                           /\ loc'[t].cur = loc[t].cur /\ loc'[t].row = loc[t].row
                           /\ loc'[t].resolved = loc[t].resolved
    <2> SUFFICES ASSUME NEW t \in Threads
                 PROVE  /\ loc'[t].op = loc[t].op /\ loc'[t].pc = loc[t].pc
                        /\ loc'[t].cur = loc[t].cur /\ loc'[t].row = loc[t].row
                        /\ loc'[t].resolved = loc[t].resolved
      OBVIOUS
    <2>1. loc[t] \in Locals /\ loc'[t] = [loc[t] EXCEPT !.calm = FALSE]
      BY <1>1, <1>3, DisturbedType DEF TypeOK
    <2>2. QED
      BY <2>1 DEF Locals
  <1>5. seq \in Nat /\ seq' \in Nat /\ last_seq \in Nat /\ poll.seq \in Nat
        /\ poll.life \in Nat /\ poll.published_life \in Nat
    BY <1>1, <1>2 DEF TypeOK, StoreTypeOK, Polls
  <1>6. PollOK'
    <2>1. \A life \in Nat : \A cv : Read(life, cv) => Read(life, cv)'
      BY <1>1, <1>2, <1>3, ReadStep
    <2>2. seq' = seq => rows'[track] = rows[track]
      BY <1>3, <1>5 DEF RowStep
    <2>3. QED
      BY <1>3, <1>5, <2>1, <2>2 DEF HandleInv, PollOK, Live
  <1>7. GenerationsOK' /\ OpenOK'
    BY <1>3, <1>4 DEF HandleInv, GenerationsOK, OpenOK
  <1>8. HandleAhead'
    <2>1. ASSUME NEW l, Versioned(l), Past(l), NEW life, NEW cv, NotBehind(l, life, cv)
          PROVE  NotBehind(l, life, cv)'
      BY <1>1, <1>2, <1>3, <2>1, PastStep DEF NotBehind
    <2>2. ASSUME NEW l, Versioned(l), Past(l)
          PROVE  (Published(l) => Published(l)') /\ (Pending(l) => Pending(l)')
      BY <1>3, <2>1, <2>2 DEF Published, Pending
    <2>3. ASSUME NEW t \in Threads
          PROVE  /\ loc[t].pc \in Building => Versioned(loc[t].row) /\ Past(loc[t].row)
                 /\ loc[t].pc \in {"resolved", "store_resolved"} =>
                      Versioned(loc[t].resolved) /\ Past(loc[t].resolved)
      BY <1>1, RowFields, LayoutFields
         DEF ShapeOK, Shape, ThreadsOK, ThreadOK, HasRow, Building, Built, LayoutOK, Versioned
    <2>4. handle # None => Versioned(handle.resolved) /\ Past(handle.resolved)
      BY <1>1, LayoutFields DEF TypeOK, Handles, CachesOK, LayoutOK, Built, Versioned
    <2>5. \A t \in Threads : loc[t].op = "read" => handle # None
      BY <1>1 DEF ShapeOK, Shape
    <2>6. SUFFICES ASSUME keep_cache, ~poll.missed
                   PROVE  /\ \A t \in Threads :
                               /\ loc[t].op = "read" => ReaderAhead(loc[t], handle)'
                               /\ loc[t].op = "open" => OpenAhead(loc[t])'
                          /\ handle # None /\ handle.generation = refresh_gen
                                => Published(handle.resolved)'
      BY <1>3, <1>4 DEF HandleAhead
    <2>7. ASSUME NEW t \in Threads, loc[t].op = "read" PROVE ReaderAhead(loc[t], handle)'
      <3>1. ReaderAhead(loc[t], handle)
        BY <2>6, <2>7 DEF HandleInv, HandleAhead
      <3>2. QED
        BY <1>3, <1>4, <2>2, <2>3, <2>4, <2>5, <2>7, <3>1 DEF ReaderAhead
    <2>8. ASSUME NEW t \in Threads, loc[t].op = "open" PROVE OpenAhead(loc[t])'
      <3>1. OpenAhead(loc[t])
        BY <2>6, <2>8 DEF HandleInv, HandleAhead
      <3>2. QED
        BY <1>3, <1>4, <2>2, <2>3, <3>1 DEF OpenAhead
    <2>9. QED
      BY <1>3, <2>2, <2>4, <2>6, <2>7, <2>8 DEF HandleInv, HandleAhead
  <1>9. QED
    BY <1>2, <1>6, <1>7, <1>8 DEF HandleInv

\* The mount has published the row it starts from.
LEMMA HandleInvInit == Init => HandleInv
  <1> SUFFICES ASSUME Init PROVE HandleInv
    OBVIOUS
  <1>1. CacheInv
    BY CacheInvInit
  <1>2. /\ rows[track].life = 1 /\ rows[track].content_version = 1 /\ seq = 2 /\ last_seq = 2
        /\ poll.stage = "idle" /\ poll.published = 1 /\ poll.published_life = 1
    BY InitRow DEF Init
  <1>3. PollOK
    BY <1>2 DEF PollOK, Read
  <1>4. \A t \in Threads : loc[t].cur = 0 /\ loc[t].op = "none"
    BY DEF Init, Idle
  <1>5. QED
    BY <1>1, <1>3, <1>4 DEF Init, HandleInv, GenerationsOK, OpenOK, HandleAhead

\* No step breaks the invariant of the handle.
LEMMA HandleInvNext == HandleInv /\ [Next]_vars => HandleInv'
  <1> SUFFICES ASSUME HandleInv, [Next]_vars PROVE HandleInv'
    OBVIOUS
  <1>1. ASSUME NEW t \in Threads, Step(t) PROVE HandleInv'
    BY <1>1, ResolveAhead, GetattrAhead, OpenHandleAhead, ReadHandleAhead DEF Step
  <1>2. QED
    BY <1>1, OtherAhead, EnvironmentAhead DEF Next, DiskChanges

\* A handle of the current generation holds a layout of the current row.
LEMMA HandleInvFollows == HandleInv => HandleFollowsRefresh
  <1> DEFINE h == handle.resolved
             r == rows[track]
  <1> SUFFICES ASSUME HandleInv, keep_cache, ~poll.missed, handle # None, Live(track),
                      h.life = r.life, handle.generation = refresh_gen,
                      last_seq = seq, poll.stage = "idle"
               PROVE  SameInputs(h, r)
    BY DEF HandleFollowsRefresh
  <1>1. Published(h) /\ LayoutOK(h) /\ h \in Layouts /\ r \in Row
    BY TrackRow DEF HandleInv, HandleAhead, CacheInv, CachesOK, TypeOK, Handles, Live
  <1>2. poll.published_life = r.life /\ poll.published = r.content_version
    BY DEF HandleInv, PollOK
  <1>3. h.content_version \in Nat /\ r.content_version \in Nat
    BY <1>1, LayoutFields, RowFields
  <1>4. h.content_version = r.content_version
    BY <1>1, <1>2, <1>3 DEF Published, NotBehind, LayoutOK, Built, Past, Same
  <1>5. QED
    BY <1>1, <1>4 DEF LayoutOK, Built, Present, Same

\* Once a refresh is done, a handle that carries its generation serves a layout
\* of the row as it is now, for any number of reads in flight on the handle and
\* wherever they stand between the two stores of read_into_inner.
THEOREM HandlesFollowRefreshes == Spec => []HandleFollowsRefresh
  BY HandleInvInit, HandleInvNext, HandleInvFollows, PTL DEF Spec

(***************************************************************************)
(* CalmInv is inductive if reads by the handle do not overlap.             *)
(***************************************************************************)

\* The parts of CalmInv that a step of thread t can disturb.
LEMMA CalmInvStep ==
    ASSUME SoleReader, CalmInv, HandleInv', NEW t \in Threads, StepFrame(t),
           HandleCurrent(handle'), CalmThread(loc'[t], handle')
    PROVE  CalmInv'
  <1>1. UNCHANGED <<rows, seq, dir, stat, poll, refresh_gen, last_seq>>
        /\ \A u \in Threads \ {t} : loc'[u] = loc[u]
    BY DEF StepFrame, storeVars
  <1>2. /\ Waiting' = Waiting /\ Calm' = Calm
        /\ \A l : RowAgrees(l)' = RowAgrees(l) /\ Agrees(l)' = Agrees(l)
    BY <1>1 DEF Waiting, Calm, StatPath, RowAgrees, Agrees, Live
  <1>3. \A l, h : ResolvedOK(l, h)' = ResolvedOK(l, h) /\ HandleCurrent(h)' = HandleCurrent(h)
    BY <1>1, <1>2 DEF ResolvedOK, HandleCurrent
  <1>4. \A l, h : CalmOK(l, h)' = CalmOK(l, h)
    BY <1>1, <1>2 DEF CalmOK
  <1>5. ASSUME NEW u \in Threads \ {t} PROVE CalmThread(loc[u], handle')
    <2>1. loc[u].op # "read" /\ loc[u].pc # "store_generation"
      BY DEF SoleReader, CalmInv, HandleInv, CacheInv, ShapeOK, Shape
    <2>2. QED
      BY <2>1 DEF CalmInv, CalmThread, ResolvedOK, GenerationLoaded, CalmOK
  <1>6. \A l, h : CalmThread(l, h)' = CalmThread(l, h)
    BY <1>3, <1>4 DEF CalmThread, GenerationLoaded
  <1>7. QED
    BY <1>1, <1>3, <1>5, <1>6 DEF CalmInv

\* A step that leaves the handle alone.
LEMMA CalmMove ==
    ASSUME SoleReader, CalmInv, HandleInv', NEW t \in Threads, StepFrame(t), UNCHANGED handle,
           CalmThread(loc'[t], handle)
    PROVE  CalmInv'
  BY CalmInvStep DEF CalmInv

\* An operation that has ended, unless it failed although it was calm.
LEMMA EndedCalm ==
    ASSUME SoleReader, CalmInv, HandleInv', NEW t \in Threads, StepFrame(t), UNCHANGED handle,
           Ended(loc'[t], loc[t]) \/ Retries(loc'[t], loc[t]),
           ~loc[t].calm \/ loc'[t].pc = "idle"
    PROVE  CalmInv'
  <1>1. loc'[t].op \in {"none", "read_fallback"} /\ ~loc'[t].calm
    BY DEF Ended, Retries
  <1>2. CalmThread(loc'[t], handle)
    BY <1>1 DEF CalmThread, ResolvedOK, GenerationLoaded, CalmOK
  <1>3. QED
    BY <1>2, CalmMove

\* What calm says of the row and of the file on disk.
LEMMA CalmFacts ==
    ASSUME TypeOK, Calm
    PROVE  /\ Live(track) /\ rows[track] \in Row /\ ~Waiting
           /\ RowStamp(rows[track]) \in Stamps /\ RowStamp(rows[track]) # None
           /\ StatPath(rows[track].backing_path) = RowStamp(rows[track])
           /\ dir[rows[track].backing_path] # None
           /\ stat[dir[rows[track].backing_path]] = RowStamp(rows[track])
  <1>1. /\ Live(track) /\ StatPath(rows[track].backing_path) = RowStamp(rows[track])
        /\ last_seq = seq /\ seq \in Nat
    BY DEF Calm, TypeOK, StoreTypeOK
  <1>2. rows[track] \in Row
    BY <1>1, TrackRow DEF TypeOK, Live
  <1>3. RowStamp(rows[track]) \in Stamps /\ RowStamp(rows[track]) # None
    BY <1>2, RowFields, ServeAssumption
  <1>4. QED
    BY <1>1, <1>2, <1>3 DEF StatPath, Waiting

\* Steps of a resolve: nothing stands between a calm operation and its layout.
LEMMA ResolveCalm ==
    ASSUME SoleReader, CalmInv, NEW t \in Threads,
           \/ GetTrack(t) \/ Stat(t) \/ Lookup(t) \/ BuildTags(t) \/ BuildArt(t) \/ BuildInsert(t)
    PROVE  CalmInv'
  <1> DEFINE l == loc[t]
             r == rows[track]
  <1>1. HandleInv /\ CacheInv /\ TypeOK /\ ShapeOK
    BY DEF CalmInv, HandleInv, CacheInv
  <1>2. l \in Locals /\ Shape(l) /\ loc \in [Threads -> Locals]
        /\ ResolvedOK(l, handle) /\ GenerationLoaded(l, handle) /\ CalmOK(l, handle)
    BY <1>1 DEF CalmInv, CalmThread, TypeOK, ShapeOK
  <1>3. HandleInv' /\ StepFrame(t) /\ UNCHANGED handle
    BY <1>1, ResolveAhead, ResolveTypes DEF GetTrack, Stat, Lookup, BuildTags, BuildArt, BuildInsert
  <1>4. l.calm => /\ Calm /\ Live(track) /\ r \in Row /\ RowStamp(r) # None
                  /\ StatPath(r.backing_path) = RowStamp(r)
    BY <1>1, <1>2, CalmFacts DEF CalmOK
  \* Facts about a step that keeps the operation going.
  <1> DEFINE Goes == /\ loc'[t].op = l.op /\ loc'[t].cur = l.cur /\ loc'[t].why = l.why
                     /\ loc'[t].calm = l.calm
                     /\ l.pc \in {"get_track"} \cup Building
  <1>5. ASSUME Goes, loc'[t].pc \in Building,
               l.calm => loc'[t].row = r,
               ResolvedOK(loc'[t], handle)
        PROVE  CalmInv'
    <2>1. loc'[t].pc \notin {"failed", "restat", "size", "resolved", "store_resolved", "send",
                             "attempt", "store_generation", "validate", "get_track"}
          /\ l.pc # "attempt"
      BY <1>5 DEF Building
    <2>2. GenerationLoaded(loc'[t], handle)
      BY <1>2, <1>5, <2>1 DEF GenerationLoaded
    <2>3. CalmOK(loc'[t], handle)
      BY <1>2, <1>5, <2>1 DEF CalmOK, HasRow
    <2>4. QED
      BY <1>3, <1>5, <2>2, <2>3, CalmMove DEF CalmThread
  <1>6. ASSUME Goes, loc'[t].pc = "resolved",
               l.calm => Agrees(loc'[t].resolved),
               ResolvedOK(loc'[t], handle)
        PROVE  CalmInv'
    <2>1. GenerationLoaded(loc'[t], handle)
      BY <1>2, <1>6 DEF GenerationLoaded, Building
    <2>2. CalmOK(loc'[t], handle)
      BY <1>2, <1>6 DEF CalmOK, HasRow, Building
    <2>3. QED
      BY <1>3, <1>6, <2>1, <2>2, CalmMove DEF CalmThread
  <1>7. CASE GetTrack(t)
    <2>1. CASE ~Live(track)
      BY <1>1, <1>3, <1>4, <1>7, <2>1, FinishFields, EndedCalm DEF GetTrack
    <2>2. CASE Live(track)
      <3>1. loc'[t] = [l EXCEPT !.row = r, !.pc = "stat"] /\ l.pc = "get_track"
        BY <1>2, <1>7, <2>2 DEF GetTrack, At
      <3>2. Goes /\ loc'[t].pc = "stat" /\ loc'[t].row = r
        BY <1>2, <3>1 DEF Locals
      <3>3. ResolvedOK(loc'[t], handle)
        BY <2>2, <3>2 DEF ResolvedOK, RowAgrees
      <3>4. QED
        BY <1>5, <3>2, <3>3 DEF Building
    <2>3. QED
      BY <2>1, <2>2
  <1>8. l.calm /\ l.pc \in Building => l.row = r
    BY <1>2 DEF CalmOK, HasRow
  <1>9. CASE Stat(t)
    <2>1. l.pc = "stat" /\ l.pc \in Building
      BY <1>9 DEF Stat, At, Building
    <2>2. \/ (Finish(t, "failed") \/ BackingChanged(t)) /\ ~l.calm
          \/ Goto(t, "lookup")
      BY <1>4, <1>8, <1>9, <2>1 DEF Stat
    <2>3. CASE Goto(t, "lookup")
      <3>1. loc'[t] = [l EXCEPT !.pc = "lookup"]
        BY <1>2, <2>3 DEF Goto
      <3>2. Goes /\ loc'[t].pc = "lookup" /\ loc'[t].row = l.row
        BY <1>2, <2>1, <3>1 DEF Locals
      <3>3. ResolvedOK(loc'[t], handle)
        BY <1>2, <2>1, <3>2 DEF ResolvedOK, Building
      <3>4. QED
        BY <1>5, <1>8, <2>1, <3>2, <3>3 DEF Building
    <2>4. QED
      BY <1>1, <1>3, <2>2, <2>3, FinishFields, BackingChangedFields, EndedCalm
  <1>10. CASE Lookup(t)
    <2>1. l.pc = "lookup" /\ l.pc \in Building
      BY <1>10 DEF Lookup, At, Building
    <2>2. CASE ~Hit(header_cache, l.row)
      <3>1. loc'[t] = [l EXCEPT !.pc = "tags"]
        BY <1>2, <1>10, <2>2 DEF Lookup
      <3>2. Goes /\ loc'[t].pc = "tags" /\ loc'[t].row = l.row
        BY <1>2, <2>1, <3>1 DEF Locals
      <3>3. ResolvedOK(loc'[t], handle)
        BY <1>2, <2>1, <3>2 DEF ResolvedOK, Building
      <3>4. QED
        BY <1>5, <1>8, <2>1, <3>2, <3>3 DEF Building
    <2>3. CASE Hit(header_cache, l.row)
      <3>1. loc'[t] = [l EXCEPT !.resolved = header_cache, !.row = None, !.pc = "resolved"]
        BY <1>2, <1>10, <2>3 DEF Lookup
      <3>2. Goes /\ loc'[t].pc = "resolved" /\ loc'[t].resolved = header_cache
        BY <1>2, <2>1, <3>1 DEF Locals
      <3>3. RowAgrees(l.row) => Agrees(header_cache)
        BY <2>3 DEF RowAgrees, Agrees, Hit
      <3>4. ResolvedOK(loc'[t], handle)
        BY <1>2, <2>1, <3>2, <3>3 DEF ResolvedOK, Building
      <3>5. l.calm => RowAgrees(l.row)
        BY <1>4, <1>8, <2>1 DEF RowAgrees
      <3>6. QED
        BY <1>6, <3>2, <3>3, <3>4, <3>5
    <2>4. QED
      BY <2>2, <2>3
  <1>11. CASE BuildTags(t) \/ BuildArt(t)
    <2>1. \/ l.pc = "tags" /\ loc'[t] = [l EXCEPT !.tags = TagsOf(r), !.pc = "art"]
          \/ l.pc = "art" /\ loc'[t] = [l EXCEPT !.art = ArtOf(r), !.pc = "insert"]
      BY <1>2, <1>11 DEF BuildTags, BuildArt, At
    <2>2. l.pc \in Building
      BY <2>1 DEF Building
    <2>3. Goes /\ loc'[t].row = l.row /\ loc'[t].pc \in {"art", "insert"}
      BY <1>2, <2>1, <2>2 DEF Locals
    <2>4. ResolvedOK(loc'[t], handle)
      BY <1>2, <2>2, <2>3 DEF ResolvedOK, Building
    <2>5. QED
      BY <1>5, <1>8, <2>2, <2>3, <2>4 DEF Building
  <1>12. CASE BuildInsert(t)
    <2> DEFINE s == StatPath(l.row.backing_path)
               built == Layout(l, s.ctime)
    <2>1. l.pc = "insert" /\ l.pc \in Building
      BY <1>12 DEF BuildInsert, At, Building
    <2>2. CASE s = None
      BY <1>1, <1>3, <1>4, <1>8, <1>12, <2>1, <2>2, FinishFields, EndedCalm DEF BuildInsert
    <2>3. CASE s # None
      <3>1. loc'[t] = [l EXCEPT !.resolved = built, !.row = None, !.tags = None, !.art = None,
                                !.pc = "resolved"]
        BY <1>2, <1>12, <2>3 DEF BuildInsert
      <3>2. /\ built.content_version = l.row.content_version /\ built.stamp = RowStamp(l.row)
            /\ built.backing_path = l.row.backing_path
        BY DEF Layout
      <3> HIDE DEF built
      <3>3. Goes /\ loc'[t].pc = "resolved" /\ loc'[t].resolved = built
        BY <1>2, <2>1, <3>1 DEF Locals
      <3>4. RowAgrees(l.row) => Agrees(built)
        BY <3>2 DEF RowAgrees, Agrees
      <3>5. ResolvedOK(loc'[t], handle)
        BY <1>2, <2>1, <3>3, <3>4 DEF ResolvedOK, Building
      <3>6. l.calm => RowAgrees(l.row)
        BY <1>4, <1>8, <2>1 DEF RowAgrees
      <3>7. QED
        BY <1>6, <3>3, <3>4, <3>5, <3>6
    <2>4. QED
      BY <2>2, <2>3
  <1>13. QED
    BY <1>7, <1>9, <1>10, <1>11, <1>12

\* Steps of getattr.
LEMMA GetattrCalm ==
    ASSUME SoleReader, CalmInv, NEW t \in Threads,
           GetattrIdentity(t) \/ GetattrSize(t) \/ GetattrRestat(t) \/ GetattrInsert(t)
    PROVE  CalmInv'
  <1> DEFINE l == loc[t]
             r == rows[track]
  <1>1. HandleInv /\ CacheInv /\ TypeOK /\ ShapeOK
    BY DEF CalmInv, HandleInv, CacheInv
  <1>2. l \in Locals /\ Shape(l) /\ loc \in [Threads -> Locals] /\ CalmOK(l, handle)
    BY <1>1 DEF CalmInv, CalmThread, TypeOK, ShapeOK
  <1>3. HandleInv' /\ StepFrame(t) /\ UNCHANGED handle
    BY <1>1, GetattrAhead, GetattrTypes DEF GetattrIdentity, GetattrSize, GetattrRestat, GetattrInsert
  <1>4. l.calm => /\ Calm /\ Live(track) /\ r \in Row /\ RowStamp(r) # None
                  /\ StatPath(r.backing_path) = RowStamp(r)
    BY <1>1, <1>2, CalmFacts DEF CalmOK
  <1>5. CASE GetattrIdentity(t)
    <2> DEFINE m == [Idle EXCEPT !.row = r, !.cv = r.content_version, !.life = r.life]
    <2>1. Idle \in Locals /\ (Live(track) => m \in Locals /\ m.row = r)
      <3>1. Live(track) => r \in Row
        BY <1>1, RowBuilt DEF CacheInv
      <3>2. QED
        BY <3>1, IdleType, RowFields DEF Locals, Idle
    <2>2. IF Live(track) THEN Begin(t, "getattr", "size", m) ELSE Begin(t, "getattr", "failed", Idle)
      BY <1>5 DEF GetattrIdentity
    <2> HIDE DEF m
    <2>3. "getattr" \in AllOperations /\ {"size", "failed"} \subseteq Pcs
      BY DEF AllOperations, Pcs
    <2>4. /\ loc'[t].op = "getattr" /\ (loc'[t].calm => Calm)
          /\ Live(track) => loc'[t].pc = "size" /\ loc'[t].row = r
      BY <1>1, <2>1, <2>2, <2>3, BeginType
    <2>5. Calm => Live(track)
      BY DEF Calm
    <2>6. CalmThread(loc'[t], handle)
      BY <2>4, <2>5 DEF CalmThread, ResolvedOK, GenerationLoaded, CalmOK, HasRow, Building
    <2>7. QED
      BY <1>3, <2>6, CalmMove
  <1>6. CASE GetattrSize(t)
    <2>1. l.pc = "size" /\ l.op = "getattr" /\ (l.calm => l.row = r)
      BY <1>2, <1>6 DEF GetattrSize, At, Shape, CalmOK, HasRow
    <2>2. CASE SizeHit(size_cache, l.row) /\ trust_backing_mtime
      <3>1. Finish(t, "done")
        BY <1>6, <2>2 DEF GetattrSize
      <3>2. QED
        BY <1>1, <1>3, <3>1, FinishFields, EndedCalm
    <2>3. CASE SizeHit(size_cache, l.row) /\ ~trust_backing_mtime
      <3>1. loc'[t] = [l EXCEPT !.resolved = size_cache.attrs, !.pc = "restat"]
        BY <1>2, <1>6, <2>3 DEF GetattrSize
      <3>2. /\ loc'[t].op = "getattr" /\ loc'[t].calm = l.calm /\ loc'[t].pc = "restat"
            /\ loc'[t].row = l.row /\ loc'[t].resolved = size_cache.attrs
        BY <1>2, <2>1, <3>1 DEF Locals
      <3>3. size_cache.attrs.stamp = RowStamp(l.row)
        BY <1>1, <2>3 DEF SizeHit, CacheInv, CachesOK, SizeOK
      <3>4. CalmThread(loc'[t], handle)
        BY <1>2, <2>1, <3>2, <3>3
           DEF CalmThread, ResolvedOK, GenerationLoaded, CalmOK, HasRow, Building
      <3>5. QED
        BY <1>3, <3>4, CalmMove
    <2>4. CASE ~SizeHit(size_cache, l.row)
      <3>1. loc'[t] = [l EXCEPT !.row = None, !.pc = "get_track"]
        BY <1>2, <1>6, <2>4 DEF GetattrSize
      <3>2. loc'[t].op = "getattr" /\ loc'[t].calm = l.calm /\ loc'[t].pc = "get_track"
        BY <1>2, <2>1, <3>1 DEF Locals
      <3>3. CalmThread(loc'[t], handle)
        BY <1>2, <3>2 DEF CalmThread, ResolvedOK, GenerationLoaded, CalmOK, HasRow, Building
      <3>4. QED
        BY <1>3, <3>3, CalmMove
    <2>5. QED
      BY <2>2, <2>3, <2>4
  <1>7. CASE GetattrRestat(t)
    <2>1. l.calm => l.row = r /\ l.resolved.stamp = RowStamp(r)
      BY <1>2, <1>7 DEF GetattrRestat, At, CalmOK, HasRow
    <2>2. \/ Finish(t, "done")
          \/ (Finish(t, "failed") \/ BackingChanged(t)) /\ ~l.calm
      BY <1>4, <1>7, <2>1 DEF GetattrRestat
    <2>3. QED
      BY <1>1, <1>3, <2>2, FinishFields, BackingChangedFields, EndedCalm
  <1>8. CASE GetattrInsert(t)
    <2>1. Finish(t, "done")
      BY <1>8 DEF GetattrInsert
    <2>2. QED
      BY <1>1, <1>3, <2>1, FinishFields, EndedCalm
  <1>9. QED
    BY <1>5, <1>6, <1>7, <1>8

\* Steps of an open.
LEMMA OpenCalm ==
    ASSUME SoleReader, CalmInv, NEW t \in Threads, OpenBegin(t) \/ OpenFile(t)
    PROVE  CalmInv'
  <1> DEFINE l == loc[t]
             r == rows[track]
  <1>1. HandleInv /\ CacheInv /\ TypeOK /\ ShapeOK
    BY DEF CalmInv, HandleInv, CacheInv
  <1>2. l \in Locals /\ Shape(l) /\ ResolvedOK(l, handle) /\ CalmOK(l, handle)
    BY <1>1 DEF CalmInv, CalmThread, TypeOK, ShapeOK
  <1>3. HandleInv' /\ StepFrame(t)
    BY <1>1, OpenHandleAhead, OpenTypes
  <1>4. CASE OpenBegin(t)
    <2> DEFINE m == [Idle EXCEPT !.cur = refresh_gen]
    <2>1. m \in Locals
      BY <1>1, IdleType DEF Locals, TypeOK
    <2>2. Begin(t, "open", "get_track", m) /\ UNCHANGED handle
      BY <1>4 DEF OpenBegin
    <2> HIDE DEF m
    <2>3. "open" \in AllOperations /\ "get_track" \in Pcs
      BY DEF AllOperations, Pcs
    <2>4. loc'[t].op = "open" /\ loc'[t].pc = "get_track" /\ (loc'[t].calm => Calm)
      BY <1>1, <2>1, <2>2, <2>3, BeginType
    <2>5. CalmThread(loc'[t], handle)
      BY <2>4 DEF CalmThread, ResolvedOK, GenerationLoaded, CalmOK, HasRow, Building
    <2>6. QED
      BY <1>3, <2>2, <2>5, CalmMove
  <1>5. CASE OpenFile(t)
    <2>1. l.pc = "resolved" /\ l.op = "open"
      BY <1>5 DEF OpenFile, At, Op
    <2>2. l.calm => /\ StatPath(l.resolved.backing_path) = l.resolved.stamp
                    /\ l.resolved.stamp # None
      BY <1>1, <1>2, <2>1, CalmFacts DEF CalmOK, Agrees
    <2>3. \/ handle' = Opened(l) /\ Finish(t, "done")
          \/ handle' = handle /\ (Finish(t, "failed") \/ BackingChanged(t)) /\ ~l.calm
      BY <1>5, <2>2 DEF OpenFile
    <2>4. CASE handle' = Opened(l) /\ Finish(t, "done")
      <3>1. handle'.generation = l.cur /\ handle'.resolved = l.resolved
        BY <2>4 DEF Opened
      <3>2. HandleCurrent(handle')
        BY <1>2, <2>1, <3>1 DEF ResolvedOK, HandleCurrent
      <3>3. loc'[t].op = "none" /\ ~loc'[t].calm
        BY <1>1, <2>4, FinishFields DEF Ended
      <3>4. CalmThread(loc'[t], handle')
        BY <3>3 DEF CalmThread, ResolvedOK, GenerationLoaded, CalmOK
      <3>5. QED
        BY <1>3, <3>2, <3>4, CalmInvStep
    <2>5. QED
      BY <1>1, <1>3, <2>3, <2>4, FinishFields, BackingChangedFields, EndedCalm
  <1>6. QED
    BY <1>4, <1>5

\* Steps of a read: a handle that no refresh has passed holds a layout that
\* agrees with the row, and one that a refresh has passed is renewed.
LEMMA ReadCalm ==
    ASSUME SoleReader, CalmInv, NEW t \in Threads,
           \/ ReadBegin(t) \/ ReadAttempt(t) \/ ReadRecheck(t) \/ StoreResolved(t)
           \/ StoreGeneration(t) \/ ReadValidate(t) \/ ReadSend(t)
           \/ FallbackBegin(t) \/ FallbackOpen(t)
    PROVE  CalmInv'
  <1> DEFINE l == loc[t]
             r == rows[track]
  <1>1. HandleInv /\ CacheInv /\ TypeOK /\ ShapeOK
    BY DEF CalmInv, HandleInv, CacheInv
  <1>2. l \in Locals /\ Shape(l) /\ loc \in [Threads -> Locals] /\ refresh_gen \in Nat
        /\ ResolvedOK(l, handle) /\ GenerationLoaded(l, handle) /\ CalmOK(l, handle)
    BY <1>1 DEF CalmInv, CalmThread, TypeOK, ShapeOK
  <1>3. HandleInv' /\ StepFrame(t)
    BY <1>1, ReadHandleAhead, ReadTypes
  <1>4. l.calm => /\ Calm /\ Live(track) /\ ~Waiting
                  /\ \A k : Agrees(k) => /\ StatPath(k.backing_path) = k.stamp /\ k.stamp # None
                                         /\ stat[dir[r.backing_path]] = k.stamp
    BY <1>1, <1>2, CalmFacts DEF CalmOK, Agrees
  <1>5. l.op = "read" => handle \in Handles /\ handle # None
                         /\ handle.generation \in Nat /\ handle.generation <= refresh_gen
                         /\ l.cur \in Nat /\ l.cur <= refresh_gen
    BY <1>1, <1>2, LocalsFields DEF Shape, TypeOK, Handles, HandleInv, GenerationsOK
  <1>6. {"read", "read_fallback"} \subseteq AllOperations /\ {"attempt", "get_track"} \subseteq Pcs
    BY DEF AllOperations, Pcs
  <1>7. CASE ReadBegin(t)
    <2>1. Begin(t, "read", "attempt", Idle) /\ UNCHANGED handle /\ Idle.attempt = 0
      BY <1>7 DEF ReadBegin, Idle
    <2>2. /\ loc'[t].op = "read" /\ loc'[t].pc = "attempt" /\ loc'[t].attempt = 0
          /\ loc'[t].calm => /\ Calm /\ handle.file = dir[r.backing_path] /\ ~handle.late
      BY <1>1, <1>6, <2>1, IdleType, BeginType
    <2>3. CalmThread(loc'[t], handle)
      BY <2>2 DEF CalmThread, ResolvedOK, GenerationLoaded, CalmOK, HasRow, Building
    <2>4. QED
      BY <1>3, <2>1, <2>3, CalmMove
  <1>8. CASE FallbackBegin(t)
    <2>1. Begin(t, "read_fallback", "get_track", Idle) /\ UNCHANGED handle
      BY <1>8 DEF FallbackBegin
    <2>2. loc'[t].op = "read_fallback" /\ loc'[t].pc = "get_track" /\ (loc'[t].calm => Calm)
      BY <1>1, <1>6, <2>1, IdleType, BeginType
    <2>3. CalmThread(loc'[t], handle)
      BY <2>2 DEF CalmThread, ResolvedOK, GenerationLoaded, CalmOK, HasRow, Building
    <2>4. QED
      BY <1>3, <2>1, <2>3, CalmMove
  <1>9. CASE ReadAttempt(t)
    <2>1. l.pc = "attempt" /\ l.op = "read" /\ UNCHANGED handle
      BY <1>2, <1>9 DEF ReadAttempt, At, Shape
    <2>2. CASE Exhausted(l)
      <3>1. ~l.calm
        BY <1>2, <2>1, <2>2, ServeAssumption DEF Exhausted, CalmOK
      <3>2. QED
        BY <1>1, <1>3, <1>9, <2>1, <2>2, <3>1, BackingChangedFields, EndedCalm DEF ReadAttempt
    <2>3. CASE ~Exhausted(l)
      <3>1. /\ loc'[t].op = "read" /\ loc'[t].cur = refresh_gen /\ loc'[t].calm = l.calm
            /\ \/ /\ GenerationMoved /\ loc'[t].pc = "get_track" /\ loc'[t].why = "generation"
               \/ ~GenerationMoved /\ loc'[t].pc = "validate"
        BY <1>2, <1>9, <2>1, <2>3 DEF ReadAttempt, Locals
      <3>2. ResolvedOK(loc'[t], handle) /\ GenerationLoaded(loc'[t], handle)
        BY <1>5, <2>1, <3>1 DEF ResolvedOK, GenerationLoaded, Building
      <3>3. l.calm /\ ~GenerationMoved => Agrees(handle.resolved)
        BY <1>2, <1>4, <1>5, <2>1 DEF CalmInv, HandleCurrent, CalmOK, GenerationMoved
      <3>4. CalmOK(loc'[t], handle)
        BY <1>2, <2>1, <3>1, <3>3 DEF CalmOK, HasRow, Building
      <3>5. QED
        BY <1>3, <2>1, <3>2, <3>4, CalmMove DEF CalmThread
    <2>4. QED
      BY <2>2, <2>3
  <1>10. CASE ReadRecheck(t)
    <2>1. l.pc = "resolved" /\ l.op = "read" /\ UNCHANGED handle
      BY <1>10 DEF ReadRecheck, At, Op
    <2>2. \/ /\ loc'[t] = [l EXCEPT !.resolved = None, !.pc = "attempt"]
             /\ refresh_gen # l.cur
          \/ loc'[t] = [l EXCEPT !.pc = "store_resolved"]
      BY <1>2, <1>10 DEF ReadRecheck
    <2>3. /\ loc'[t].op = "read" /\ loc'[t].cur = l.cur /\ loc'[t].calm = l.calm
          /\ loc'[t].why = l.why
          /\ \/ loc'[t].pc = "attempt" /\ refresh_gen # l.cur
             \/ loc'[t].pc = "store_resolved" /\ loc'[t].resolved = l.resolved
      BY <1>2, <2>1, <2>2 DEF Locals
    <2>4. ResolvedOK(loc'[t], handle) /\ GenerationLoaded(loc'[t], handle)
      BY <1>2, <2>1, <2>3 DEF ResolvedOK, GenerationLoaded, Building
    <2>5. CalmOK(loc'[t], handle)
      BY <1>2, <2>1, <2>3 DEF CalmOK, HasRow, Building
    <2>6. QED
      BY <1>3, <2>1, <2>4, <2>5, CalmMove DEF CalmThread
  <1>11. CASE StoreResolved(t)
    <2>1. /\ l.pc = "store_resolved" /\ l.op = "read"
          /\ loc'[t] = [l EXCEPT !.resolved = None, !.pc = "store_generation"]
          /\ handle' = [handle EXCEPT !.resolved = l.resolved]
      BY <1>2, <1>11 DEF StoreResolved, At, Shape
    <2>2. /\ loc'[t].op = "read" /\ loc'[t].cur = l.cur /\ loc'[t].pc = "store_generation"
          /\ loc'[t].calm = l.calm /\ loc'[t].why = l.why
          /\ handle'.resolved = l.resolved /\ handle'.generation = handle.generation
          /\ handle'.file = handle.file
      BY <1>2, <1>5, <2>1 DEF Locals, Handles
    <2>3. handle.generation <= l.cur
      BY <1>2, <2>1 DEF GenerationLoaded
    <2>4. HandleCurrent(handle')
      BY <1>2, <1>5, <2>1, <2>2, <2>3 DEF HandleCurrent, ResolvedOK
    <2>5. ResolvedOK(loc'[t], handle') /\ GenerationLoaded(loc'[t], handle')
      BY <1>2, <2>1, <2>2, <2>3 DEF ResolvedOK, GenerationLoaded, Building
    <2>6. CalmOK(loc'[t], handle')
      BY <1>2, <2>1, <2>2 DEF CalmOK, HasRow, Building
    <2>7. QED
      BY <1>3, <2>4, <2>5, <2>6, CalmInvStep DEF CalmThread
  <1>12. CASE StoreGeneration(t)
    <2> DEFINE g == IF l.why = "stale" THEN refresh_gen ELSE l.cur
               b == l.why = "stale" /\ refresh_gen # l.cur
               p == IF l.why = "stale" THEN "attempt" ELSE "validate"
    <2>1. /\ l.pc = "store_generation" /\ l.op = "read"
          /\ loc'[t] = [l EXCEPT !.pc = p]
          /\ handle' = [handle EXCEPT !.generation = g, !.late = b]
      BY <1>2, <1>12 DEF StoreGeneration, Goto, At, Shape
    <2>2. /\ b \in BOOLEAN /\ (~b /\ g = refresh_gen => l.cur = refresh_gen)
          /\ \/ p = "attempt" /\ l.why = "stale"
             \/ p = "validate" /\ g = l.cur
      OBVIOUS
    <2> HIDE DEF g, b, p
    <2>3. /\ loc'[t].op = "read" /\ loc'[t].cur = l.cur /\ loc'[t].pc = p /\ loc'[t].why = l.why
          /\ loc'[t].calm = l.calm
          /\ handle'.resolved = handle.resolved /\ handle'.generation = g /\ handle'.late = b
          /\ handle'.file = handle.file
      BY <1>2, <1>5, <2>1, <2>2 DEF Locals, Handles
    <2>4. HandleCurrent(handle')
      BY <1>2, <2>1, <2>2, <2>3 DEF HandleCurrent, ResolvedOK
    <2>5. ResolvedOK(loc'[t], handle') /\ GenerationLoaded(loc'[t], handle')
      BY <1>5, <2>1, <2>2, <2>3 DEF ResolvedOK, GenerationLoaded, Building
    <2>6. CalmOK(loc'[t], handle')
      BY <1>2, <2>1, <2>2, <2>3 DEF CalmOK, HasRow, Building
    <2>7. QED
      BY <1>3, <2>4, <2>5, <2>6, CalmInvStep DEF CalmThread
  <1>13. CASE ReadValidate(t)
    <2>1. l.pc = "validate" /\ l.op = "read" /\ UNCHANGED handle
      BY <1>2, <1>13 DEF ReadValidate, At, Shape
    <2>2. l.calm => Agrees(handle.resolved) /\ stat[handle.file] = handle.resolved.stamp
      BY <1>2, <1>4, <2>1 DEF CalmOK
    <2>3. CASE stat[handle.file] = handle.resolved.stamp
      <3>1. loc'[t] = [l EXCEPT !.resolved = handle.resolved, !.pc = "send"]
        BY <1>2, <1>13, <2>3 DEF ReadValidate
      <3>2. /\ loc'[t].op = "read" /\ loc'[t].cur = l.cur /\ loc'[t].pc = "send"
            /\ loc'[t].calm = l.calm /\ loc'[t].resolved = handle.resolved
        BY <1>2, <2>1, <3>1 DEF Locals
      <3>3. ResolvedOK(loc'[t], handle) /\ GenerationLoaded(loc'[t], handle)
        BY <1>2, <2>1, <3>2 DEF ResolvedOK, GenerationLoaded, Building
      <3>4. CalmOK(loc'[t], handle)
        BY <1>2, <2>1, <2>2, <3>2 DEF CalmOK, HasRow, Building
      <3>5. QED
        BY <1>3, <2>1, <3>3, <3>4, CalmMove DEF CalmThread
    <2>4. CASE stat[handle.file] # handle.resolved.stamp
      BY <1>1, <1>3, <1>13, <2>1, <2>2, <2>4, BackingChangedFields, EndedCalm DEF ReadValidate
    <2>5. QED
      BY <2>3, <2>4
  <1>14. CASE ReadSend(t)
    <2>1. UNCHANGED handle /\ (l.calm => ~Stale(l.resolved) /\ Live(track))
      BY <1>2, <1>4, <1>14 DEF ReadSend, At, CalmOK, Agrees, Stale
    <2>2. \/ Served(t)
          \/ (Finish(t, "failed") \/ BackingChanged(t)) /\ ~l.calm
          \/ /\ loc'[t] = [l EXCEPT !.why = "stale", !.resolved = None, !.pc = "get_track"]
             /\ l.op = "read" /\ l.pc = "send" /\ ~l.calm
      BY <1>2, <1>14, <2>1 DEF ReadSend, Op, At
    <2>3. CASE /\ loc'[t] = [l EXCEPT !.why = "stale", !.resolved = None, !.pc = "get_track"]
               /\ l.op = "read" /\ l.pc = "send" /\ ~l.calm
      <3>1. /\ loc'[t].op = "read" /\ loc'[t].cur = l.cur /\ loc'[t].pc = "get_track"
            /\ loc'[t].calm = l.calm
        BY <1>2, <2>3 DEF Locals
      <3>2. CalmThread(loc'[t], handle)
        BY <1>2, <2>3, <3>1 DEF CalmThread, ResolvedOK, GenerationLoaded, CalmOK, Building
      <3>3. QED
        BY <1>3, <2>1, <3>2, CalmMove
    <2>4. QED
      BY <1>1, <1>3, <2>1, <2>2, <2>3, FinishFields, BackingChangedFields, EndedCalm DEF Served
  <1>15. CASE FallbackOpen(t)
    <2>1. UNCHANGED handle /\ l.op = "read_fallback" /\ l.pc = "resolved"
      BY <1>15 DEF FallbackOpen, Op, At
    <2>2. l.calm => /\ Agrees(l.resolved)
                    /\ StatPath(l.resolved.backing_path) = l.resolved.stamp
                    /\ l.resolved.stamp # None
      BY <1>2, <1>4, <2>1 DEF CalmOK
    <2>3. \/ Goto(t, "send")
          \/ (Finish(t, "failed") \/ BackingChanged(t)) /\ ~l.calm
      BY <1>15, <2>2 DEF FallbackOpen
    <2>4. CASE Goto(t, "send")
      <3>1. loc'[t] = [l EXCEPT !.pc = "send"]
        BY <1>2, <2>4 DEF Goto
      <3>2. /\ loc'[t].op = "read_fallback" /\ loc'[t].pc = "send" /\ loc'[t].calm = l.calm
            /\ loc'[t].resolved = l.resolved
        BY <1>2, <2>1, <3>1 DEF Locals
      <3>3. CalmThread(loc'[t], handle)
        BY <1>2, <2>1, <3>2 DEF CalmThread, ResolvedOK, GenerationLoaded, CalmOK, HasRow, Building
      <3>4. QED
        BY <1>3, <2>1, <3>3, CalmMove
    <2>5. QED
      BY <1>1, <1>3, <2>1, <2>3, <2>4, FinishFields, BackingChangedFields, EndedCalm
  <1>16. QED
    BY <1>7, <1>8, <1>9, <1>10, <1>11, <1>12, <1>13, <1>14, <1>15

\* Neither an eviction nor a release disturbs a calm operation, and while one
\* is in flight no refresh runs.
LEMMA OtherCalm ==
    ASSUME CalmInv, Evict \/ Release \/ PollRead \/ PollNotify \/ PollStamp \/ UNCHANGED vars
    PROVE  CalmInv'
  <1>1. HandleInv /\ CacheInv /\ TypeOK /\ ShapeOK
    BY DEF CalmInv, HandleInv, CacheInv
  <1>2. HandleInv' /\ UNCHANGED <<rows, seq, dir, stat, loc>>
    BY <1>1, OtherAhead
       DEF Evict, Release, PollRead, PollNotify, PollStamp, vars, serveVars, storeVars
  <1>3. \A k : RowAgrees(k)' = RowAgrees(k) /\ Agrees(k)' = Agrees(k)
    BY <1>2 DEF RowAgrees, Agrees, Live
  <1>4. CASE Evict \/ Release \/ UNCHANGED vars
    <2>1. /\ UNCHANGED <<poll, refresh_gen, last_seq>>
          /\ handle' = handle \/ (handle' = None /\ \A t \in Threads : loc[t].op # "read")
      BY <1>4 DEF Evict, Release, vars, serveVars, Reading, Op
    <2>2. Waiting' = Waiting /\ Calm' = Calm
      BY <1>2, <2>1 DEF Waiting, Calm, StatPath, Live
    <2>3. HandleCurrent(handle)'
      BY <1>3, <2>1, <2>2 DEF CalmInv, HandleCurrent
    <2>4. ASSUME NEW t \in Threads PROVE CalmThread(loc[t], handle)'
      <3>1. CalmThread(loc[t], handle) /\ Shape(loc[t])
        BY <1>1 DEF CalmInv, ShapeOK
      <3>2. ResolvedOK(loc[t], handle)' /\ GenerationLoaded(loc[t], handle)'
        BY <1>2, <1>3, <2>1, <2>2, <3>1 DEF CalmThread, ResolvedOK, GenerationLoaded, Shape
      <3>3. CalmOK(loc[t], handle)'
        BY <1>2, <1>3, <2>1, <2>2, <3>1 DEF CalmThread, CalmOK
      <3>4. QED
        BY <3>2, <3>3 DEF CalmThread
    <2>5. QED
      BY <1>2, <2>3, <2>4 DEF CalmInv
  <1>5. CASE PollRead \/ PollNotify \/ PollStamp
    <2>1. UNCHANGED handle /\ ~Calm
      BY <1>1, <1>5 DEF PollRead, PollNotify, PollStamp, Calm, TypeOK, StoreTypeOK
    <2>2. \A t \in Threads : ~loc[t].calm
      BY <2>1 DEF CalmInv, CalmThread, CalmOK
    <2>3. \/ UNCHANGED <<refresh_gen, last_seq>>
          \/ /\ handle # None => handle.generation # refresh_gen'
             /\ \A t \in Threads : loc[t].cur # refresh_gen'
      <3>1. CASE PollRead \/ PollNotify
        BY <3>1 DEF PollRead, PollNotify
      <3>2. CASE PollStamp
        <4>1. \A t \in Threads : loc[t].cur \in Nat /\ loc[t].cur <= refresh_gen
          BY <1>1, LocalsFields DEF HandleInv, GenerationsOK, TypeOK
        <4>2. handle # None => handle.generation \in Nat /\ handle.generation <= refresh_gen
          BY <1>1 DEF HandleInv, GenerationsOK, TypeOK, Handles
        <4>3. refresh_gen' = refresh_gen + 1 /\ refresh_gen \in Nat
          BY <1>1, <3>2 DEF PollStamp, NextGeneration, TypeOK
        <4>4. QED
          BY <4>1, <4>2, <4>3
      <3>3. QED
        BY <1>5, <3>1, <3>2
    <2>4. HandleCurrent(handle)'
      BY <1>2, <1>3, <2>1, <2>3 DEF CalmInv, HandleCurrent, Waiting
    <2>5. ASSUME NEW t \in Threads PROVE CalmThread(loc[t], handle)'
      <3>1. CalmThread(loc[t], handle)
        BY DEF CalmInv
      <3>2. ResolvedOK(loc[t], handle)'
        BY <1>2, <1>3, <2>1, <2>3, <3>1 DEF CalmThread, ResolvedOK, Waiting
      <3>3. QED
        BY <1>2, <2>1, <2>2, <3>1, <3>2 DEF CalmThread, GenerationLoaded, CalmOK
    <2>6. QED
      BY <1>2, <2>4, <2>5 DEF CalmInv
  <1>6. QED
    BY <1>4, <1>5

\* Commits and changes of files end the calm; a commit that changes the row
\* waits for its refresh from then on.
LEMMA EnvironmentCalm ==
    ASSUME CalmInv, DiskChanges \/ Write
    PROVE  CalmInv'
  <1>1. HandleInv /\ CacheInv /\ TypeOK
    BY DEF CalmInv, HandleInv, CacheInv
  <1>2. HandleInv' /\ TypeOK'
    BY <1>1, EnvironmentAhead DEF HandleInv, CacheInv
  <1>3. /\ Disturbed /\ UNCHANGED <<handle, refresh_gen, last_seq>>
        /\ RowStep(track) /\ seq' >= seq
    <2>1. CASE DiskChanges
      <3>1. DiskStep /\ seq \in Nat
        BY <1>1, <2>1, DiskTypes DEF TypeOK, StoreTypeOK
      <3>2. QED
        BY <3>1 DEF DiskStep, storeVars, RowStep
    <2>2. CASE Write
      BY <1>1, <2>2, WriteStep
    <2>3. QED
      BY <2>1, <2>2
  <1>4. Waiting' \/ (rows'[track] = rows[track] /\ (Waiting => Waiting'))
    <2>1. seq \in Nat /\ seq' \in Nat /\ last_seq \in Nat /\ last_seq <= seq
      BY <1>1, <1>2 DEF TypeOK, StoreTypeOK, HandleInv, PollOK
    <2>2. QED
      BY <1>3, <2>1 DEF RowStep, Waiting
  <1>5. \A k : (Waiting \/ RowAgrees(k) => Waiting' \/ RowAgrees(k)')
               /\ (Waiting \/ Agrees(k) => Waiting' \/ Agrees(k)')
    BY <1>4 DEF RowAgrees, Agrees, Live
  <1>6. HandleCurrent(handle)'
    BY <1>3, <1>5 DEF CalmInv, HandleCurrent
  <1>7. ASSUME NEW t \in Threads PROVE CalmThread(loc[t], handle)'
    <2>1. loc[t] \in Locals /\ loc'[t] = [loc[t] EXCEPT !.calm = FALSE] /\ CalmThread(loc[t], handle)
      BY <1>1, <1>3, DisturbedType DEF TypeOK, CalmInv
    <2>2. /\ loc'[t].op = loc[t].op /\ loc'[t].pc = loc[t].pc /\ loc'[t].cur = loc[t].cur
          /\ loc'[t].row = loc[t].row /\ loc'[t].resolved = loc[t].resolved /\ ~loc'[t].calm
      BY <2>1 DEF Locals
    <2>3. ResolvedOK(loc[t], handle)'
      BY <1>3, <1>5, <2>1, <2>2 DEF CalmThread, ResolvedOK
    <2>4. QED
      BY <1>3, <2>1, <2>2, <2>3 DEF CalmThread, GenerationLoaded, CalmOK
  <1>8. QED
    BY <1>2, <1>6, <1>7 DEF CalmInv

\* At first no operation is in flight.
LEMMA CalmInvInit == Init => CalmInv
  <1> SUFFICES ASSUME Init PROVE CalmInv
    OBVIOUS
  <1>1. handle = None /\ \A t \in Threads : loc[t].op = "none" /\ ~loc[t].calm
    BY DEF Init, Idle
  <1>2. QED
    BY <1>1, HandleInvInit
       DEF CalmInv, HandleCurrent, CalmThread, ResolvedOK, GenerationLoaded, CalmOK

\* No step breaks the invariant of calm operations.
LEMMA CalmInvNext == SoleReader /\ CalmInv /\ [Next]_vars => CalmInv'
  <1> SUFFICES ASSUME SoleReader, CalmInv, [Next]_vars PROVE CalmInv'
    OBVIOUS
  <1>1. ASSUME NEW t \in Threads, Step(t) PROVE CalmInv'
    BY <1>1, ResolveCalm, GetattrCalm, OpenCalm, ReadCalm DEF Step
  <1>2. QED
    BY <1>1, OtherCalm, EnvironmentCalm DEF Next, DiskChanges

\* An operation that nothing disturbs never fails, for any number of threads
\* that run getattr, open and reads without a handle, and for one thread that
\* also reads by its handle: no entry of a cache and no handle left over from
\* before an edit, a rewrite, a move or a refresh makes it report
\* BackingChanged.
THEOREM CalmOperations ==
    ASSUME SoleReader
    PROVE  Spec => []CalmOperationsSucceed
  <1>1. CalmInv => CalmOperationsSucceed
    BY DEF CalmInv, CalmThread, CalmOK, CalmOperationsSucceed, At
  <1>2. CalmInv /\ [Next]_vars => CalmInv'
    BY CalmInvNext
  <1>3. QED
    BY <1>1, <1>2, CalmInvInit, PTL DEF Spec

=============================================================================
