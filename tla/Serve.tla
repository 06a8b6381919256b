------------------------------- MODULE Serve -------------------------------
(***************************************************************************)
(* Serving one track: the layout cache (HeaderCache::resolve and build in  *)
(* musefs-core/src/reader.rs), the size cache behind getattr, and an open  *)
(* handle shared by concurrent reads (open_handle, read_into and getattr   *)
(* in musefs-core/src/facade.rs), while writers commit, the backing file   *)
(* is rewritten, replaced or moved, and refreshes move the generation.     *)
(*                                                                         *)
(* Each database query, stat, cache access and atomic store of an          *)
(* operation is a step of its own.  Served bytes are abstracted to the     *)
(* inputs of the layout they are spliced from.                             *)
(***************************************************************************)
EXTENDS Store

CONSTANTS
    Threads,              \* FUSE worker threads
    Operations,           \* the operations they run, a subset of AllOperations
    Files,                \* inodes of the backing file system
    StreamedArts,         \* art values whose layout streams database rows
    trust_backing_mtime,  \* MountConfig.trust_backing_mtime
    keep_cache,           \* FuseConfig.keep_cache: the kernel keeps pages
    Attempts,             \* retries of a read (4 in read_into_inner)
    MaxClock              \* bound on changes of backing files

VARIABLES
    dir,                  \* path -> file or None
    stat,                 \* file -> its stamp
    clock,                \* newest ctime the backing file system has given out
    header_cache,         \* the track's entry in the HeaderCache, or None
    size_cache,           \* the track's SizeEntry, or None
    handle,               \* the open handle, or None
    refresh_gen, last_seq,
    poll,                 \* the refresh in progress
    pages,                \* the kernel's cached pages of the file, or None
    loc                   \* per thread: operation, program point and locals

serveVars == <<dir, stat, clock, header_cache, size_cache, handle,
               refresh_gen, last_seq, poll, pages, loc>>
vars == <<storeVars, serveVars>>

track == 1
AllOperations == {"getattr", "open", "read", "read_fallback"}
Stamps == [geom : Geoms, ctime : Ctimes]

\* ResolvedFile; `front' is the version of the file its front was read from.
Layouts == [content_version : Nat, tags : Tags, art : Arts, front : Ctimes,
            backing_path : Paths, stamp : Stamps, life : Nat]

\* SizeEntry; its ghost `life' is that of the row content_version was read from.
SizeEntries == [content_version : Nat, attrs : Layouts, stamp : Stamps, life : Nat]

\* Handle; for the ghost `late' see StoreGeneration.
Handles == [generation : Nat, late : BOOLEAN, resolved : Layouts, file : Files]

\* The lives are ghosts, as is `missed': some refresh has taken a reused rowid
\* for the track it knew, because the content_versions agree.
Polls == [stage : {"idle", "notify", "stamp"}, seq : Nat, cv : Nat \cup {None}, life : Nat,
          published : Nat \cup {None}, published_life : Nat, missed : BOOLEAN]

ASSUME ServeAssumption ==
    /\ MaxId = 1 /\ Ctimes = 0..MaxClock /\ MaxClock \in Nat
    /\ Operations \subseteq AllOperations /\ StreamedArts \subseteq Arts
    /\ trust_backing_mtime \in BOOLEAN /\ keep_cache \in BOOLEAN
    /\ Attempts \in Nat \ {0}
    /\ None \notin Files /\ None \notin Layouts
    /\ None \notin Stamps /\ None \notin Handles

RowStamp(r) == [geom |-> r.geom, ctime |-> r.ctime]
Streams(r) == r.art \in StreamedArts

\* std::fs::metadata of a path; None when the file is missing.
StatPath(p) == IF dir[p] = None THEN None ELSE stat[dir[p]]

Idle == [op |-> "none", pc |-> "idle", attempt |-> 0, cur |-> 0, why |-> "none",
         calm |-> FALSE, cv |-> 0, life |-> 0,
         row |-> None, tags |-> None, art |-> None, resolved |-> None]

Pcs == {"idle", "size", "restat", "get_track", "stat", "lookup", "tags",
        "art", "insert", "resolved", "attempt", "store_resolved", "store_generation",
        "validate", "send", "failed"}

Locals ==
    [op : AllOperations \cup {"none"}, pc : Pcs, attempt : 0..Attempts, cur : Nat,
     why : {"none", "generation", "stale"}, calm : BOOLEAN, cv : Nat, life : Nat,
     row : Row \cup {None}, tags : Tags \cup {None}, art : Arts \cup {None},
     resolved : Layouts \cup {None}]

TypeOK ==
    /\ StoreTypeOK
    /\ dir \in [Paths -> Files \cup {None}]
    /\ stat \in [Files -> Stamps]
    /\ clock \in Ctimes
    /\ header_cache \in Layouts \cup {None}
    /\ size_cache \in SizeEntries \cup {None}
    /\ handle \in Handles \cup {None}
    /\ refresh_gen \in Nat /\ last_seq \in Nat
    /\ poll \in Polls
    /\ pages \in Layouts \cup {None}
    /\ loc \in [Threads -> Locals]

(***************************************************************************)
(* Moving a thread.                                                        *)
(***************************************************************************)
At(t, p) == loc[t].pc = p
Op(t) == loc[t].op

Goto(t, p) == loc' = [loc EXCEPT ![t].pc = p]

\* A call that starts when the row is stamped as the file is (and, for a read,
\* the handle holds that file under a generation that is not late), no commit
\* waits for a refresh and none runs.
Calm == /\ Live(track)
        /\ StatPath(rows[track].backing_path) = RowStamp(rows[track])
        /\ last_seq = seq /\ poll.stage = "idle"

Begin(t, op, p, l) ==
    /\ op \in Operations
    /\ loc[t].pc \in {"idle", "failed"}
    /\ loc' = [loc EXCEPT ![t] = [l EXCEPT !.op = op, !.pc = p,
                  !.calm = /\ Calm
                           /\ op = "read" => /\ handle.file = dir[rows[track].backing_path]
                                             /\ ~handle.late]]

\* The operation returns; `calm' is a ghost that outlives a failure.
Finish(t, outcome) ==
    loc' = [loc EXCEPT ![t] = IF outcome = "done" THEN Idle
                              ELSE [Idle EXCEPT !.pc = "failed", !.calm = loc[t].calm]]

\* forget_attrs_on_drift: a BackingChanged from open or read drops the attrs;
\* the fallback read retries it first.
BackingChanged(t) ==
    IF Op(t) = "read_fallback" /\ loc[t].attempt + 1 < Attempts
    THEN /\ loc' = [loc EXCEPT ![t] = [Idle EXCEPT !.op = Op(t), !.pc = "get_track",
                                                   !.calm = loc[t].calm, !.attempt = loc[t].attempt + 1]]
         /\ UNCHANGED size_cache
    ELSE /\ Finish(t, "failed")
         /\ size_cache' = IF Op(t) = "getattr" /\ ~At(t, "restat") THEN size_cache ELSE None

(***************************************************************************)
(* HeaderCache::resolve and build.                                         *)
(***************************************************************************)

\* get_track: content_version, path, bounds and stamp in one query.
GetTrack(t) ==
    /\ At(t, "get_track")
    /\ IF Live(track)
       THEN loc' = [loc EXCEPT ![t].row = rows[track], ![t].pc = "stat"]
       ELSE Finish(t, "failed")
    /\ UNCHANGED <<storeVars, dir, stat, clock, header_cache, size_cache, handle,
                   refresh_gen, last_seq, poll, pages>>

\* The backing file is statted before the cache is consulted.
Stat(t) ==
    /\ At(t, "stat")
    /\ LET s == StatPath(loc[t].row.backing_path) IN
       CASE s = None -> Finish(t, "failed") /\ UNCHANGED size_cache
         [] s = RowStamp(loc[t].row) -> Goto(t, "lookup") /\ UNCHANGED size_cache
         [] OTHER -> BackingChanged(t)
    /\ UNCHANGED <<storeVars, dir, stat, clock, header_cache, handle,
                   refresh_gen, last_seq, poll, pages>>

\* A hit agrees with the row on content_version, stamp and path.
Hit(e, r) == /\ e # None
             /\ e.content_version = r.content_version
             /\ e.stamp = RowStamp(r)
             /\ e.backing_path = r.backing_path

Lookup(t) ==
    /\ At(t, "lookup")
    /\ loc' = IF Hit(header_cache, loc[t].row)
              THEN [loc EXCEPT ![t].resolved = header_cache, ![t].row = None,
                               ![t].pc = "resolved"]
              ELSE [loc EXCEPT ![t].pc = "tags"]
    /\ UNCHANGED <<storeVars, dir, stat, clock, header_cache, size_cache, handle,
                   refresh_gen, last_seq, poll, pages>>

\* build: get_tags, in a snapshot of its own.
BuildTags(t) ==
    /\ At(t, "tags")
    /\ loc' = [loc EXCEPT ![t].tags = TagsOf(rows[track]), ![t].pc = "art"]
    /\ UNCHANGED <<storeVars, dir, stat, clock, header_cache, size_cache, handle,
                   refresh_gen, last_seq, poll, pages>>

\* build: art links, binary tags and structural blocks, in later snapshots.
BuildArt(t) ==
    /\ At(t, "art")
    /\ loc' = [loc EXCEPT ![t].art = ArtOf(rows[track]), ![t].pc = "insert"]
    /\ UNCHANGED <<storeVars, dir, stat, clock, header_cache, size_cache, handle,
                   refresh_gen, last_seq, poll, pages>>

\* Seeded fault: the layout is filed under the content_version of the moment.
LayoutLate(l, front) ==
    [content_version |-> IF Live(track) THEN rows[track].content_version
                         ELSE l.row.content_version,
     tags |-> l.tags, art |-> l.art, front |-> front,
     backing_path |-> l.row.backing_path, stamp |-> RowStamp(l.row), life |-> l.row.life]

\* The layout carries the identity of the row that was read first.
Layout(l, front) ==
    [content_version |-> l.row.content_version,
     tags |-> l.tags, art |-> l.art, front |-> front,
     backing_path |-> l.row.backing_path, stamp |-> RowStamp(l.row), life |-> l.row.life]

\* build: the front of the file is read by path (every format but MP3 and a
\* FLAC with structural rows does so), synthesis, insertion into the cache.
BuildInsert(t) ==
    /\ At(t, "insert")
    /\ LET l == loc[t]
           s == StatPath(l.row.backing_path)
           built == Layout(l, s.ctime)
       IN  IF s = None
           THEN Finish(t, "failed") /\ UNCHANGED header_cache
           ELSE /\ header_cache' = built
                /\ loc' = [loc EXCEPT ![t] = [l EXCEPT !.resolved = built, !.row = None,
                              !.tags = None, !.art = None, !.pc = "resolved"]]
    /\ UNCHANGED <<storeVars, dir, stat, clock, size_cache, handle,
                   refresh_gen, last_seq, poll, pages>>

\* quick_cache evicts an entry to stay within its byte budget.
Evict ==
    /\ header_cache # None
    /\ header_cache' = None
    /\ UNCHANGED <<storeVars, dir, stat, clock, size_cache, handle,
                   refresh_gen, last_seq, poll, pages, loc>>

(***************************************************************************)
(* getattr.                                                                *)
(***************************************************************************)

\* track_identity: content_version, path and stamp in one query; a deleted
\* track is TrackNotFound.
GetattrIdentity(t) ==
    /\ IF Live(track)
       THEN Begin(t, "getattr", "size",
                  [Idle EXCEPT !.row = rows[track], !.cv = rows[track].content_version,
                               !.life = rows[track].life])
       ELSE Begin(t, "getattr", "failed", Idle)
    /\ UNCHANGED <<storeVars, dir, stat, clock, header_cache, size_cache, handle,
                   refresh_gen, last_seq, poll, pages>>

\* Seeded fault: only content_version is compared (issue 679).
SizeHitUnstamped(e, r) == e # None /\ e.content_version = r.content_version

SizeHit(e, r) == /\ e # None
                 /\ e.content_version = r.content_version
                 /\ e.stamp = RowStamp(r)

\* A hit is taken as it is under trust_backing_mtime, re-statted otherwise; a
\* miss resolves.
GetattrSize(t) ==
    /\ At(t, "size")
    /\ IF SizeHit(size_cache, loc[t].row)
       THEN IF trust_backing_mtime THEN Finish(t, "done")
            ELSE loc' = [loc EXCEPT ![t].resolved = size_cache.attrs, ![t].pc = "restat"]
       ELSE loc' = [loc EXCEPT ![t].row = None, ![t].pc = "get_track"]
    /\ UNCHANGED <<storeVars, dir, stat, clock, header_cache, size_cache, handle,
                   refresh_gen, last_seq, poll, pages>>

\* The live path is re-statted against the stamp of the entry that was hit.
GetattrRestat(t) ==
    /\ At(t, "restat")
    /\ LET s == StatPath(loc[t].row.backing_path) IN
       CASE s = None -> Finish(t, "failed") /\ UNCHANGED size_cache
         [] s = loc[t].resolved.stamp -> Finish(t, "done") /\ UNCHANGED size_cache
         [] OTHER -> BackingChanged(t)
    /\ UNCHANGED <<storeVars, dir, stat, clock, header_cache, handle,
                   refresh_gen, last_seq, poll, pages>>

\* Seeded fault: the entry is filed under the content_version of the moment.
SizeEntryLate(l) ==
    [content_version |-> IF Live(track) THEN rows[track].content_version ELSE l.cv,
     attrs |-> l.resolved, stamp |-> l.resolved.stamp, life |-> l.life]

SizeEntry(l) ==
    [content_version |-> l.cv, attrs |-> l.resolved, stamp |-> l.resolved.stamp, life |-> l.life]

\* The entry is stamped with the content_version read before the resolve.
GetattrInsert(t) ==
    /\ At(t, "resolved") /\ Op(t) = "getattr"
    /\ size_cache' = SizeEntry(loc[t])
    /\ Finish(t, "done")
    /\ UNCHANGED <<storeVars, dir, stat, clock, header_cache, handle,
                   refresh_gen, last_seq, poll, pages>>

(***************************************************************************)
(* open_handle and release_handle.                                         *)
(***************************************************************************)

\* The generation is loaded before the resolve.
OpenBegin(t) ==
    /\ handle = None /\ \A u \in Threads : Op(u) # "open"
    /\ Begin(t, "open", "get_track", [Idle EXCEPT !.cur = refresh_gen])
    /\ UNCHANGED <<storeVars, dir, stat, clock, header_cache, size_cache, handle,
                   refresh_gen, last_seq, poll, pages>>

\* Seeded fault: the generation is loaded after the resolve.
OpenedLate(l) == [generation |-> refresh_gen, late |-> FALSE, resolved |-> l.resolved,
                  file |-> dir[l.resolved.backing_path]]

Opened(l) == [generation |-> l.cur, late |-> FALSE, resolved |-> l.resolved,
              file |-> dir[l.resolved.backing_path]]

\* File::open of the layout's path, validate_opened_backing, insertion.
OpenFile(t) ==
    /\ At(t, "resolved") /\ Op(t) = "open"
    /\ LET r == loc[t].resolved
           s == StatPath(r.backing_path)
       IN  CASE s = None -> Finish(t, "failed") /\ UNCHANGED <<size_cache, handle>>
             [] s = r.stamp -> /\ handle' = Opened(loc[t])
                               /\ Finish(t, "done")
                               /\ UNCHANGED size_cache
             [] OTHER -> BackingChanged(t) /\ UNCHANGED handle
    /\ UNCHANGED <<storeVars, dir, stat, clock, header_cache,
                   refresh_gen, last_seq, poll, pages>>

Reading(t) == Op(t) \in {"read", "read_fallback"}

\* The kernel releases a handle when no read on it is in flight.
Release ==
    /\ handle # None /\ \A t \in Threads : ~Reading(t)
    /\ handle' = None
    /\ UNCHANGED <<storeVars, dir, stat, clock, header_cache, size_cache,
                   refresh_gen, last_seq, poll, pages, loc>>

(***************************************************************************)
(* read_into.                                                              *)
(***************************************************************************)
ReadBegin(t) ==
    /\ handle # None
    /\ Begin(t, "read", "attempt", Idle)
    /\ UNCHANGED <<storeVars, dir, stat, clock, header_cache, size_cache, handle,
                   refresh_gen, last_seq, poll, pages>>

Exhausted(l) == l.attempt = Attempts

GenerationMoved == handle.generation # refresh_gen

\* The top of the retry loop: re-resolve if the generation has moved.
ReadAttempt(t) ==
    /\ At(t, "attempt")
    /\ IF Exhausted(loc[t])
       THEN BackingChanged(t)
       ELSE /\ loc' = [loc EXCEPT ![t].attempt = @ + 1, ![t].cur = refresh_gen,
                          ![t].why = IF GenerationMoved THEN "generation" ELSE "none",
                          ![t].pc = IF GenerationMoved THEN "get_track" ELSE "validate"]
            /\ UNCHANGED size_cache
    /\ UNCHANGED <<storeVars, dir, stat, clock, header_cache, handle,
                   refresh_gen, last_seq, poll, pages>>

\* A layout resolved for a generation that has moved again is not published.
ReadRecheck(t) ==
    /\ At(t, "resolved") /\ Op(t) = "read"
    /\ loc' = IF loc[t].why = "generation" /\ refresh_gen # loc[t].cur
              THEN [loc EXCEPT ![t].resolved = None, ![t].pc = "attempt"]
              ELSE [loc EXCEPT ![t].pc = "store_resolved"]
    /\ UNCHANGED <<storeVars, dir, stat, clock, header_cache, size_cache, handle,
                   refresh_gen, last_seq, poll, pages>>

\* h.resolved.store and h.generation.store are two atomic stores, not one.
StoreResolved(t) ==
    /\ At(t, "store_resolved")
    /\ handle' = [handle EXCEPT !.resolved = loc[t].resolved]
    /\ loc' = [loc EXCEPT ![t].resolved = None, ![t].pc = "store_generation"]
    /\ UNCHANGED <<storeVars, dir, stat, clock, header_cache, size_cache,
                   refresh_gen, last_seq, poll, pages>>

\* After a generation change the loaded value is stored; after a stale layout
\* the generation of the moment is.  `late' is a ghost: that one was not the
\* generation of the attempt, and a refresh may have passed the layout by.
StoreGeneration(t) ==
    /\ At(t, "store_generation")
    /\ handle' = [handle EXCEPT !.generation =
                     IF loc[t].why = "stale" THEN refresh_gen ELSE loc[t].cur,
                                !.late = loc[t].why = "stale" /\ refresh_gen # loc[t].cur]
    /\ Goto(t, IF loc[t].why = "stale" THEN "attempt" ELSE "validate")
    /\ UNCHANGED <<storeVars, dir, stat, clock, header_cache, size_cache,
                   refresh_gen, last_seq, poll, pages>>

\* The handle's layout is loaded and its held fd re-statted.
ReadValidate(t) ==
    /\ At(t, "validate")
    /\ IF stat[handle.file] = handle.resolved.stamp
       THEN /\ loc' = [loc EXCEPT ![t].resolved = handle.resolved, ![t].pc = "send"]
            /\ UNCHANGED size_cache
       ELSE BackingChanged(t)
    /\ UNCHANGED <<storeVars, dir, stat, clock, header_cache, handle,
                   refresh_gen, last_seq, poll, pages>>

\* The bytes go to the kernel, which keeps the page under keep_cache.
Served(t) ==
    /\ pages' = IF keep_cache THEN loc[t].resolved ELSE None
    /\ Finish(t, "done")
    /\ UNCHANGED size_cache

\* Seeded fault: the read snapshot is not checked for a newer content_version.
StaleUnchecked(r) == FALSE
Stale(r) == Live(track) /\ rows[track].content_version # r.content_version

\* A layout that streams database rows is served inside one read snapshot,
\* after content_version was checked in it; any other never asks the store.
ReadSend(t) ==
    /\ At(t, "send")
    /\ LET r == loc[t].resolved
       IN  CASE ~Streams(r) -> Served(t)
             [] Streams(r) /\ ~Live(track) ->
                  Finish(t, "failed") /\ UNCHANGED <<size_cache, pages>>
             [] Streams(r) /\ Stale(r) ->
                  /\ IF Op(t) = "read"
                     THEN /\ loc' = [loc EXCEPT ![t].why = "stale", ![t].resolved = None,
                                               ![t].pc = "get_track"]
                          /\ UNCHANGED size_cache
                     ELSE BackingChanged(t)
                  /\ UNCHANGED <<pages>>
             [] OTHER -> Served(t)
    /\ UNCHANGED <<storeVars, dir, stat, clock, header_cache, handle,
                   refresh_gen, last_seq, poll>>

\* A read without a known handle resolves, opens and validates by itself.
FallbackBegin(t) ==
    /\ Begin(t, "read_fallback", "get_track", Idle)
    /\ UNCHANGED <<storeVars, dir, stat, clock, header_cache, size_cache, handle,
                   refresh_gen, last_seq, poll, pages>>

FallbackOpen(t) ==
    /\ At(t, "resolved") /\ Op(t) = "read_fallback"
    /\ LET s == StatPath(loc[t].resolved.backing_path) IN
       CASE s = None -> Finish(t, "failed") /\ UNCHANGED size_cache
         [] s = loc[t].resolved.stamp -> Goto(t, "send") /\ UNCHANGED size_cache
         [] OTHER -> BackingChanged(t)
    /\ UNCHANGED <<storeVars, dir, stat, clock, header_cache, handle,
                   refresh_gen, last_seq, poll, pages>>

(***************************************************************************)
(* The refresh, as Refresh.tla details it: the changelog is read, caches   *)
(* of removed tracks dropped, changed inodes invalidated in the kernel,    *)
(* and only then the watermark and the generation move.                    *)
(***************************************************************************)
PollRead ==
    /\ poll.stage = "idle" /\ last_seq < seq
    /\ LET cv == IF Live(track) THEN rows[track].content_version ELSE None
           life == IF Live(track) THEN rows[track].life ELSE 0
       IN  poll' = [poll EXCEPT !.stage = "notify", !.seq = seq, !.cv = cv, !.life = life,
                       !.missed = @ \/ (cv = poll.published /\ life # poll.published_life)]
    /\ UNCHANGED <<storeVars, dir, stat, clock, header_cache, size_cache, handle,
                   refresh_gen, last_seq, pages, loc>>

Invalidates == keep_cache /\ poll.cv # poll.published

\* inval_inode waits for the page locks of reads in flight; without
\* keep_cache the poll has no notifier.
PollNotify ==
    /\ poll.stage = "notify"
    /\ Invalidates => \A t \in Threads : ~Reading(t)
    /\ pages' = IF Invalidates THEN None ELSE pages
    /\ header_cache' = IF poll.cv = None THEN None ELSE header_cache
    /\ size_cache' = IF poll.cv = None THEN None ELSE size_cache
    /\ poll' = [poll EXCEPT !.stage = "stamp"]
    /\ UNCHANGED <<storeVars, dir, stat, clock, handle,
                   refresh_gen, last_seq, loc>>

\* Seeded fault: a refresh that invalidates nothing keeps the generation.
NextGenerationIfChanged == IF poll.cv = poll.published THEN refresh_gen ELSE refresh_gen + 1
NextGeneration == refresh_gen + 1

PollStamp ==
    /\ poll.stage = "stamp"
    /\ last_seq' = poll.seq
    /\ refresh_gen' = NextGeneration
    /\ poll' = [poll EXCEPT !.stage = "idle", !.seq = 0, !.cv = None, !.life = 0,
                   !.published = poll.cv, !.published_life = poll.life]
    /\ UNCHANGED <<storeVars, dir, stat, clock, header_cache, size_cache, handle,
                   pages, loc>>

(***************************************************************************)
(* The environment: backing files and the scanner.                         *)
(***************************************************************************)
Disturbed == loc' = [t \in Threads |-> [loc[t] EXCEPT !.calm = FALSE]]

Tick == clock < MaxClock /\ clock' = clock + 1

\* An in-place rewrite; ctime always moves, size and mtime may be forged back.
RewriteFile(f, g) ==
    /\ Tick /\ Disturbed
    /\ stat' = [stat EXCEPT ![f] = [geom |-> g, ctime |-> clock + 1]]
    /\ UNCHANGED <<storeVars, dir, header_cache, size_cache, handle,
                   refresh_gen, last_seq, poll, pages>>

\* A new file is renamed over the path; unlinking moves the old one's ctime.
ReplaceFile(p, f, g) ==
    /\ dir[p] # None /\ \A q \in Paths : dir[q] # f
    /\ handle # None => handle.file # f
    /\ Tick /\ Disturbed
    /\ dir' = [dir EXCEPT ![p] = f]
    /\ stat' = [stat EXCEPT ![f] = [geom |-> g, ctime |-> clock + 1],
                            ![dir[p]].ctime = clock + 1]
    /\ UNCHANGED <<storeVars, header_cache, size_cache, handle,
                   refresh_gen, last_seq, poll, pages>>

MoveFile(p, q) ==
    /\ dir[p] # None /\ dir[q] = None
    /\ Tick /\ Disturbed
    /\ dir' = [dir EXCEPT ![q] = dir[p], ![p] = None]
    /\ stat' = [stat EXCEPT ![dir[p]].ctime = clock + 1]
    /\ UNCHANGED <<storeVars, header_cache, size_cache, handle,
                   refresh_gen, last_seq, poll, pages>>

\* The scanner writes the stamp it finds on disk; it retargets a row whose
\* own path is gone.
ScannerWrites ==
    \E p \in Paths, f \in Formats :
      /\ dir[p] # None
      /\ LET s == stat[dir[p]] IN
         \/ /\ Live(track) /\ rows[track].backing_path = p
            /\ upsert_track(track, f, s.geom, s.ctime)
         \/ /\ Live(track) /\ StatPath(rows[track].backing_path) = None
            /\ retarget_track(track, p, s.geom, s.ctime)
         \/ \E t \in Tags, a \in Arts :
               insert_track(track, f, t, a, p, s.geom, s.ctime, 1)

EditorWrites ==
    \/ \E t \in Tags : replace_tags(track, t, 1)
    \/ \E a \in Arts : set_track_art(track, a, 1)
    \/ delete_track(track)

Write ==
    /\ ScannerWrites \/ EditorWrites
    /\ Disturbed
    /\ UNCHANGED <<dir, stat, clock, header_cache, size_cache, handle,
                   refresh_gen, last_seq, poll, pages>>

(***************************************************************************)
(* The specification.                                                      *)
(***************************************************************************)
Step(t) ==
    \/ GetTrack(t) \/ Stat(t) \/ Lookup(t) \/ BuildTags(t) \/ BuildArt(t) \/ BuildInsert(t)
    \/ GetattrIdentity(t) \/ GetattrSize(t) \/ GetattrRestat(t) \/ GetattrInsert(t)
    \/ OpenBegin(t) \/ OpenFile(t)
    \/ ReadBegin(t) \/ ReadAttempt(t) \/ ReadRecheck(t) \/ StoreResolved(t)
    \/ StoreGeneration(t) \/ ReadValidate(t) \/ ReadSend(t)
    \/ FallbackBegin(t) \/ FallbackOpen(t)

Init ==
    /\ StoreInit
    /\ \E f \in Files : dir = [p \in Paths |-> IF p = rows[track].backing_path THEN f ELSE None]
    /\ stat = [f \in Files |-> RowStamp(rows[track])]
    /\ clock = 0 /\ rows[track].ctime = 0
    /\ header_cache = None /\ size_cache = None /\ handle = None
    /\ refresh_gen = 0 /\ last_seq = seq
    /\ poll = [stage |-> "idle", seq |-> 0, cv |-> None, life |-> 0,
               published |-> rows[track].content_version,
               published_life |-> rows[track].life, missed |-> FALSE]
    /\ pages = None
    /\ loc = [t \in Threads |-> Idle]

Next ==
    \/ \E t \in Threads : Step(t)
    \/ Evict \/ Release
    \/ PollRead \/ PollNotify \/ PollStamp
    \/ \E f \in Files, g \in Geoms : RewriteFile(f, g) \/ \E p \in Paths : ReplaceFile(p, f, g)
    \/ \E p, q \in Paths : MoveFile(p, q)
    \/ Write

Spec == Init /\ [][Next]_vars

(***************************************************************************)
(* Properties.                                                             *)
(***************************************************************************)

\* The layout was built from what the row holds now.
SameInputs(l, r) == l.tags = r.tags /\ l.art = r.art

\* Whatever a cache lookup would accept for the current row was built from
\* the current row: a build reads row, tags, art and front in four separate
\* snapshots, and the torn mixtures it may cache can never be hit.
CacheSound ==
    LET r == rows[track] IN
    (/\ Live(track) /\ Hit(header_cache, r) /\ header_cache.life = r.life)
    => /\ SameInputs(header_cache, r)
       /\ StatPath(r.backing_path) = RowStamp(r) => header_cache.front = r.ctime

\* The same for the attributes getattr keeps: the size it would return for
\* the current row is that of the current row's layout, although the
\* content_version they are filed under was read before the layout was built.
\* (Not so when the track was deleted and its rowid reused between the two:
\* the entry then files the new track's layout under the old one's version,
\* which the new track may come to.)
SizeCacheSound ==
    LET r == rows[track] IN
    (/\ Live(track) /\ SizeHit(size_cache, r)
     /\ size_cache.life = r.life /\ size_cache.attrs.life = r.life)
    => SameInputs(size_cache.attrs, r)

\* A read that streams art or binary tags by rowid serves them under a layout
\* built from the very row it reads them from, never from a freed rowid.
StreamedFromCurrentRow ==
    [][\A t \in Threads :
         LET r == loc[t].resolved IN
         (/\ At(t, "send") /\ loc'[t].pc = "idle" /\ Streams(r)
          /\ r.life = rows[track].life)
         => SameInputs(r, rows[track])]_vars

\* An operation that nothing disturbs never fails: once a changed or moved
\* file has been rescanned and the refresh is done, no cache, handle or stamp
\* left over from before keeps reporting BackingChanged.
CalmOperationsSucceed == \A t \in Threads : loc[t].calm => ~At(t, "failed")

\* Once a refresh is done, a handle that carries its generation carries a
\* layout of the current row: "a held handle cannot serve a layout that was
\* invalidated by a refresh" (facade.rs, Musefs::refresh_gen).  It is the
\* notifier of keep_cache that makes it so: its invalidations wait for reads
\* in flight, which otherwise may publish an older layout, or after a stale
\* one the generation of the moment, once the refresh is over.  A refresh that
\* took a reused rowid for the old track has waited for none.
HandleFollowsRefresh ==
    (/\ keep_cache /\ ~poll.missed
     /\ handle # None
     /\ Live(track) /\ handle.resolved.life = rows[track].life
     /\ handle.generation = refresh_gen /\ last_seq = seq /\ poll.stage = "idle")
    => SameInputs(handle.resolved, rows[track])
=============================================================================
