------------------------------- MODULE Store -------------------------------
(***************************************************************************)
(* The SQLite store of musefs as the mount sees it: the tracks table, the  *)
(* content_version triggers and the self-pruning changelog ring of         *)
(* musefs-db/src/schema.rs, and the write operations of                    *)
(* musefs-db/src/{tracks,tags,art,structural,bulk}.rs.                     *)
(*                                                                         *)
(* One action is one committed transaction; WAL readers see the state      *)
(* between two actions.  Rows other than tracks are abstracted to one      *)
(* value per track: `tags' is what the path template reads, `art' every    *)
(* other layout input (art links, binary tags, structural blocks), `geom'  *)
(* size, mtime and audio bounds (the columns tracks_geometry_au watches)   *)
(* and `ctime' the one stamp column it does not watch.                     *)
(***************************************************************************)
EXTENDS Integers

CONSTANTS
    MaxId,          \* track ids are 1..MaxId
    Formats, Tags, Arts, Paths, Geoms, Ctimes,
    None,           \* no row, no state, no path
    Untagged,       \* the tags of a track with no tag rows
    Artless,        \* the art of a track with no such rows
    CHANGELOG_CAP,  \* entries the ring retains (8192 in the schema)
    MaxBurst,       \* child-row statements one transaction may make
    MaxSeq,         \* bound on changelog sequence numbers
    MaxCommits,     \* bound on commits
    MaxTruncations  \* bound on external truncations of the ring

VARIABLES
    rows,           \* track id -> row or None
    seq,            \* last sequence number track_changes has handed out
    floor,          \* entries with a seq at or below floor are gone
    logged,         \* track id -> seq of its newest changelog entry, 0 if none
    data_version,   \* PRAGMA data_version: moves with every commit
    truncations     \* external truncations so far

storeVars == <<rows, seq, floor, logged, data_version, truncations>>

Ids == 1..MaxId

\* `life' is a ghost: the seq of the INSERT that created the row, which tells
\* two tracks apart that SQLite gave the same rowid one after the other.
Row == [content_version : Nat, format : Formats, tags : Tags, art : Arts,
        backing_path : Paths, geom : Geoms, ctime : Ctimes, life : Nat]

ASSUME StoreAssumption ==
    /\ MaxId \in Nat \ {0} /\ CHANGELOG_CAP \in Nat \ {0}
    /\ MaxBurst \in Nat \ {0} /\ MaxSeq \in Nat
    /\ MaxCommits \in Nat /\ MaxTruncations \in Nat
    /\ None \notin Row
    /\ Untagged \in Tags /\ Artless \in Arts

Live(id) == rows[id] # None

StoreTypeOK ==
    /\ rows \in [Ids -> Row \cup {None}]
    /\ seq \in Nat
    /\ floor \in 0..seq
    /\ logged \in [Ids -> 0..seq]
    /\ data_version \in Nat
    /\ truncations \in Nat

\* What get_tags, tags_for_tracks and the art queries return for the track of
\* row r: no rows at all once it is deleted (foreign keys cascade).
TagsOf(r) == IF r = None THEN Untagged ELSE r.tags
ArtOf(r) == IF r = None THEN Artless ELSE r.art

(***************************************************************************)
(* The changelog ring.                                                     *)
(***************************************************************************)

\* Seeded fault: an entry is filed under the seq of the one after it.
LogAhead(id, n) ==
    LET top == seq + n IN
    /\ top <= MaxSeq
    /\ seq' = top
    /\ logged' = [logged EXCEPT ![id] = top + 1]
    /\ floor' = IF top - CHANGELOG_CAP > floor THEN top - CHANGELOG_CAP ELSE floor

\* tracks_changelog_ai/au/ad fire n times for id; track_changes_prune drops
\* the entries at or below the newest seq minus the cap.
Log(id, n) ==
    LET top == seq + n IN
    /\ top <= MaxSeq
    /\ seq' = top
    /\ logged' = [logged EXCEPT ![id] = top]
    /\ floor' = IF top - CHANGELOG_CAP > floor THEN top - CHANGELOG_CAP ELSE floor

\* A commit other connections can see.
Commit ==
    /\ data_version < MaxCommits
    /\ data_version' = data_version + 1

RingEmpty == floor = seq

\* changelog_since: MIN and MAX of the retained seqs (0 and 0 when empty) and
\* the distinct ids past the watermark, all in one read transaction.
MinSeq == IF RingEmpty THEN 0 ELSE floor + 1
MaxRetainedSeq == IF RingEmpty THEN 0 ELSE seq
ChangedSince(last) == {id \in Ids : logged[id] > last /\ logged[id] > floor}

(***************************************************************************)
(* Writers.                                                                *)
(***************************************************************************)

\* UPDATE of a tracks row to r: one changelog entry, and a second one for the
\* nested UPDATE of tracks_geometry_au when a column it watches changed.
UpdateTrack(id, r) ==
    LET old == rows[id]
        geometryMoved == r.format # old.format \/ r.geom # old.geom
        bump == IF geometryMoved THEN 1 ELSE 0
    IN  /\ rows' = [rows EXCEPT
                      ![id] = [r EXCEPT !.content_version = old.content_version + bump]]
        /\ Log(id, 1 + bump)

\* n child-row statements that leave the track as r: tags_*, track_art_* and
\* structural_blocks_* bump content_version by an UPDATE of the row for each.
ChildRows(id, r, n) ==
    /\ rows' = [rows EXCEPT ![id] = [r EXCEPT !.content_version = @ + n]]
    /\ Log(id, n)

\* replace_tags: DELETE then INSERT of the track's text tags.
replace_tags(id, t, n) ==
    /\ Live(id)
    /\ ChildRows(id, [rows[id] EXCEPT !.tags = t], n)
    /\ Commit
    /\ UNCHANGED truncations

\* set_track_art, set_binary_tags, set_structural_blocks: the same, for rows
\* that feed the layout and not the path.
set_track_art(id, a, n) ==
    /\ Live(id)
    /\ ChildRows(id, [rows[id] EXCEPT !.art = a], n)
    /\ Commit
    /\ UNCHANGED truncations

\* tracks.id is INTEGER PRIMARY KEY without AUTOINCREMENT: SQLite takes the
\* largest rowid in use plus one, so a deleted largest id comes back.
IsNextRowid(id) ==
    /\ \A j \in Ids : j >= id => ~Live(j)
    /\ id > 1 => Live(id - 1)

PathFree(p, id) == \A j \in Ids \ {id} : Live(j) => rows[j].backing_path # p

\* upsert_track on a new backing_path plus the track's first n child rows, in
\* the one transaction the scanner's BulkWriter commits.
insert_track(id, f, t, a, p, g, c, n) ==
    /\ IsNextRowid(id)
    /\ PathFree(p, id)
    /\ rows' = [rows EXCEPT ![id] =
                  [content_version |-> n, format |-> f, tags |-> t, art |-> a,
                   backing_path |-> p, geom |-> g, ctime |-> c, life |-> seq + 1]]
    /\ Log(id, n + 1)
    /\ Commit
    /\ UNCHANGED truncations

\* upsert_track on a known backing_path: the scanner's restamp.
upsert_track(id, f, g, c) ==
    /\ Live(id)
    /\ UpdateTrack(id, [rows[id] EXCEPT !.format = f, !.geom = g, !.ctime = c])
    /\ Commit
    /\ UNCHANGED truncations

\* retarget_track: the scanner found a moved file under a new path.
retarget_track(id, p, g, c) ==
    /\ Live(id)
    /\ PathFree(p, id)
    /\ UpdateTrack(id, [rows[id] EXCEPT !.backing_path = p, !.geom = g, !.ctime = c])
    /\ Commit
    /\ UNCHANGED truncations

\* set_track_checksums: columns the mount never reads, logged all the same.
set_track_checksums(id) ==
    /\ Live(id)
    /\ UpdateTrack(id, rows[id])
    /\ Commit
    /\ UNCHANGED truncations

\* delete_track: the cascaded tags and art triggers find no row to bump.
delete_track(id) ==
    /\ Live(id)
    /\ rows' = [rows EXCEPT ![id] = None]
    /\ Log(id, 1)
    /\ Commit
    /\ UNCHANGED truncations

\* gc_orphan_art and other commits that touch no tracks row.
gc_orphan_art ==
    /\ Commit
    /\ UNCHANGED <<rows, seq, floor, logged, truncations>>

\* An external DELETE FROM track_changes; AUTOINCREMENT keeps counting.
TruncateRing ==
    /\ truncations < MaxTruncations
    /\ ~RingEmpty
    /\ floor' = seq
    /\ truncations' = truncations + 1
    /\ Commit
    /\ UNCHANGED <<rows, seq, logged>>

Writer ==
    \/ \E id \in Ids, n \in 1..MaxBurst :
          \/ \E t \in Tags : replace_tags(id, t, n)
          \/ \E a \in Arts : set_track_art(id, a, n)
    \/ \E id \in Ids, f \in Formats, t \in Tags, a \in Arts, p \in Paths,
          g \in Geoms, c \in Ctimes, n \in 0..MaxBurst :
          insert_track(id, f, t, a, p, g, c, n)
    \/ \E id \in Ids, g \in Geoms, c \in Ctimes :
          \/ \E f \in Formats : upsert_track(id, f, g, c)
          \/ \E p \in Paths : retarget_track(id, p, g, c)
    \/ \E id \in Ids : set_track_checksums(id) \/ delete_track(id)
    \/ gc_orphan_art
    \/ TruncateRing

\* A library with one scanned track, whose INSERT the ring still holds.
StoreInit ==
    /\ \E f \in Formats, t \in Tags, a \in Arts, p \in Paths, g \in Geoms, c \in Ctimes :
          rows = [id \in Ids |->
                    IF id = 1
                    THEN [content_version |-> 1, format |-> f, tags |-> t, art |-> a,
                          backing_path |-> p, geom |-> g, ctime |-> c, life |-> 1]
                    ELSE None]
    /\ seq = 2
    /\ floor = IF 2 > CHANGELOG_CAP THEN 2 - CHANGELOG_CAP ELSE 0
    /\ logged = [id \in Ids |-> IF id = 1 THEN 2 ELSE 0]
    /\ data_version = 0
    /\ truncations = 0

=============================================================================
