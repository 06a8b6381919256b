------------------------------ MODULE Refresh ------------------------------
(***************************************************************************)
(* Freshness polling of the mount: poll_refresh_notify, the changelog      *)
(* driven rebuild_incremental, the full rebuilds and the poison recovery   *)
(* of musefs-core/src/facade/refresh.rs, over the store's writers.         *)
(*                                                                         *)
(* Every database read of a poll is a step of its own: no transaction      *)
(* spans the changelog, the render keys and the tags, so writers commit    *)
(* between them.  The published tree is abstracted to the path each track  *)
(* is shown under, and a rendered path to the pair of its inputs, the      *)
(* format and the tags; name collisions are the virtual tree's concern.    *)
(***************************************************************************)
EXTENDS Store, FiniteSets

CONSTANTS
    Workers,            \* threads that may run a poll
    Skipped,            \* tags render_one drops under skip_on_missing
    CaseInsensitive,    \* MountConfig.case_insensitive
    MaxErrors,          \* bound on failing database reads
    MaxPanics           \* bound on panics while a tree is being built

VARIABLES
    snapshot,           \* track id -> TrackRenderState or None
    tree,               \* track id -> path in the published tree or None
    last_seq, last_data_version, refresh_gen,
    refreshing,         \* the single-flight flag
    needs_rebuild,      \* a poisoned lock asked for a full rebuild
    poisoned,           \* locks a panicking holder left poisoned
    gate,               \* closed while the interval or the backoff runs
    pc, version,        \* per worker: where it is, the data_version it read
    job,                \* what the holder of `refreshing' has read so far
    errors, panics      \* faults so far

mountVars == <<snapshot, tree, last_seq, last_data_version, refresh_gen,
               refreshing, needs_rebuild, poisoned, gate>>
vars == <<storeVars, mountVars, pc, version, job, errors, panics>>

Path == Formats \X Tags
RenderKey == [content_version : Nat, format : Formats, life : Nat]
TrackRenderState ==
    [content_version : Nat, format : Formats, path : Path, life : Nat]

ASSUME RefreshAssumption ==
    /\ Skipped \subseteq Tags
    /\ CaseInsensitive \in BOOLEAN
    /\ MaxErrors \in Nat /\ MaxPanics \in Nat
    /\ None \notin Path /\ None \notin RenderKey /\ None \notin TrackRenderState

\* Program points past the `refreshing' compare-and-swap.
Holding == {"force_version", "force_seq", "force_swap", "gap_seq", "full_keys",
            "full_tags", "full_publish", "full_stamp",
            "inc_log", "inc_keys", "inc_tags", "inc_publish", "inc_stamp"}
Points == Holding \cup {"idle", "cas", "force_cas"}

Job == [mode : {"none", "inc", "gap", "force"}, new_seq : Nat,
        changed_ids : SUBSET Ids, keys : [Ids -> RenderKey \cup {None}],
        states : [Ids -> TrackRenderState \cup {None}], was_set : BOOLEAN]

NoKeys == [id \in Ids |-> None]
NoJob == [mode |-> "none", new_seq |-> 0, changed_ids |-> {}, keys |-> NoKeys,
          states |-> NoKeys, was_set |-> FALSE]

TypeOK ==
    /\ StoreTypeOK
    /\ snapshot \in [Ids -> TrackRenderState \cup {None}]
    /\ tree \in [Ids -> Path \cup {None}]
    /\ last_seq \in Nat /\ last_data_version \in Nat /\ refresh_gen \in Nat
    /\ refreshing \in BOOLEAN /\ needs_rebuild \in BOOLEAN
    /\ poisoned \subseteq {"snapshot", "inodes"}
    /\ gate \subseteq {"interval", "backoff"}
    /\ pc \in [Workers -> Points]
    /\ version \in [Workers -> Nat]
    /\ job \in Job
    /\ errors \in Nat /\ panics \in Nat

(***************************************************************************)
(* What a database read returns.                                           *)
(***************************************************************************)

\* list_render_keys and render_keys_for: a deleted id is simply absent.
KeyOf(r) ==
    IF r = None THEN None
    ELSE [content_version |-> r.content_version, format |-> r.format, life |-> r.life]

\* render_one: the state a key and the tags read for it give.
render_one(key, t) ==
    IF key = None \/ t \in Skipped THEN None
    ELSE [content_version |-> key.content_version, format |-> key.format,
          path |-> <<key.format, t>>, life |-> key.life]

(***************************************************************************)
(* Helpers shared by the steps of a poll.                                  *)
(***************************************************************************)
Goto(w, p) == pc' = [pc EXCEPT ![w] = p]

At(w, p) == pc[w] = p

\* RefreshGuard::drop, on every exit: return, error or panic.
Release(w) ==
    /\ refreshing' = FALSE
    /\ job' = NoJob
    /\ version' = [version EXCEPT ![w] = 0]
    /\ Goto(w, "idle")

\* Seeded fault: the poison is cleared and nothing remembers it.
LockOrFlagSilent(locks) ==
    /\ needs_rebuild' = needs_rebuild
    /\ poisoned' = poisoned \ locks

\* lock_or_flag: a poisoned lock raises needs_rebuild and is cleared.
LockOrFlag(locks) ==
    /\ needs_rebuild' = (needs_rebuild \/ poisoned \cap locks # {})
    /\ poisoned' = poisoned \ locks

\* stamp_successful_poll: last_poll := now, last_failed_refresh := None.
stamp_successful_poll == gate' = {"interval"}

\* Seeded fault: the stamp says what the store is at now.
StampPollLate(w) ==
    /\ last_seq' = job.new_seq
    /\ last_data_version' = data_version
    /\ stamp_successful_poll
    /\ Release(w)

\* The stamps after a publication: watermark and version as read at the start.
StampPoll(w) ==
    /\ last_seq' = job.new_seq
    /\ last_data_version' = version[w]
    /\ stamp_successful_poll
    /\ Release(w)

\* last_failed_refresh := now.
ArmBackoff == gate' = gate \cup {"backoff"}

DatabaseError ==
    /\ errors < MaxErrors
    /\ errors' = errors + 1

Paths_of(states) == [id \in Ids |-> IF states[id] = None THEN None ELSE states[id].path]

(***************************************************************************)
(* poll_refresh_notify up to the compare-and-swap.                         *)
(***************************************************************************)

\* A raised needs_rebuild bypasses the debounce, the backoff and the version.
PollForced(w) ==
    /\ At(w, "idle") /\ needs_rebuild
    /\ Goto(w, "force_cas")
    /\ UNCHANGED <<storeVars, mountVars, version, job, errors, panics>>

PollReads(w) == At(w, "idle") /\ ~needs_rebuild /\ gate = {}

\* Nothing committed since the stamp: the poll ends well.
PollCurrent(w) ==
    /\ PollReads(w)
    /\ data_version = last_data_version
    /\ stamp_successful_poll
    /\ UNCHANGED <<storeVars, snapshot, tree, last_seq, last_data_version, refresh_gen,
                   refreshing, needs_rebuild, poisoned, pc, version, job, errors, panics>>

PollChanged(w) ==
    /\ PollReads(w)
    /\ data_version # last_data_version
    /\ version' = [version EXCEPT ![w] = data_version]
    /\ Goto(w, "cas")
    /\ UNCHANGED <<storeVars, mountVars, job, errors, panics>>

PollReadFails(w) ==
    /\ PollReads(w)
    /\ DatabaseError
    /\ ArmBackoff
    /\ UNCHANGED <<storeVars, snapshot, tree, last_seq, last_data_version, refresh_gen,
                   refreshing, needs_rebuild, poisoned, pc, version, job, panics>>

\* Another worker is rebuilding: Ok(false).
CasFails(w) ==
    /\ pc[w] \in {"cas", "force_cas"} /\ refreshing
    /\ version' = [version EXCEPT ![w] = 0]
    /\ Goto(w, "idle")
    /\ UNCHANGED <<storeVars, mountVars, job, errors, panics>>

\* A case-insensitive mount never takes the incremental path.
CasWins(w) ==
    /\ pc[w] \in {"cas", "force_cas"} /\ ~refreshing
    /\ refreshing' = TRUE
    /\ IF At(w, "force_cas") \/ CaseInsensitive
       THEN /\ Goto(w, "force_version")
            /\ job' = [NoJob EXCEPT !.mode = "force"]
       ELSE /\ Goto(w, "inc_log")
            /\ job' = [NoJob EXCEPT !.mode = "inc"]
    /\ UNCHANGED <<storeVars, snapshot, tree, last_seq, last_data_version, refresh_gen,
                   needs_rebuild, poisoned, gate, version, errors, panics>>

(***************************************************************************)
(* rebuild_incremental.                                                    *)
(***************************************************************************)

\* Seeded fault: off by one.
ChangelogGapOffByOne == IF MaxRetainedSeq = 0 THEN last_seq > 0
                        ELSE MinSeq > last_seq + 2

\* Entries after the watermark may be gone; a watermark of 0 is none at all.
ChangelogGap == IF MaxRetainedSeq = 0 THEN last_seq > 0
                ELSE MinSeq > last_seq + 1

\* Phase 1, first read: changelog_since(last_seq), one read transaction.
IncLog(w) ==
    /\ At(w, "inc_log")
    /\ job' = [job EXCEPT !.changed_ids = ChangedSince(last_seq),
                          !.new_seq = IF MaxRetainedSeq > last_seq
                                      THEN MaxRetainedSeq ELSE last_seq,
                          !.mode = IF ChangelogGap THEN "gap" ELSE "inc"]
    /\ Goto(w, "inc_keys")
    /\ UNCHANGED <<storeVars, mountVars, version, errors, panics>>

\* Phase 1, second read: render_keys_for the changed ids; then the gap test.
IncKeys(w) ==
    /\ At(w, "inc_keys")
    /\ job' = [job EXCEPT !.keys = IF job.mode = "gap" THEN NoKeys
                                   ELSE [id \in Ids |-> IF id \in job.changed_ids
                                                        THEN KeyOf(rows[id]) ELSE None]]
    /\ Goto(w, IF job.mode = "gap" THEN "gap_seq" ELSE "inc_tags")
    /\ UNCHANGED <<storeVars, mountVars, version, errors, panics>>

\* partition_changelog compares content_version and format, nothing else.
Changed == {id \in job.changed_ids :
              /\ job.keys[id] # None /\ snapshot[id] # None
              /\ \/ snapshot[id].content_version # job.keys[id].content_version
                 \/ snapshot[id].format # job.keys[id].format}
Added   == {id \in job.changed_ids : job.keys[id] # None /\ snapshot[id] = None}
Removed == {id \in job.changed_ids : job.keys[id] = None /\ snapshot[id] # None}

\* Phases 2 and 3: previous states under the snapshot lock, then tags and
\* rendering of what changed or was added.
IncTags(w) ==
    /\ At(w, "inc_tags")
    /\ LockOrFlag({"snapshot"})
    /\ job' = [job EXCEPT !.states = [id \in Ids |->
                  IF id \in Changed \cup Added
                  THEN render_one(job.keys[id], TagsOf(rows[id])) ELSE None]]
    /\ Goto(w, "inc_publish")
    /\ UNCHANGED <<storeVars, snapshot, tree, last_seq, last_data_version, refresh_gen,
                   refreshing, gate, version, errors, panics>>

\* Phase 4's change of the snapshot: a changed id that rendered nothing is a
\* removal, an added one that rendered nothing disappears.
Touched == Changed \cup Added \cup Removed
MutatedSnapshot ==
    [id \in Ids |-> IF id \in Touched THEN job.states[id] ELSE snapshot[id]]

\* Phase 4 under the snapshot and inodes locks: mutate, apply the delta to
\* the tree (or, when apply_changes refuses, rebuild it from the snapshot),
\* publish.
IncPublish(w) ==
    /\ At(w, "inc_publish")
    /\ snapshot' = MutatedSnapshot
    /\ LockOrFlag({"snapshot", "inodes"})
    /\ \/ tree' = [id \in Ids |-> IF id \in Touched THEN Paths_of(job.states)[id]
                                  ELSE tree[id]]
       \/ tree' = Paths_of(MutatedSnapshot)
    /\ Goto(w, "inc_stamp")
    /\ UNCHANGED <<storeVars, last_seq, last_data_version, refresh_gen,
                   refreshing, gate, version, job, errors, panics>>

\* A panic in phase 4 unwinds with the snapshot already mutated, the tree not
\* published and both locks poisoned; the guard frees `refreshing'.
IncPanics(w) ==
    /\ At(w, "inc_publish")
    /\ panics < MaxPanics
    /\ panics' = panics + 1
    /\ snapshot' = MutatedSnapshot
    /\ needs_rebuild' = (needs_rebuild \/ poisoned # {})
    /\ poisoned' = {"snapshot", "inodes"}
    /\ Release(w)
    /\ UNCHANGED <<storeVars, tree, last_seq, last_data_version, refresh_gen,
                   gate, errors>>

\* Seeded fault: the generation moves only when a path was rendered again.
SomethingChangedIfRendered == job.states # NoKeys

\* The generation moves whenever the changelog named a track at all.
SomethingChanged == job.changed_ids # {}

\* Cache removals and notifications, then the stamps.
IncStamp(w) ==
    /\ At(w, "inc_stamp")
    /\ StampPoll(w)
    /\ refresh_gen' = IF SomethingChanged THEN refresh_gen + 1 ELSE refresh_gen
    /\ UNCHANGED <<storeVars, snapshot, tree, needs_rebuild, poisoned,
                   errors, panics>>

\* A failing read of phases 1 or 3 (phase 3 reads only when it renders).
IncFails(w) ==
    /\ \/ pc[w] \in {"inc_log", "inc_keys"}
       \/ At(w, "inc_tags") /\ Changed \cup Added # {}
    /\ DatabaseError
    /\ ArmBackoff
    /\ IF At(w, "inc_tags") THEN LockOrFlag({"snapshot"})
                            ELSE UNCHANGED <<needs_rebuild, poisoned>>
    /\ Release(w)
    /\ UNCHANGED <<storeVars, snapshot, tree, last_seq, last_data_version, refresh_gen,
                   panics>>

(***************************************************************************)
(* Full rebuilds: force_full_rebuild and the changelog-gap fallback.       *)
(***************************************************************************)

ForceVersion(w) ==
    /\ At(w, "force_version")
    /\ version' = [version EXCEPT ![w] = data_version]
    /\ Goto(w, "force_seq")
    /\ UNCHANGED <<storeVars, mountVars, job, errors, panics>>

\* The new watermark is read before the tracks are (0 when the ring is empty).
ForceSeq(w) ==
    /\ At(w, "force_seq")
    /\ job' = [job EXCEPT !.new_seq = MaxRetainedSeq]
    /\ Goto(w, "force_swap")
    /\ UNCHANGED <<storeVars, mountVars, version, errors, panics>>

\* needs_rebuild.swap(false), then the old snapshot is copied under its lock.
ForceSwap(w) ==
    /\ At(w, "force_swap")
    /\ job' = [job EXCEPT !.was_set = needs_rebuild]
    /\ needs_rebuild' = ("snapshot" \in poisoned)
    /\ poisoned' = poisoned \ {"snapshot"}
    /\ Goto(w, "full_keys")
    /\ UNCHANGED <<storeVars, snapshot, tree, last_seq, last_data_version, refresh_gen,
                   refreshing, gate, version, errors, panics>>

GapSeq(w) ==
    /\ At(w, "gap_seq")
    /\ job' = [job EXCEPT !.new_seq = MaxRetainedSeq]
    /\ LockOrFlag({"snapshot"})
    /\ Goto(w, "full_keys")
    /\ UNCHANGED <<storeVars, snapshot, tree, last_seq, last_data_version, refresh_gen,
                   refreshing, gate, version, errors, panics>>

\* render_entries, first read: list_render_keys.
FullKeys(w) ==
    /\ At(w, "full_keys")
    /\ job' = [job EXCEPT !.keys = [id \in Ids |-> KeyOf(rows[id])]]
    /\ Goto(w, "full_tags")
    /\ UNCHANGED <<storeVars, mountVars, version, errors, panics>>

\* render_entries, second read: the tags, and rendering.
FullTags(w) ==
    /\ At(w, "full_tags")
    /\ job' = [job EXCEPT !.states = [id \in Ids |-> render_one(job.keys[id], TagsOf(rows[id]))]]
    /\ Goto(w, "full_publish")
    /\ UNCHANGED <<storeVars, mountVars, version, errors, panics>>

\* rebuild_full builds and publishes under the inodes lock.
FullPublish(w) ==
    /\ At(w, "full_publish")
    /\ LockOrFlag({"inodes"})
    /\ tree' = Paths_of(job.states)
    /\ Goto(w, "full_stamp")
    /\ UNCHANGED <<storeVars, snapshot, last_seq, last_data_version, refresh_gen,
                   refreshing, gate, version, job, errors, panics>>

FullPanics(w) ==
    /\ At(w, "full_publish")
    /\ panics < MaxPanics
    /\ panics' = panics + 1
    /\ needs_rebuild' = (needs_rebuild \/ "inodes" \in poisoned)
    /\ poisoned' = poisoned \cup {"inodes"}
    /\ Release(w)
    /\ UNCHANGED <<storeVars, snapshot, tree, last_seq, last_data_version, refresh_gen,
                   gate, errors>>

\* Cache retention and notifications, the snapshot, then the stamps.
FullStamp(w) ==
    /\ At(w, "full_stamp")
    /\ snapshot' = job.states
    /\ LockOrFlag({"snapshot"})
    /\ StampPoll(w)
    /\ refresh_gen' = refresh_gen + 1
    /\ UNCHANGED <<storeVars, tree, errors, panics>>

\* Seeded fault: the consumed request is not raised again.
RearmForgotten == needs_rebuild

Rearm == needs_rebuild \/ job.was_set

\* A failing read of force_full_rebuild: the consumed request is re-armed
\* and last_failed_refresh is left alone.
ForceFails(w) ==
    /\ \/ pc[w] \in {"force_version", "force_seq"}
       \/ job.mode = "force" /\ pc[w] \in {"full_keys", "full_tags"}
    /\ DatabaseError
    /\ needs_rebuild' = Rearm
    /\ Release(w)
    /\ UNCHANGED <<storeVars, snapshot, tree, last_seq, last_data_version, refresh_gen,
                   poisoned, gate, panics>>

\* A failing read of the gap fallback: `?' on the watermark read leaves the
\* backoff unarmed, a failing rebuild_full arms it.
GapFails(w) ==
    /\ \/ At(w, "gap_seq") /\ UNCHANGED gate
       \/ /\ job.mode = "gap" /\ pc[w] \in {"full_keys", "full_tags"}
          /\ ArmBackoff
    /\ DatabaseError
    /\ Release(w)
    /\ UNCHANGED <<storeVars, snapshot, tree, last_seq, last_data_version, refresh_gen,
                   needs_rebuild, poisoned, panics>>

(***************************************************************************)
(* The specification.                                                      *)
(***************************************************************************)

\* The poll interval or the retry backoff runs out.
TimeElapses(g) ==
    /\ g \in gate
    /\ gate' = gate \ {g}
    /\ UNCHANGED <<storeVars, snapshot, tree, last_seq, last_data_version, refresh_gen,
                   refreshing, needs_rebuild, poisoned, pc, version, job, errors, panics>>

\* One step of a worker that no fault disturbs.
Progress(w) ==
    \/ PollForced(w) \/ PollCurrent(w) \/ PollChanged(w) \/ CasFails(w) \/ CasWins(w)
    \/ IncLog(w) \/ IncKeys(w) \/ IncTags(w) \/ IncPublish(w) \/ IncStamp(w)
    \/ ForceVersion(w) \/ ForceSeq(w) \/ ForceSwap(w) \/ GapSeq(w)
    \/ FullKeys(w) \/ FullTags(w) \/ FullPublish(w) \/ FullStamp(w)

Fault(w) ==
    \/ PollReadFails(w) \/ IncFails(w) \/ ForceFails(w) \/ GapFails(w)
    \/ IncPanics(w) \/ FullPanics(w)

Write ==
    /\ Writer
    /\ UNCHANGED <<mountVars, pc, version, job, errors, panics>>

\* Musefs::open stamps data_version and the watermark, then builds.
Init ==
    /\ StoreInit
    /\ snapshot = [id \in Ids |-> render_one(KeyOf(rows[id]), TagsOf(rows[id]))]
    /\ tree = Paths_of(snapshot)
    /\ last_seq = MaxRetainedSeq
    /\ last_data_version = data_version
    /\ refresh_gen = 0
    /\ refreshing = FALSE /\ needs_rebuild = FALSE
    /\ poisoned = {} /\ gate = {}
    /\ pc = [w \in Workers |-> "idle"]
    /\ version = [w \in Workers |-> 0]
    /\ job = NoJob
    /\ errors = 0 /\ panics = 0

Next ==
    \/ Write
    \/ \E w \in Workers : Progress(w) \/ Fault(w)
    \/ \E g \in {"interval", "backoff"} : TimeElapses(g)

Spec == Init /\ [][Next]_vars

\* Metadata operations keep arriving and each one fires a poll, so a worker
\* that can step does; time passes.
Fairness ==
    /\ \A w \in Workers : WF_vars(Progress(w))
    /\ \A g \in {"interval", "backoff"} : WF_vars(TimeElapses(g))

FairSpec == Spec /\ Fairness

(***************************************************************************)
(* Properties.                                                             *)
(***************************************************************************)

\* The path the current row renders to, None for a track not shown.
TruePath(id) == IF Live(id) /\ rows[id].tags \notin Skipped
                THEN <<rows[id].format, rows[id].tags>> ELSE None

\* The next poll would find nothing to do.
Settled == /\ ~refreshing /\ ~needs_rebuild /\ poisoned = {}
           /\ last_data_version = data_version

\* SQLite gave the id of a deleted track to a new one whose content_version
\* and format happen to equal the old one's.
Reused(id) == /\ Live(id) /\ snapshot[id] # None
              /\ snapshot[id].life # rows[id].life
              /\ snapshot[id].content_version = rows[id].content_version
              /\ snapshot[id].format = rows[id].format

\* No update is lost: once a poll would report "nothing new", the published
\* tree shows every track under the path its current row renders to, although
\* the poll read changelog, keys and tags in separate snapshots, the ring may
\* have pruned entries, reads failed and a tree build panicked half way.
NoLostUpdate == Settled => \A id \in Ids : tree[id] = TruePath(id) \/ Reused(id)

\* Open handles re-resolve only when the generation moves, so a watermark may
\* never move past logged changes without it: a retarget changes no render
\* key and still has to reach them.
GenerationFollowsWatermark ==
    [][last_seq' # last_seq => refresh_gen' > refresh_gen]_vars

\* Once writers and faults stop, the published tree comes to show the store
\* and goes on showing it: external edits appear without remounting, whatever
\* reads failed and whichever tree build panicked on the way.
EventuallyCurrent == <>[](\A id \in Ids : tree[id] = TruePath(id) \/ Reused(id))

=============================================================================
