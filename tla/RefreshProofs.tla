--------------------------- MODULE RefreshProofs ---------------------------
(***************************************************************************)
(* Proofs about freshness polling for any number of tracks, workers,       *)
(* commits, failing reads and panics, and any ring capacity.               *)
(***************************************************************************)
EXTENDS RefreshHistory, StoreProofs

(***************************************************************************)
(* Types of what the steps read and build.                                 *)
(***************************************************************************)

\* A step that leaves the store alone keeps it well typed.
LEMMA StoreUnchanged ==
    ASSUME StoreTypeOK, UNCHANGED storeVars
    PROVE  StoreTypeOK'
  BY DEF StoreTypeOK, storeVars

\* A row has a render key, no row has none.
LEMMA KeyOfType ==
    ASSUME NEW r \in Row \cup {None}
    PROVE  KeyOf(r) \in RenderKey \cup {None} /\ TagsOf(r) \in Tags
  <1>1. CASE r = None
    BY <1>1, StoreAssumption DEF KeyOf, TagsOf
  <1>2. CASE r # None
    BY <1>2 DEF KeyOf, TagsOf, RenderKey, Row
  <1>3. QED
    BY <1>1, <1>2

\* What list_render_keys returns.
LEMMA RowKeys ==
    ASSUME StoreTypeOK
    PROVE  \A id \in Ids : /\ KeyOf(rows[id]) \in RenderKey \cup {None}
                           /\ TagsOf(rows[id]) \in Tags
  <1>1. \A id \in Ids : rows[id] \in Row \cup {None}
    BY DEF StoreTypeOK
  <1>2. QED
    BY <1>1, KeyOfType

\* render_one returns a state or nothing.
LEMMA RenderType ==
    ASSUME NEW key \in RenderKey \cup {None}, NEW t \in Tags
    PROVE  render_one(key, t) \in TrackRenderState \cup {None}
  <1>1. CASE key = None \/ t \in Skipped
    BY <1>1 DEF render_one
  <1>2. CASE ~(key = None \/ t \in Skipped)
    <2>1. key \in RenderKey
      BY <1>2
    <2>2. QED
      BY <1>2, <2>1 DEF render_one, RenderKey, TrackRenderState, Path
  <1>3. QED
    BY <1>1, <1>2

\* The tree of a table of states.
LEMMA PathsType ==
    ASSUME NEW S \in [Ids -> TrackRenderState \cup {None}]
    PROVE  Paths_of(S) \in [Ids -> Path \cup {None}]
  <1>1. \A id \in Ids : S[id] # None => S[id].path \in Path
    BY DEF TrackRenderState
  <1>2. QED
    BY <1>1 DEF Paths_of

\* The empty job is a job.
LEMMA NoJobType == NoJob \in Job
  BY DEF NoJob, Job, NoKeys

\* The types of a job's fields.
LEMMA JobFields ==
    ASSUME job \in Job
    PROVE  /\ job.new_seq \in Nat /\ job.changed_ids \subseteq Ids
           /\ job.keys \in [Ids -> RenderKey \cup {None}]
           /\ job.states \in [Ids -> TrackRenderState \cup {None}]
           /\ job.was_set \in BOOLEAN
           /\ job.mode \in {"none", "inc", "gap", "force"}
  BY DEF Job

\* Phase 4 leaves a table of states.
LEMMA MutatedType ==
    ASSUME TypeOK
    PROVE  MutatedSnapshot \in [Ids -> TrackRenderState \cup {None}]
  BY JobFields DEF TypeOK, MutatedSnapshot

(***************************************************************************)
(* TypeOK is inductive.                                                    *)
(***************************************************************************)

\* The steps from the poll's start to its compare-and-swap.
LEMMA PollTypes ==
    ASSUME TypeOK, NEW w \in Workers,
           \/ PollForced(w) \/ PollCurrent(w) \/ PollChanged(w) \/ PollReadFails(w)
           \/ CasFails(w) \/ CasWins(w)
    PROVE  TypeOK'
  <1>1. StoreTypeOK'
    <2>1. UNCHANGED storeVars
      BY DEF PollForced, PollCurrent, PollChanged, PollReadFails, CasFails, CasWins
    <2>2. QED
      BY <2>1, StoreUnchanged DEF TypeOK
  <1>2. CASE PollForced(w)
    BY <1>1, <1>2 DEF TypeOK, PollForced, Goto, mountVars, Points, At
  <1>3. CASE PollCurrent(w)
    BY <1>1, <1>3 DEF TypeOK, PollCurrent, stamp_successful_poll
  <1>4. CASE PollChanged(w)
    BY <1>1, <1>4 DEF TypeOK, PollChanged, Goto, mountVars, Points, StoreTypeOK
  <1>5. CASE PollReadFails(w)
    BY <1>1, <1>5 DEF TypeOK, PollReadFails, ArmBackoff, DatabaseError
  <1>6. CASE CasFails(w)
    BY <1>1, <1>6 DEF TypeOK, CasFails, Goto, mountVars, Points
  <1>7. CASE CasWins(w)
    <2>1. [NoJob EXCEPT !.mode = "force"] \in Job /\ [NoJob EXCEPT !.mode = "inc"] \in Job
      BY NoJobType DEF Job
    <2>2. job' \in Job
      BY <1>7, <2>1 DEF CasWins
    <2>3. pc' \in [Workers -> Points]
      BY <1>7 DEF TypeOK, CasWins, Goto, Points, Holding
    <2>4. QED
      BY <1>1, <1>7, <2>2, <2>3 DEF TypeOK, CasWins
  <1>8. QED
    BY <1>2, <1>3, <1>4, <1>5, <1>6, <1>7

\* Leaving a poll.
LEMMA ReleaseType ==
    ASSUME TypeOK, NEW w \in Workers, Release(w)
    PROVE  /\ refreshing' \in BOOLEAN /\ job' \in Job
           /\ version' \in [Workers -> Nat] /\ pc' \in [Workers -> Points]
  BY NoJobType DEF TypeOK, Release, Goto, Points

\* The steps of rebuild_incremental keep the types.
LEMMA IncTypes ==
    ASSUME TypeOK, NEW w \in Workers,
           \/ IncLog(w) \/ IncKeys(w) \/ IncTags(w) \/ IncPublish(w)
           \/ IncPanics(w) \/ IncStamp(w) \/ IncFails(w)
    PROVE  TypeOK'
  <1>1. StoreTypeOK /\ StoreTypeOK'
    <2>1. UNCHANGED storeVars
      BY DEF IncLog, IncKeys, IncTags, IncPublish, IncPanics, IncStamp, StampPoll, IncFails
    <2>2. QED
      BY <2>1, StoreUnchanged DEF TypeOK
  <1>2. job \in Job
    BY DEF TypeOK
  <1>3. CASE IncLog(w)
    <2>1. MaxRetainedSeq \in Nat /\ last_seq \in Nat
      BY <1>1 DEF MaxRetainedSeq, StoreTypeOK, TypeOK
    <2>2. ChangedSince(last_seq) \subseteq Ids
      BY DEF ChangedSince
    <2>3. job' \in Job
      BY <1>2, <1>3, <2>1, <2>2 DEF IncLog, Job
    <2>4. QED
      BY <1>1, <1>3, <2>3 DEF TypeOK, IncLog, Goto, mountVars, Points, Holding
  <1>4. CASE IncKeys(w)
    <2> DEFINE keys == IF job.mode = "gap" THEN NoKeys
                       ELSE [id \in Ids |-> IF id \in job.changed_ids THEN KeyOf(rows[id]) ELSE None]
    <2>1. keys \in [Ids -> RenderKey \cup {None}]
      BY <1>1, RowKeys DEF NoKeys
    <2>2. job' = [job EXCEPT !.keys = keys]
      BY <1>4 DEF IncKeys
    <2> HIDE DEF keys
    <2>3. job' \in Job
      BY <1>2, <2>1, <2>2 DEF Job
    <2>4. QED
      BY <1>1, <1>4, <2>3 DEF TypeOK, IncKeys, Goto, mountVars, Points, Holding
  <1>5. CASE IncTags(w)
    <2> DEFINE states == [id \in Ids |-> IF id \in Changed \cup Added
                                         THEN render_one(job.keys[id], TagsOf(rows[id])) ELSE None]
    <2>1. states \in [Ids -> TrackRenderState \cup {None}]
      BY <1>1, <1>2, JobFields, RowKeys, RenderType
    <2>2. job' = [job EXCEPT !.states = states]
      BY <1>5 DEF IncTags
    <2> HIDE DEF states
    <2>3. job' \in Job
      BY <1>2, <2>1, <2>2 DEF Job
    <2>4. QED
      BY <1>1, <1>5, <2>3 DEF TypeOK, IncTags, LockOrFlag, Goto, Points, Holding
  <1>6. CASE IncPublish(w)
    <2>1. snapshot' \in [Ids -> TrackRenderState \cup {None}]
      BY <1>6, MutatedType DEF IncPublish
    <2>2. Paths_of(MutatedSnapshot) \in [Ids -> Path \cup {None}]
      BY MutatedType, PathsType
    <2>3. Paths_of(job.states) \in [Ids -> Path \cup {None}]
      BY <1>2, JobFields, PathsType
    <2>4. tree' \in [Ids -> Path \cup {None}]
      BY <1>6, <2>2, <2>3 DEF IncPublish, TypeOK
    <2>5. QED
      BY <1>1, <1>6, <2>1, <2>4 DEF TypeOK, IncPublish, LockOrFlag, Goto, Points, Holding
  <1>7. CASE IncPanics(w)
    BY <1>1, <1>7, MutatedType, ReleaseType DEF TypeOK, IncPanics
  <1>8. CASE IncStamp(w)
    BY <1>1, <1>2, <1>8, JobFields, ReleaseType
       DEF TypeOK, IncStamp, StampPoll, stamp_successful_poll
  <1>9. CASE IncFails(w)
    <2>1. errors' \in Nat /\ gate' \subseteq {"interval", "backoff"}
      BY <1>9 DEF IncFails, DatabaseError, ArmBackoff, TypeOK
    <2>2. needs_rebuild' \in BOOLEAN /\ poisoned' \subseteq {"snapshot", "inodes"}
      BY <1>9 DEF IncFails, LockOrFlag, TypeOK
    <2>3. Release(w) /\ UNCHANGED <<snapshot, tree, last_seq, last_data_version,
                                    refresh_gen, panics>>
      BY <1>9 DEF IncFails
    <2>4. QED
      BY <1>1, <2>1, <2>2, <2>3, ReleaseType DEF TypeOK
  <1>10. QED
    BY <1>3, <1>4, <1>5, <1>6, <1>7, <1>8, <1>9

\* The steps of the full rebuilds keep the types.
LEMMA FullTypes ==
    ASSUME TypeOK, NEW w \in Workers,
           \/ ForceVersion(w) \/ ForceSeq(w) \/ ForceSwap(w) \/ GapSeq(w)
           \/ FullKeys(w) \/ FullTags(w) \/ FullPublish(w) \/ FullPanics(w)
           \/ FullStamp(w) \/ ForceFails(w) \/ GapFails(w)
    PROVE  TypeOK'
  <1>1. StoreTypeOK /\ StoreTypeOK'
    <2>1. UNCHANGED storeVars
      BY DEF ForceVersion, ForceSeq, ForceSwap, GapSeq, FullKeys, FullTags, FullPublish,
             FullPanics, FullStamp, StampPoll, ForceFails, GapFails
    <2>2. QED
      BY <2>1, StoreUnchanged DEF TypeOK
  <1>2. job \in Job /\ MaxRetainedSeq \in Nat
    BY <1>1 DEF TypeOK, MaxRetainedSeq, StoreTypeOK
  <1>3. CASE ForceVersion(w)
    BY <1>1, <1>3 DEF TypeOK, ForceVersion, Goto, mountVars, Points, Holding, StoreTypeOK
  <1>4. CASE ForceSeq(w)
    <2>1. job' \in Job
      BY <1>2, <1>4 DEF ForceSeq, Job
    <2>2. QED
      BY <1>1, <1>4, <2>1 DEF TypeOK, ForceSeq, Goto, mountVars, Points, Holding
  <1>5. CASE ForceSwap(w)
    <2>1. job' \in Job
      BY <1>2, <1>5 DEF ForceSwap, Job, TypeOK
    <2>2. QED
      BY <1>1, <1>5, <2>1 DEF TypeOK, ForceSwap, Goto, Points, Holding
  <1>6. CASE GapSeq(w)
    <2>1. job' \in Job
      BY <1>2, <1>6 DEF GapSeq, Job
    <2>2. QED
      BY <1>1, <1>6, <2>1 DEF TypeOK, GapSeq, LockOrFlag, Goto, Points, Holding
  <1>7. CASE FullKeys(w)
    <2> DEFINE keys == [id \in Ids |-> KeyOf(rows[id])]
    <2>1. keys \in [Ids -> RenderKey \cup {None}]
      BY <1>1, RowKeys
    <2>2. job' = [job EXCEPT !.keys = keys]
      BY <1>7 DEF FullKeys
    <2> HIDE DEF keys
    <2>3. job' \in Job
      BY <1>2, <2>1, <2>2 DEF Job
    <2>4. QED
      BY <1>1, <1>7, <2>3 DEF TypeOK, FullKeys, Goto, mountVars, Points, Holding
  <1>8. CASE FullTags(w)
    <2> DEFINE states == [id \in Ids |-> render_one(job.keys[id], TagsOf(rows[id]))]
    <2>1. states \in [Ids -> TrackRenderState \cup {None}]
      BY <1>1, <1>2, JobFields, RowKeys, RenderType
    <2>2. job' = [job EXCEPT !.states = states]
      BY <1>8 DEF FullTags
    <2> HIDE DEF states
    <2>3. job' \in Job
      BY <1>2, <2>1, <2>2 DEF Job
    <2>4. QED
      BY <1>1, <1>8, <2>3 DEF TypeOK, FullTags, Goto, mountVars, Points, Holding
  <1>9. CASE FullPublish(w)
    <2>1. tree' \in [Ids -> Path \cup {None}]
      BY <1>2, <1>9, JobFields, PathsType DEF FullPublish
    <2>2. QED
      BY <1>1, <1>9, <2>1 DEF TypeOK, FullPublish, LockOrFlag, Goto, Points, Holding
  <1>10. CASE FullPanics(w)
    BY <1>1, <1>10, ReleaseType DEF TypeOK, FullPanics
  <1>11. CASE FullStamp(w)
    BY <1>1, <1>2, <1>11, JobFields, ReleaseType
       DEF TypeOK, FullStamp, StampPoll, LockOrFlag, stamp_successful_poll
  <1>12. CASE ForceFails(w)
    BY <1>1, <1>2, <1>12, JobFields, ReleaseType DEF TypeOK, ForceFails, DatabaseError, Rearm
  <1>13. CASE GapFails(w)
    <2>1. errors' \in Nat /\ gate' \subseteq {"interval", "backoff"}
      <3>1. gate' = gate \/ ArmBackoff
        BY <1>13 DEF GapFails
      <3>2. gate' \subseteq {"interval", "backoff"}
        BY <3>1 DEF ArmBackoff, TypeOK
      <3>3. errors' \in Nat
        BY <1>13 DEF GapFails, DatabaseError, TypeOK
      <3>4. QED
        BY <3>2, <3>3
    <2>2. Release(w) /\ UNCHANGED <<snapshot, tree, last_seq, last_data_version,
                                    refresh_gen, needs_rebuild, poisoned, panics>>
      BY <1>13 DEF GapFails
    <2>3. QED
      BY <1>1, <2>1, <2>2, ReleaseType DEF TypeOK
  <1>14. QED
    BY <1>3, <1>4, <1>5, <1>6, <1>7, <1>8, <1>9, <1>10, <1>11, <1>12, <1>13

\* Every step keeps the types.
LEMMA TypeNext == TypeOK /\ [Next]_vars => TypeOK'
  <1> SUFFICES ASSUME TypeOK, [Next]_vars PROVE TypeOK'
    OBVIOUS
  <1>1. CASE Write
    BY <1>1, WriterStep DEF TypeOK, Write, mountVars
  <1>2. ASSUME NEW w \in Workers, Progress(w) \/ Fault(w) PROVE TypeOK'
    BY <1>2, PollTypes, IncTypes, FullTypes DEF Progress, Fault
  <1>3. ASSUME NEW g \in {"interval", "backoff"}, TimeElapses(g) PROVE TypeOK'
    BY <1>3, StoreUnchanged DEF TypeOK, TimeElapses
  <1>4. CASE UNCHANGED vars
    BY <1>4, StoreUnchanged DEF TypeOK, vars, mountVars
  <1>5. QED
    BY <1>1, <1>2, <1>3, <1>4 DEF Next

\* The mount opens well typed.
LEMMA TypeInit == Init => TypeOK
  <1> SUFFICES ASSUME Init PROVE TypeOK
    OBVIOUS
  <1>1. StoreTypeOK
    BY StoreInitType DEF Init
  <1>2. snapshot \in [Ids -> TrackRenderState \cup {None}]
    BY <1>1, RowKeys, RenderType DEF Init
  <1>3. tree \in [Ids -> Path \cup {None}]
    BY <1>2, PathsType DEF Init
  <1>4. last_seq \in Nat /\ last_data_version \in Nat
    BY <1>1 DEF Init, MaxRetainedSeq, StoreTypeOK
  <1>5. QED
    BY <1>1, <1>2, <1>3, <1>4, NoJobType DEF Init, TypeOK, Points

\* Type correctness of the polling state, whatever the writers, the errors
\* and the panics do.
THEOREM TypeCorrect == Spec => []TypeOK
  BY TypeInit, TypeNext, PTL DEF Spec


(***************************************************************************)
(* GenerationFollowsWatermark and NoLostUpdate: the inductive invariant of *)
(* RefreshInv is preserved by every step of a poll and by every commit.    *)
(***************************************************************************)

(***************************************************************************)
(* What a commit does to what a poll has read.                             *)
(***************************************************************************)

\* A commit is one of the steps StoreProofs describes and leaves the mount alone.
LEMMA WriteStep ==
    ASSUME TypeOK, Write
    PROVE  /\ StoreTypeOK' /\ LogStep /\ \A id \in Ids : RowStep(id)
           /\ UNCHANGED <<mountVars, pc, version, job, errors, panics>>
  BY WriterStep DEF TypeOK, Write

\* Without external truncations no writer empties the ring.
LEMMA NoTruncation ==
    ASSUME MaxTruncations = 0, StoreTypeOK, Writer
    PROVE  truncations' = truncations
  <1>1. ~TruncateRing
    BY DEF TruncateRing, StoreTypeOK
  <1>2. QED
    BY <1>1 DEF Writer, replace_tags, set_track_art, insert_track, upsert_track,
       retarget_track, set_track_checksums, delete_track, gc_orphan_art

\* A commit cannot make a sound key unsound: it moves the row on, or ends the
\* life the key belongs to.
LEMMA KeySoundStep ==
    ASSUME NEW id \in Ids, StoreTypeOK, StoreTypeOK', LogStep, RowStep(id),
           NEW k \in RenderKey \cup TrackRenderState \cup {None},
           KeySound(k, rows[id], seq)
    PROVE  KeySound(k, rows'[id], seq')
  <1> SUFFICES ASSUME k # None PROVE KeySound(k, rows'[id], seq')
    BY DEF KeySound
  <1>1. k.life \in Nat /\ k.content_version \in Nat /\ seq \in Nat /\ seq' \in Nat /\ seq' >= seq
    BY DEF StoreTypeOK, LogStep, RenderKey, TrackRenderState
  <1>2. /\ rows[id] # None => rows[id].content_version \in Nat /\ rows[id].life \in Nat
        /\ rows'[id] # None => rows'[id].content_version \in Nat /\ rows'[id].life \in Nat
    BY DEF StoreTypeOK, Row
  <1>3. QED
    BY <1>1, <1>2 DEF KeySound, RowStep

\* The same for a rendered state.
LEMMA StateSoundStep ==
    ASSUME NEW id \in Ids, StoreTypeOK, StoreTypeOK', LogStep, RowStep(id),
           NEW s \in TrackRenderState \cup {None}, StateSound(s, rows[id], seq)
    PROVE  StateSound(s, rows'[id], seq')
  <1>1. KeySound(s, rows[id], seq) /\ KeySound(s, rows'[id], seq')
    BY KeySoundStep DEF StateSound
  <1> SUFFICES ASSUME s # None PROVE StateSound(s, rows'[id], seq')
    BY <1>1 DEF StateSound
  <1>2. s.life \in Nat /\ s.content_version \in Nat /\ seq \in Nat /\ s.life <= seq
    BY <1>1 DEF StoreTypeOK, TrackRenderState, KeySound
  <1>3. /\ rows[id] # None => rows[id].content_version \in Nat /\ rows[id].life \in Nat
        /\ rows'[id] # None => rows'[id].content_version \in Nat /\ rows'[id].life \in Nat
    BY DEF StoreTypeOK, Row
  <1>4. QED
    BY <1>1, <1>2, <1>3 DEF StateSound, KeySound, RowStep

\* A commit that changes a track logs it past every watermark read so far.
LEMMA CoveredStep ==
    ASSUME NEW id \in Ids, StoreTypeOK, StoreTypeOK', RowStep(id),
           NEW new \in Nat, new <= seq, NEW s,
           logged[id] > new \/ InSync(s, rows[id])
    PROVE  logged'[id] > new \/ InSync(s, rows'[id])
  <1>1. CASE rows'[id] = rows[id] /\ logged'[id] = logged[id]
    BY <1>1
  <1>2. CASE seq' > seq /\ logged'[id] = seq'
    BY <1>2 DEF StoreTypeOK
  <1>3. QED
    BY <1>1, <1>2 DEF RowStep

(***************************************************************************)
(* Every part of the invariant is preserved.                               *)
(***************************************************************************)

\* The compare-and-swap admits one worker, and the guard lowers the flag only
\* when that worker leaves.
LEMMA SingleFlightNext ==
    ASSUME TypeOK, SingleFlight, [Next]_vars
    PROVE  SingleFlight'
  <1>1. CASE Write
    BY <1>1 DEF Write, mountVars, SingleFlight, TypeOK, Holding, Points
  <1>2. ASSUME NEW w \in Workers, PollForced(w) PROVE SingleFlight'
    BY <1>2 DEF PollForced, At, Goto, mountVars, SingleFlight, TypeOK, Holding, Points
  <1>3. ASSUME NEW w \in Workers, PollCurrent(w) PROVE SingleFlight'
    BY <1>3 DEF PollCurrent, SingleFlight, TypeOK, Holding, Points
  <1>4. ASSUME NEW w \in Workers, PollChanged(w) PROVE SingleFlight'
    BY <1>4 DEF PollChanged, PollReads, At, Goto, mountVars, SingleFlight, TypeOK, Holding,
       Points
  <1>5. ASSUME NEW w \in Workers, PollReadFails(w) PROVE SingleFlight'
    BY <1>5 DEF PollReadFails, SingleFlight, TypeOK, Holding, Points
  <1>6. ASSUME NEW w \in Workers, CasFails(w) PROVE SingleFlight'
    BY <1>6 DEF CasFails, Goto, mountVars, SingleFlight, TypeOK, Holding, Points
  <1>7. ASSUME NEW w \in Workers, CasWins(w) PROVE SingleFlight'
    BY <1>7 DEF CasWins, At, Goto, SingleFlight, TypeOK, Holding, Points
  <1>8. ASSUME NEW w \in Workers, IncLog(w) PROVE SingleFlight'
    BY <1>8 DEF IncLog, At, Goto, mountVars, SingleFlight, TypeOK, Holding, Points
  <1>9. ASSUME NEW w \in Workers, IncKeys(w) PROVE SingleFlight'
    BY <1>9 DEF IncKeys, At, Goto, mountVars, SingleFlight, TypeOK, Holding, Points
  <1>10. ASSUME NEW w \in Workers, IncTags(w) PROVE SingleFlight'
    BY <1>10 DEF IncTags, At, Goto, SingleFlight, TypeOK, Holding, Points
  <1>11. ASSUME NEW w \in Workers, IncPublish(w) PROVE SingleFlight'
    BY <1>11 DEF IncPublish, At, Goto, SingleFlight, TypeOK, Holding, Points
  <1>12. ASSUME NEW w \in Workers, IncPanics(w) PROVE SingleFlight'
    BY <1>12 DEF IncPanics, At, Release, Goto, SingleFlight, TypeOK, Holding, Points
  <1>13. ASSUME NEW w \in Workers, IncStamp(w) PROVE SingleFlight'
    BY <1>13 DEF IncStamp, StampPoll, At, Release, Goto, SingleFlight, TypeOK, Holding, Points
  <1>14. ASSUME NEW w \in Workers, IncFails(w) PROVE SingleFlight'
    BY <1>14 DEF IncFails, At, Release, Goto, SingleFlight, TypeOK, Holding, Points
  <1>15. ASSUME NEW w \in Workers, ForceVersion(w) PROVE SingleFlight'
    BY <1>15 DEF ForceVersion, At, Goto, mountVars, SingleFlight, TypeOK, Holding, Points
  <1>16. ASSUME NEW w \in Workers, ForceSeq(w) PROVE SingleFlight'
    BY <1>16 DEF ForceSeq, At, Goto, mountVars, SingleFlight, TypeOK, Holding, Points
  <1>17. ASSUME NEW w \in Workers, ForceSwap(w) PROVE SingleFlight'
    BY <1>17 DEF ForceSwap, At, Goto, SingleFlight, TypeOK, Holding, Points
  <1>18. ASSUME NEW w \in Workers, GapSeq(w) PROVE SingleFlight'
    BY <1>18 DEF GapSeq, At, Goto, SingleFlight, TypeOK, Holding, Points
  <1>19. ASSUME NEW w \in Workers, FullKeys(w) PROVE SingleFlight'
    BY <1>19 DEF FullKeys, At, Goto, mountVars, SingleFlight, TypeOK, Holding, Points
  <1>20. ASSUME NEW w \in Workers, FullTags(w) PROVE SingleFlight'
    BY <1>20 DEF FullTags, At, Goto, mountVars, SingleFlight, TypeOK, Holding, Points
  <1>21. ASSUME NEW w \in Workers, FullPublish(w) PROVE SingleFlight'
    BY <1>21 DEF FullPublish, At, Goto, SingleFlight, TypeOK, Holding, Points
  <1>22. ASSUME NEW w \in Workers, FullPanics(w) PROVE SingleFlight'
    BY <1>22 DEF FullPanics, At, Release, Goto, SingleFlight, TypeOK, Holding, Points
  <1>23. ASSUME NEW w \in Workers, FullStamp(w) PROVE SingleFlight'
    BY <1>23 DEF FullStamp, StampPoll, At, Release, Goto, SingleFlight, TypeOK, Holding, Points
  <1>24. ASSUME NEW w \in Workers, ForceFails(w) PROVE SingleFlight'
    BY <1>24 DEF ForceFails, Release, Goto, SingleFlight, TypeOK, Holding, Points
  <1>25. ASSUME NEW w \in Workers, GapFails(w) PROVE SingleFlight'
    BY <1>25 DEF GapFails, At, Release, Goto, SingleFlight, TypeOK, Holding, Points
  <1>26. ASSUME NEW g \in {"interval", "backoff"}, TimeElapses(g) PROVE SingleFlight'
    BY <1>26 DEF TimeElapses, SingleFlight, TypeOK, Holding, Points
  <1>27. CASE UNCHANGED vars
    BY <1>27 DEF vars, mountVars, SingleFlight, TypeOK, Holding, Points
  <1>28. QED
    BY <1>1, <1>2, <1>3, <1>4, <1>5, <1>6, <1>7, <1>8, <1>9, <1>10, <1>11, <1>12, <1>13,
       <1>14, <1>15, <1>16, <1>17, <1>18, <1>19, <1>20, <1>21, <1>22, <1>23, <1>24, <1>25,
       <1>26, <1>27 DEF Next, Progress, Fault

\* A step that is no commit leaves the store alone.
LEMMA MountLeavesStore ==
    ASSUME [Next]_vars, ~Write
    PROVE  UNCHANGED storeVars
  BY DEF Next, vars, Progress, Fault, TimeElapses,
         PollForced, PollCurrent, PollChanged, PollReadFails, CasFails, CasWins,
         IncLog, IncKeys, IncTags, IncPublish, IncPanics, IncStamp, StampPoll, IncFails,
         ForceVersion, ForceSeq, ForceSwap, GapSeq, FullKeys, FullTags, FullPublish,
         FullPanics, FullStamp, StampPoll, ForceFails, GapFails

\* The store's own parts: only writers disturb them.
LEMMA NewestIsLoggedNext ==
    ASSUME TypeOK, NewestIsLogged, [Next]_vars
    PROVE  NewestIsLogged'
  <1>1. CASE Write
    BY <1>1, WriteStep DEF NewestIsLogged, LogStep, StoreTypeOK, TypeOK
  <1>2. CASE UNCHANGED storeVars
    BY <1>2 DEF NewestIsLogged, storeVars
  <1>3. QED
    BY <1>1, <1>2, MountLeavesStore

\* Pruning keeps the newest entries, so a logged ring never runs empty.
LEMMA RingHoldsNext ==
    ASSUME MaxTruncations = 0, TypeOK, RingHolds, [Next]_vars
    PROVE  RingHolds'
  <1>1. CASE Write
    BY <1>1, WriteStep, NoTruncation DEF RingHolds, LogStep, Write, TypeOK
  <1>2. CASE UNCHANGED storeVars
    BY <1>2 DEF RingHolds, storeVars
  <1>3. QED
    BY <1>1, <1>2, MountLeavesStore

\* The mode a job is given at the compare-and-swap or by the gap test stays
\* with it.
LEMMA ModeFitsNext ==
    ASSUME TypeOK, SingleFlight, ModeFits, [Next]_vars
    PROVE  ModeFits'
  <1>1. CASE Write
    BY <1>1 DEF Write, mountVars, ModeFits, SingleFlight, TypeOK, Holding, Points, Job,
       NoJob
  <1>2. ASSUME NEW w \in Workers, PollForced(w) PROVE ModeFits'
    BY <1>2, JobFields DEF PollForced, At, Goto, mountVars, ModeFits, SingleFlight, TypeOK,
       Holding, Points, Job, NoJob
  <1>3. ASSUME NEW w \in Workers, PollCurrent(w) PROVE ModeFits'
    BY <1>3, JobFields DEF PollCurrent, ModeFits, SingleFlight, TypeOK, Holding, Points,
       Job, NoJob
  <1>4. ASSUME NEW w \in Workers, PollChanged(w) PROVE ModeFits'
    BY <1>4, JobFields DEF PollChanged, PollReads, At, Goto, mountVars, ModeFits,
       SingleFlight, TypeOK, Holding, Points, Job, NoJob
  <1>5. ASSUME NEW w \in Workers, PollReadFails(w) PROVE ModeFits'
    BY <1>5, JobFields DEF PollReadFails, ModeFits, SingleFlight, TypeOK, Holding, Points,
       Job, NoJob
  <1>6. ASSUME NEW w \in Workers, CasFails(w) PROVE ModeFits'
    BY <1>6, JobFields DEF CasFails, Goto, mountVars, ModeFits, SingleFlight, TypeOK,
       Holding, Points, Job, NoJob
  <1>7. ASSUME NEW w \in Workers, CasWins(w) PROVE ModeFits'
    BY <1>7, JobFields DEF CasWins, At, Goto, ModeFits, SingleFlight, TypeOK, Holding,
       Points, Job, NoJob
  <1>8. ASSUME NEW w \in Workers, IncLog(w) PROVE ModeFits'
    BY <1>8, JobFields DEF IncLog, At, Goto, mountVars, ModeFits, SingleFlight, TypeOK,
       Holding, Points, Job, NoJob
  <1>9. ASSUME NEW w \in Workers, IncKeys(w) PROVE ModeFits'
    BY <1>9, JobFields DEF IncKeys, At, Goto, mountVars, ModeFits, SingleFlight, TypeOK,
       Holding, Points, Job, NoJob
  <1>10. ASSUME NEW w \in Workers, IncTags(w) PROVE ModeFits'
    BY <1>10, JobFields DEF IncTags, At, Goto, ModeFits, SingleFlight, TypeOK, Holding,
       Points, Job, NoJob
  <1>11. ASSUME NEW w \in Workers, IncPublish(w) PROVE ModeFits'
    BY <1>11, JobFields DEF IncPublish, At, Goto, ModeFits, SingleFlight, TypeOK, Holding,
       Points, Job, NoJob
  <1>12. ASSUME NEW w \in Workers, IncPanics(w) PROVE ModeFits'
    BY <1>12, JobFields DEF IncPanics, At, Release, Goto, ModeFits, SingleFlight, TypeOK,
       Holding, Points, Job, NoJob
  <1>13. ASSUME NEW w \in Workers, IncStamp(w) PROVE ModeFits'
    BY <1>13, JobFields DEF IncStamp, StampPoll, At, Release, Goto, ModeFits, SingleFlight, TypeOK,
       Holding, Points, Job, NoJob
  <1>14. ASSUME NEW w \in Workers, IncFails(w) PROVE ModeFits'
    BY <1>14, JobFields DEF IncFails, At, Release, Goto, ModeFits, SingleFlight, TypeOK,
       Holding, Points, Job, NoJob
  <1>15. ASSUME NEW w \in Workers, ForceVersion(w) PROVE ModeFits'
    BY <1>15, JobFields DEF ForceVersion, At, Goto, mountVars, ModeFits, SingleFlight,
       TypeOK, Holding, Points, Job, NoJob
  <1>16. ASSUME NEW w \in Workers, ForceSeq(w) PROVE ModeFits'
    BY <1>16, JobFields DEF ForceSeq, At, Goto, mountVars, ModeFits, SingleFlight, TypeOK,
       Holding, Points, Job, NoJob
  <1>17. ASSUME NEW w \in Workers, ForceSwap(w) PROVE ModeFits'
    BY <1>17, JobFields DEF ForceSwap, At, Goto, ModeFits, SingleFlight, TypeOK, Holding,
       Points, Job, NoJob
  <1>18. ASSUME NEW w \in Workers, GapSeq(w) PROVE ModeFits'
    BY <1>18, JobFields DEF GapSeq, At, Goto, ModeFits, SingleFlight, TypeOK, Holding,
       Points, Job, NoJob
  <1>19. ASSUME NEW w \in Workers, FullKeys(w) PROVE ModeFits'
    BY <1>19, JobFields DEF FullKeys, At, Goto, mountVars, ModeFits, SingleFlight, TypeOK,
       Holding, Points, Job, NoJob
  <1>20. ASSUME NEW w \in Workers, FullTags(w) PROVE ModeFits'
    BY <1>20, JobFields DEF FullTags, At, Goto, mountVars, ModeFits, SingleFlight, TypeOK,
       Holding, Points, Job, NoJob
  <1>21. ASSUME NEW w \in Workers, FullPublish(w) PROVE ModeFits'
    BY <1>21, JobFields DEF FullPublish, At, Goto, ModeFits, SingleFlight, TypeOK, Holding,
       Points, Job, NoJob
  <1>22. ASSUME NEW w \in Workers, FullPanics(w) PROVE ModeFits'
    BY <1>22, JobFields DEF FullPanics, At, Release, Goto, ModeFits, SingleFlight, TypeOK,
       Holding, Points, Job, NoJob
  <1>23. ASSUME NEW w \in Workers, FullStamp(w) PROVE ModeFits'
    BY <1>23, JobFields DEF FullStamp, StampPoll, At, Release, Goto, ModeFits, SingleFlight, TypeOK,
       Holding, Points, Job, NoJob
  <1>24. ASSUME NEW w \in Workers, ForceFails(w) PROVE ModeFits'
    BY <1>24, JobFields DEF ForceFails, Release, Goto, ModeFits, SingleFlight, TypeOK,
       Holding, Points, Job, NoJob
  <1>25. ASSUME NEW w \in Workers, GapFails(w) PROVE ModeFits'
    BY <1>25, JobFields DEF GapFails, At, Release, Goto, ModeFits, SingleFlight, TypeOK,
       Holding, Points, Job, NoJob
  <1>26. ASSUME NEW g \in {"interval", "backoff"}, TimeElapses(g) PROVE ModeFits'
    BY <1>26 DEF TimeElapses, ModeFits, SingleFlight, TypeOK, Holding, Points, Job, NoJob
  <1>27. CASE UNCHANGED vars
    BY <1>27 DEF vars, mountVars, ModeFits, SingleFlight, TypeOK, Holding, Points, Job,
       NoJob
  <1>28. QED
    BY <1>1, <1>2, <1>3, <1>4, <1>5, <1>6, <1>7, <1>8, <1>9, <1>10, <1>11, <1>12, <1>13,
       <1>14, <1>15, <1>16, <1>17, <1>18, <1>19, <1>20, <1>21, <1>22, <1>23, <1>24, <1>25,
       <1>26, <1>27 DEF Next, Progress, Fault

\* The changelog read decides the watermark and the changed ids together.
LEMMA WatermarkHasCauseNext ==
    ASSUME TypeOK, SingleFlight, NewestIsLogged, WatermarkHasCause, [Next]_vars
    PROVE  WatermarkHasCause'
  <1>1. CASE Write
    BY <1>1 DEF Write, mountVars, WatermarkHasCause, LogRead, SingleFlight, TypeOK, Holding,
       Points, Job
  <1>2. ASSUME NEW w \in Workers, PollForced(w) PROVE WatermarkHasCause'
    BY <1>2, JobFields DEF PollForced, At, Goto, mountVars, WatermarkHasCause, LogRead,
       SingleFlight, TypeOK, Holding, Points, Job
  <1>3. ASSUME NEW w \in Workers, PollCurrent(w) PROVE WatermarkHasCause'
    BY <1>3, JobFields DEF PollCurrent, WatermarkHasCause, LogRead, SingleFlight, TypeOK,
       Holding, Points, Job
  <1>4. ASSUME NEW w \in Workers, PollChanged(w) PROVE WatermarkHasCause'
    BY <1>4, JobFields DEF PollChanged, PollReads, At, Goto, mountVars, WatermarkHasCause,
       LogRead, SingleFlight, TypeOK, Holding, Points, Job
  <1>5. ASSUME NEW w \in Workers, PollReadFails(w) PROVE WatermarkHasCause'
    BY <1>5, JobFields DEF PollReadFails, WatermarkHasCause, LogRead, SingleFlight, TypeOK,
       Holding, Points, Job
  <1>6. ASSUME NEW w \in Workers, CasFails(w) PROVE WatermarkHasCause'
    BY <1>6, JobFields DEF CasFails, Goto, mountVars, WatermarkHasCause, LogRead,
       SingleFlight, TypeOK, Holding, Points, Job
  <1>7. ASSUME NEW w \in Workers, CasWins(w) PROVE WatermarkHasCause'
    BY <1>7, JobFields DEF CasWins, At, Goto, WatermarkHasCause, LogRead, SingleFlight,
       TypeOK, Holding, Points, Job
  <1>8. ASSUME NEW w \in Workers, IncLog(w) PROVE WatermarkHasCause'
    <2>1. StoreTypeOK /\ last_seq \in Nat /\ job \in Job
      BY DEF TypeOK
    <2>2. MaxRetainedSeq \in Nat /\ (MaxRetainedSeq > last_seq => ChangedSince(last_seq) # {})
      BY <2>1 DEF MaxRetainedSeq, RingEmpty, StoreTypeOK, NewestIsLogged, ChangedSince
    <2>3. /\ job'.changed_ids = ChangedSince(last_seq)
          /\ job'.new_seq = IF MaxRetainedSeq > last_seq THEN MaxRetainedSeq ELSE last_seq
          /\ last_seq' = last_seq
      BY <1>8, <2>1 DEF IncLog, Job, mountVars
    <2>4. QED
      BY <2>1, <2>2, <2>3 DEF WatermarkHasCause
  <1>9. ASSUME NEW w \in Workers, IncKeys(w) PROVE WatermarkHasCause'
    BY <1>9, JobFields DEF IncKeys, At, Goto, mountVars, WatermarkHasCause, LogRead,
       SingleFlight, TypeOK, Holding, Points, Job
  <1>10. ASSUME NEW w \in Workers, IncTags(w) PROVE WatermarkHasCause'
    BY <1>10, JobFields DEF IncTags, At, Goto, WatermarkHasCause, LogRead, SingleFlight,
       TypeOK, Holding, Points, Job
  <1>11. ASSUME NEW w \in Workers, IncPublish(w) PROVE WatermarkHasCause'
    BY <1>11, JobFields DEF IncPublish, At, Goto, WatermarkHasCause, LogRead, SingleFlight,
       TypeOK, Holding, Points, Job
  <1>12. ASSUME NEW w \in Workers, IncPanics(w) PROVE WatermarkHasCause'
    BY <1>12, JobFields DEF IncPanics, At, Release, Goto, WatermarkHasCause, LogRead,
       SingleFlight, TypeOK, Holding, Points, Job
  <1>13. ASSUME NEW w \in Workers, IncStamp(w) PROVE WatermarkHasCause'
    BY <1>13, JobFields DEF IncStamp, StampPoll, At, Release, Goto, WatermarkHasCause, LogRead,
       SingleFlight, TypeOK, Holding, Points, Job
  <1>14. ASSUME NEW w \in Workers, IncFails(w) PROVE WatermarkHasCause'
    BY <1>14, JobFields DEF IncFails, At, Release, Goto, WatermarkHasCause, LogRead,
       SingleFlight, TypeOK, Holding, Points, Job
  <1>15. ASSUME NEW w \in Workers, ForceVersion(w) PROVE WatermarkHasCause'
    BY <1>15, JobFields DEF ForceVersion, At, Goto, mountVars, WatermarkHasCause, LogRead,
       SingleFlight, TypeOK, Holding, Points, Job
  <1>16. ASSUME NEW w \in Workers, ForceSeq(w) PROVE WatermarkHasCause'
    BY <1>16, JobFields DEF ForceSeq, At, Goto, mountVars, WatermarkHasCause, LogRead,
       SingleFlight, TypeOK, Holding, Points, Job
  <1>17. ASSUME NEW w \in Workers, ForceSwap(w) PROVE WatermarkHasCause'
    BY <1>17, JobFields DEF ForceSwap, At, Goto, WatermarkHasCause, LogRead, SingleFlight,
       TypeOK, Holding, Points, Job
  <1>18. ASSUME NEW w \in Workers, GapSeq(w) PROVE WatermarkHasCause'
    BY <1>18, JobFields DEF GapSeq, At, Goto, WatermarkHasCause, LogRead, SingleFlight,
       TypeOK, Holding, Points, Job
  <1>19. ASSUME NEW w \in Workers, FullKeys(w) PROVE WatermarkHasCause'
    BY <1>19, JobFields DEF FullKeys, At, Goto, mountVars, WatermarkHasCause, LogRead,
       SingleFlight, TypeOK, Holding, Points, Job
  <1>20. ASSUME NEW w \in Workers, FullTags(w) PROVE WatermarkHasCause'
    BY <1>20, JobFields DEF FullTags, At, Goto, mountVars, WatermarkHasCause, LogRead,
       SingleFlight, TypeOK, Holding, Points, Job
  <1>21. ASSUME NEW w \in Workers, FullPublish(w) PROVE WatermarkHasCause'
    BY <1>21, JobFields DEF FullPublish, At, Goto, WatermarkHasCause, LogRead, SingleFlight,
       TypeOK, Holding, Points, Job
  <1>22. ASSUME NEW w \in Workers, FullPanics(w) PROVE WatermarkHasCause'
    BY <1>22, JobFields DEF FullPanics, At, Release, Goto, WatermarkHasCause, LogRead,
       SingleFlight, TypeOK, Holding, Points, Job
  <1>23. ASSUME NEW w \in Workers, FullStamp(w) PROVE WatermarkHasCause'
    BY <1>23, JobFields DEF FullStamp, StampPoll, At, Release, Goto, WatermarkHasCause, LogRead,
       SingleFlight, TypeOK, Holding, Points, Job
  <1>24. ASSUME NEW w \in Workers, ForceFails(w) PROVE WatermarkHasCause'
    BY <1>24, JobFields DEF ForceFails, Release, Goto, WatermarkHasCause, LogRead,
       SingleFlight, TypeOK, Holding, Points, Job
  <1>25. ASSUME NEW w \in Workers, GapFails(w) PROVE WatermarkHasCause'
    BY <1>25, JobFields DEF GapFails, At, Release, Goto, WatermarkHasCause, LogRead,
       SingleFlight, TypeOK, Holding, Points, Job
  <1>26. ASSUME NEW g \in {"interval", "backoff"}, TimeElapses(g) PROVE WatermarkHasCause'
    BY <1>26 DEF TimeElapses, WatermarkHasCause, LogRead, SingleFlight, TypeOK, Holding,
       Points, Job
  <1>27. CASE UNCHANGED vars
    BY <1>27 DEF vars, mountVars, WatermarkHasCause, LogRead, SingleFlight, TypeOK, Holding,
       Points, Job
  <1>28. QED
    BY <1>1, <1>2, <1>3, <1>4, <1>5, <1>6, <1>7, <1>8, <1>9, <1>10, <1>11, <1>12, <1>13,
       <1>14, <1>15, <1>16, <1>17, <1>18, <1>19, <1>20, <1>21, <1>22, <1>23, <1>24, <1>25,
       <1>26, <1>27 DEF Next, Progress, Fault

\* What the reads of a poll return is sound when it is read.
LEMMA NoneSound ==
    ASSUME NEW r, NEW top
    PROVE  KeySound(None, r, top) /\ StateSound(None, r, top)
  BY DEF KeySound, StateSound

\* A key read from a row is true of it.
LEMMA KeySoundNow ==
    ASSUME NEW r \in Row \cup {None}, NEW top \in Nat, r # None => r.life <= top
    PROVE  KeySound(KeyOf(r), r, top)
  BY DEF KeySound, KeyOf, Row

\* Tags read after the key may be newer than it, and are then of a newer row.
LEMMA RenderSound ==
    ASSUME NEW r \in Row \cup {None}, NEW top \in Nat, NEW k \in RenderKey \cup {None},
           KeySound(k, r, top)
    PROVE  StateSound(render_one(k, TagsOf(r)), r, top)
  <1>1. CASE k = None \/ TagsOf(r) \in Skipped
    BY <1>1, NoneSound DEF render_one
  <1>2. CASE ~(k = None \/ TagsOf(r) \in Skipped)
    <2> DEFINE s == render_one(k, TagsOf(r))
    <2>1. /\ s.content_version = k.content_version /\ s.format = k.format
          /\ s.life = k.life /\ s.path = <<k.format, TagsOf(r)>>
      BY <1>2 DEF render_one
    <2>2. r # None => TagsOf(r) = r.tags
      BY DEF TagsOf
    <2> HIDE DEF s
    <2>3. KeySound(s, r, top)
      BY <1>2, <2>1 DEF KeySound
    <2>4. StateSound(s, r, top)
      BY <1>2, <2>1, <2>2, <2>3 DEF StateSound
    <2>5. QED
      BY <2>4 DEF s
  <1>3. QED
    BY <1>1, <1>2

\* Phase 4 puts sound states in the place of sound states.
LEMMA MutatedSound ==
    ASSUME Sound
    PROVE  \A id \in Ids : StateSound(MutatedSnapshot[id], rows[id], seq)
  BY DEF Sound, MutatedSnapshot

\* Sound speaks of the store, the snapshot and the job alone.
LEMMA SoundFrame ==
    ASSUME Sound, UNCHANGED <<storeVars, snapshot>>,
           job'.keys = job.keys, job'.states = job.states
    PROVE  Sound'
  BY DEF Sound, storeVars, Live

\* Dropping the job keeps what is left sound.
LEMMA SoundRelease ==
    ASSUME Sound, UNCHANGED storeVars, job' = NoJob,
           \A id \in Ids : StateSound(snapshot'[id], rows[id], seq)
    PROVE  Sound'
  <1>1. \A id \in Ids : job'.keys[id] = None /\ job'.states[id] = None
    BY DEF NoJob, NoKeys
  <1>2. QED
    BY <1>1, NoneSound DEF Sound, storeVars, Live

\* The same for the keys of all tracks.
LEMMA KeysNow ==
    ASSUME TypeOK, Sound
    PROVE  \A id \in Ids : KeySound(KeyOf(rows[id]), rows[id], seq)
  BY KeySoundNow DEF TypeOK, StoreTypeOK, Sound, Live

\* The same for the states a job renders.
LEMMA RendersNow ==
    ASSUME TypeOK, Sound
    PROVE  \A id \in Ids : StateSound(render_one(job.keys[id], TagsOf(rows[id])), rows[id], seq)
  BY RenderSound, JobFields DEF TypeOK, StoreTypeOK, Sound

\* Every step keeps what was read true of the past of the rows.
LEMMA SoundNext ==
    ASSUME TypeOK, Sound, [Next]_vars
    PROVE  Sound'
  <1>1. CASE Write
    <2>1. /\ StoreTypeOK /\ StoreTypeOK' /\ LogStep /\ \A id \in Ids : RowStep(id)
          /\ UNCHANGED <<snapshot, job>>
      BY <1>1, WriteStep DEF TypeOK, mountVars
    <2>2. ASSUME NEW id \in Ids
          PROVE  /\ StateSound(snapshot[id], rows'[id], seq')
                 /\ KeySound(job.keys[id], rows'[id], seq')
                 /\ StateSound(job.states[id], rows'[id], seq')
      BY <2>1, StateSoundStep, KeySoundStep, JobFields DEF TypeOK, Sound
    <2>3. ASSUME NEW id \in Ids, rows'[id] # None
          PROVE  rows'[id].life <= seq'
      BY <2>1, <2>3 DEF RowStep, LogStep, StoreTypeOK, Row, Sound, Live
    <2>4. QED
      BY <2>1, <2>2, <2>3 DEF Sound, Live
  <1>2. ASSUME NEW w \in Workers, PollForced(w) PROVE Sound'
    <2>1. UNCHANGED <<storeVars, snapshot>> /\ job'.keys = job.keys /\ job'.states = job.states
      BY <1>2 DEF PollForced, Job, TypeOK, mountVars
    <2>2. QED
      BY <2>1, SoundFrame
  <1>3. ASSUME NEW w \in Workers, PollCurrent(w) PROVE Sound'
    <2>1. UNCHANGED <<storeVars, snapshot>> /\ job'.keys = job.keys /\ job'.states = job.states
      BY <1>3 DEF PollCurrent, Job, TypeOK, mountVars
    <2>2. QED
      BY <2>1, SoundFrame
  <1>4. ASSUME NEW w \in Workers, PollChanged(w) PROVE Sound'
    <2>1. UNCHANGED <<storeVars, snapshot>> /\ job'.keys = job.keys /\ job'.states = job.states
      BY <1>4 DEF PollChanged, Job, TypeOK, mountVars
    <2>2. QED
      BY <2>1, SoundFrame
  <1>5. ASSUME NEW w \in Workers, PollReadFails(w) PROVE Sound'
    <2>1. UNCHANGED <<storeVars, snapshot>> /\ job'.keys = job.keys /\ job'.states = job.states
      BY <1>5 DEF PollReadFails, Job, TypeOK, mountVars
    <2>2. QED
      BY <2>1, SoundFrame
  <1>6. ASSUME NEW w \in Workers, CasFails(w) PROVE Sound'
    <2>1. UNCHANGED <<storeVars, snapshot>> /\ job'.keys = job.keys /\ job'.states = job.states
      BY <1>6 DEF CasFails, Job, TypeOK, mountVars
    <2>2. QED
      BY <2>1, SoundFrame
  <1>7. ASSUME NEW w \in Workers, CasWins(w) PROVE Sound'
    <2>1. job'.keys = NoKeys /\ job'.states = NoKeys /\ UNCHANGED <<storeVars, snapshot>>
      BY <1>7 DEF CasWins, NoJob
    <2>2. \A id \in Ids : job'.keys[id] = None /\ job'.states[id] = None
      BY <2>1 DEF NoKeys
    <2>3. QED
      BY <2>1, <2>2, NoneSound DEF Sound, storeVars, Live
  <1>8. ASSUME NEW w \in Workers, IncLog(w) PROVE Sound'
    <2>1. UNCHANGED <<storeVars, snapshot>> /\ job'.keys = job.keys /\ job'.states = job.states
      BY <1>8 DEF IncLog, Job, TypeOK, mountVars
    <2>2. QED
      BY <2>1, SoundFrame
  <1>9. ASSUME NEW w \in Workers, IncKeys(w) PROVE Sound'
    <2>1. /\ UNCHANGED <<storeVars, snapshot>> /\ job'.states = job.states
          /\ \A id \in Ids : job'.keys[id] \in {None, KeyOf(rows[id])}
      BY <1>9 DEF IncKeys, mountVars, Job, TypeOK, NoKeys
    <2>2. \A id \in Ids : KeySound(job'.keys[id], rows[id], seq)
      BY <2>1, NoneSound, KeysNow
    <2>3. QED
      BY <2>1, <2>2 DEF Sound, storeVars, Live
  <1>10. ASSUME NEW w \in Workers, IncTags(w) PROVE Sound'
    <2>1. /\ UNCHANGED <<storeVars, snapshot>> /\ job'.keys = job.keys
          /\ \A id \in Ids : job'.states[id] \in {None, render_one(job.keys[id], TagsOf(rows[id]))}
      BY <1>10 DEF IncTags, Job, TypeOK
    <2>2. \A id \in Ids : StateSound(job'.states[id], rows[id], seq)
      BY <2>1, NoneSound, RendersNow
    <2>3. QED
      BY <2>1, <2>2 DEF Sound, storeVars, Live
  <1>11. ASSUME NEW w \in Workers, IncPublish(w) PROVE Sound'
    <2>1. UNCHANGED <<storeVars, job>> /\ snapshot' = MutatedSnapshot
      BY <1>11 DEF IncPublish
    <2>2. QED
      BY <2>1, MutatedSound DEF Sound, storeVars, Live
  <1>12. ASSUME NEW w \in Workers, IncPanics(w) PROVE Sound'
    <2>1. UNCHANGED storeVars /\ job' = NoJob /\ snapshot' = MutatedSnapshot
      BY <1>12 DEF IncPanics, Release
    <2>2. QED
      BY <2>1, MutatedSound, SoundRelease
  <1>13. ASSUME NEW w \in Workers, IncStamp(w) PROVE Sound'
    <2>1. UNCHANGED <<storeVars, snapshot>> /\ job' = NoJob
      BY <1>13 DEF IncStamp, StampPoll, Release
    <2>2. \A id \in Ids : StateSound(snapshot'[id], rows[id], seq)
      BY <2>1 DEF Sound
    <2>3. QED
      BY <2>1, <2>2, SoundRelease
  <1>14. ASSUME NEW w \in Workers, IncFails(w) PROVE Sound'
    <2>1. UNCHANGED <<storeVars, snapshot>> /\ job' = NoJob
      BY <1>14 DEF IncFails, Release
    <2>2. \A id \in Ids : StateSound(snapshot'[id], rows[id], seq)
      BY <2>1 DEF Sound
    <2>3. QED
      BY <2>1, <2>2, SoundRelease
  <1>15. ASSUME NEW w \in Workers, ForceVersion(w) PROVE Sound'
    <2>1. UNCHANGED <<storeVars, snapshot>> /\ job'.keys = job.keys /\ job'.states = job.states
      BY <1>15 DEF ForceVersion, Job, TypeOK, mountVars
    <2>2. QED
      BY <2>1, SoundFrame
  <1>16. ASSUME NEW w \in Workers, ForceSeq(w) PROVE Sound'
    <2>1. UNCHANGED <<storeVars, snapshot>> /\ job'.keys = job.keys /\ job'.states = job.states
      BY <1>16 DEF ForceSeq, Job, TypeOK, mountVars
    <2>2. QED
      BY <2>1, SoundFrame
  <1>17. ASSUME NEW w \in Workers, ForceSwap(w) PROVE Sound'
    <2>1. UNCHANGED <<storeVars, snapshot>> /\ job'.keys = job.keys /\ job'.states = job.states
      BY <1>17 DEF ForceSwap, Job, TypeOK, mountVars
    <2>2. QED
      BY <2>1, SoundFrame
  <1>18. ASSUME NEW w \in Workers, GapSeq(w) PROVE Sound'
    <2>1. UNCHANGED <<storeVars, snapshot>> /\ job'.keys = job.keys /\ job'.states = job.states
      BY <1>18 DEF GapSeq, Job, TypeOK, mountVars
    <2>2. QED
      BY <2>1, SoundFrame
  <1>19. ASSUME NEW w \in Workers, FullKeys(w) PROVE Sound'
    <2>1. /\ UNCHANGED <<storeVars, snapshot>> /\ job'.states = job.states
          /\ \A id \in Ids : job'.keys[id] = KeyOf(rows[id])
      BY <1>19 DEF FullKeys, mountVars, Job, TypeOK
    <2>2. \A id \in Ids : KeySound(job'.keys[id], rows[id], seq)
      BY <2>1, KeysNow
    <2>3. QED
      BY <2>1, <2>2 DEF Sound, storeVars, Live
  <1>20. ASSUME NEW w \in Workers, FullTags(w) PROVE Sound'
    <2>1. /\ UNCHANGED <<storeVars, snapshot>> /\ job'.keys = job.keys
          /\ \A id \in Ids : job'.states[id] = render_one(job.keys[id], TagsOf(rows[id]))
      BY <1>20 DEF FullTags, mountVars, Job, TypeOK
    <2>2. \A id \in Ids : StateSound(job'.states[id], rows[id], seq)
      BY <2>1, RendersNow
    <2>3. QED
      BY <2>1, <2>2 DEF Sound, storeVars, Live
  <1>21. ASSUME NEW w \in Workers, FullPublish(w) PROVE Sound'
    <2>1. UNCHANGED <<storeVars, snapshot>> /\ job'.keys = job.keys /\ job'.states = job.states
      BY <1>21 DEF FullPublish, Job, TypeOK, mountVars
    <2>2. QED
      BY <2>1, SoundFrame
  <1>22. ASSUME NEW w \in Workers, FullPanics(w) PROVE Sound'
    <2>1. UNCHANGED <<storeVars, snapshot>> /\ job' = NoJob
      BY <1>22 DEF FullPanics, Release
    <2>2. \A id \in Ids : StateSound(snapshot'[id], rows[id], seq)
      BY <2>1 DEF Sound
    <2>3. QED
      BY <2>1, <2>2, SoundRelease
  <1>23. ASSUME NEW w \in Workers, FullStamp(w) PROVE Sound'
    <2>1. UNCHANGED storeVars /\ job' = NoJob /\ snapshot' = job.states
      BY <1>23 DEF FullStamp, StampPoll, Release
    <2>2. \A id \in Ids : StateSound(snapshot'[id], rows[id], seq)
      BY <2>1 DEF Sound
    <2>3. QED
      BY <2>1, <2>2, SoundRelease
  <1>24. ASSUME NEW w \in Workers, ForceFails(w) PROVE Sound'
    <2>1. UNCHANGED <<storeVars, snapshot>> /\ job' = NoJob
      BY <1>24 DEF ForceFails, Release
    <2>2. \A id \in Ids : StateSound(snapshot'[id], rows[id], seq)
      BY <2>1 DEF Sound
    <2>3. QED
      BY <2>1, <2>2, SoundRelease
  <1>25. ASSUME NEW w \in Workers, GapFails(w) PROVE Sound'
    <2>1. UNCHANGED <<storeVars, snapshot>> /\ job' = NoJob
      BY <1>25 DEF GapFails, Release
    <2>2. \A id \in Ids : StateSound(snapshot'[id], rows[id], seq)
      BY <2>1 DEF Sound
    <2>3. QED
      BY <2>1, <2>2, SoundRelease
  <1>26. ASSUME NEW g \in {"interval", "backoff"}, TimeElapses(g) PROVE Sound'
    BY <1>26 DEF TimeElapses, Sound, storeVars, Live
  <1>27. CASE UNCHANGED vars
    BY <1>27 DEF vars, mountVars, Sound, storeVars, Live
  <1>28. QED
    BY <1>1, <1>2, <1>3, <1>4, <1>5, <1>6, <1>7, <1>8, <1>9, <1>10, <1>11, <1>12, <1>13,
       <1>14, <1>15, <1>16, <1>17, <1>18, <1>19, <1>20, <1>21, <1>22, <1>23, <1>24, <1>25,
       <1>26, <1>27 DEF Next, Progress, Fault

\* Nothing empties the ring, so the newest retained seq is the newest one.
LEMMA RingReads ==
    ASSUME TypeOK, RingHolds
    PROVE  MaxRetainedSeq = seq /\ MinSeq = floor + 1 /\ seq > 0
  BY DEF TypeOK, StoreTypeOK, RingHolds, MaxRetainedSeq, MinSeq, RingEmpty

\* Every step keeps the stamped data_version no newer than the watermark
\* stamped with it.
LEMMA VersionBehindNext ==
    ASSUME TypeOK, SingleFlight, WatermarkHasCause, WatermarkBehind, VersionBehind,
           RingHolds, [Next]_vars
    PROVE  VersionBehind'
  <1>1. CASE Write
    <2>1. /\ StoreTypeOK /\ StoreTypeOK' /\ LogStep
          /\ UNCHANGED <<last_seq, last_data_version, pc, version, job>>
      BY <1>1, WriteStep DEF TypeOK, mountVars
    <2>2. job.new_seq \in Nat /\ last_seq \in Nat /\ last_data_version \in Nat
          /\ \A w \in Workers : version[w] \in Nat
      BY JobFields DEF TypeOK
    <2>3. QED
      BY <2>1, <2>2 DEF VersionBehind, LogStep, StoreTypeOK
  <1>2. ASSUME NEW w \in Workers, PollForced(w) PROVE VersionBehind'
    BY <1>2, JobFields DEF PollForced, At, Goto, mountVars, VersionBehind, SingleFlight,
       TypeOK, StoreTypeOK, Holding, Points, LogRead, SeqRead, storeVars
  <1>3. ASSUME NEW w \in Workers, PollCurrent(w) PROVE VersionBehind'
    BY <1>3, JobFields DEF PollCurrent, VersionBehind, SingleFlight, TypeOK, StoreTypeOK,
       Holding, Points, LogRead, SeqRead, storeVars
  <1>4. ASSUME NEW w \in Workers, PollChanged(w) PROVE VersionBehind'
    BY <1>4, JobFields DEF PollChanged, PollReads, At, Goto, mountVars, VersionBehind,
       SingleFlight, TypeOK, StoreTypeOK, Holding, Points, LogRead, SeqRead, storeVars
  <1>5. ASSUME NEW w \in Workers, PollReadFails(w) PROVE VersionBehind'
    BY <1>5, JobFields DEF PollReadFails, VersionBehind, SingleFlight, TypeOK, StoreTypeOK,
       Holding, Points, LogRead, SeqRead, storeVars
  <1>6. ASSUME NEW w \in Workers, CasFails(w) PROVE VersionBehind'
    BY <1>6, JobFields DEF CasFails, Goto, mountVars, VersionBehind, SingleFlight, TypeOK,
       StoreTypeOK, Holding, Points, LogRead, SeqRead, storeVars
  <1>7. ASSUME NEW w \in Workers, CasWins(w) PROVE VersionBehind'
    BY <1>7, JobFields DEF CasWins, At, Goto, VersionBehind, SingleFlight, TypeOK,
       StoreTypeOK, Holding, Points, LogRead, SeqRead, storeVars
  <1>8. ASSUME NEW w \in Workers, IncLog(w) PROVE VersionBehind'
    <2>1. job'.new_seq = seq
      <3>1. last_seq <= seq /\ last_seq \in Nat /\ seq \in Nat
        BY DEF TypeOK, StoreTypeOK, WatermarkBehind
      <3>2. job'.new_seq = IF MaxRetainedSeq > last_seq THEN MaxRetainedSeq ELSE last_seq
        BY <1>8 DEF IncLog, Job, TypeOK
      <3>3. QED
        BY <3>1, <3>2, RingReads
    <2>2. QED
      BY <1>8, <2>1 DEF IncLog, At, Goto, mountVars, VersionBehind, SingleFlight, TypeOK,
       StoreTypeOK, Holding, Points, LogRead, SeqRead, storeVars
  <1>9. ASSUME NEW w \in Workers, IncKeys(w) PROVE VersionBehind'
    <2>1. job'.new_seq = job.new_seq
      BY <1>9 DEF IncKeys, Job, TypeOK
    <2>2. QED
      BY <1>9, <2>1, JobFields DEF IncKeys, At, Goto, mountVars, WatermarkHasCause,
       VersionBehind, SingleFlight, TypeOK, StoreTypeOK, Holding, Points, LogRead, SeqRead,
       storeVars
  <1>10. ASSUME NEW w \in Workers, IncTags(w) PROVE VersionBehind'
    <2>1. job'.new_seq = job.new_seq
      BY <1>10 DEF IncTags, Job, TypeOK
    <2>2. QED
      BY <1>10, <2>1, JobFields DEF IncTags, At, Goto, mountVars, VersionBehind,
       SingleFlight, TypeOK, StoreTypeOK, Holding, Points, LogRead, SeqRead, storeVars
  <1>11. ASSUME NEW w \in Workers, IncPublish(w) PROVE VersionBehind'
    BY <1>11, JobFields DEF IncPublish, At, Goto, VersionBehind, SingleFlight, TypeOK,
       StoreTypeOK, Holding, Points, LogRead, SeqRead, storeVars
  <1>12. ASSUME NEW w \in Workers, IncPanics(w) PROVE VersionBehind'
    BY <1>12, JobFields DEF IncPanics, At, Release, Goto, VersionBehind, SingleFlight,
       TypeOK, StoreTypeOK, Holding, Points, LogRead, SeqRead, storeVars
  <1>13. ASSUME NEW w \in Workers, IncStamp(w) PROVE VersionBehind'
    BY <1>13, JobFields DEF IncStamp, StampPoll, At, Release, Goto, VersionBehind, SingleFlight,
       TypeOK, StoreTypeOK, Holding, Points, LogRead, SeqRead, storeVars
  <1>14. ASSUME NEW w \in Workers, IncFails(w) PROVE VersionBehind'
    BY <1>14, JobFields DEF IncFails, At, Release, Goto, VersionBehind, SingleFlight,
       TypeOK, StoreTypeOK, Holding, Points, LogRead, SeqRead, storeVars
  <1>15. ASSUME NEW w \in Workers, ForceVersion(w) PROVE VersionBehind'
    BY <1>15, JobFields DEF ForceVersion, At, Goto, mountVars, VersionBehind, SingleFlight,
       TypeOK, StoreTypeOK, Holding, Points, LogRead, SeqRead, storeVars
  <1>16. ASSUME NEW w \in Workers, ForceSeq(w) PROVE VersionBehind'
    <2>1. job'.new_seq = seq /\ last_seq <= seq
      BY <1>16, RingReads DEF ForceSeq, Job, TypeOK, WatermarkBehind
    <2>2. QED
      BY <1>16, <2>1 DEF ForceSeq, At, Goto, mountVars, VersionBehind, SingleFlight, TypeOK,
       StoreTypeOK, Holding, Points, LogRead, SeqRead, storeVars
  <1>17. ASSUME NEW w \in Workers, ForceSwap(w) PROVE VersionBehind'
    <2>1. job'.new_seq = job.new_seq
      BY <1>17 DEF ForceSwap, Job, TypeOK
    <2>2. QED
      BY <1>17, <2>1, JobFields DEF ForceSwap, At, Goto, mountVars, VersionBehind,
       SingleFlight, TypeOK, StoreTypeOK, Holding, Points, LogRead, SeqRead, storeVars
  <1>18. ASSUME NEW w \in Workers, GapSeq(w) PROVE VersionBehind'
    <2>1. job'.new_seq = seq /\ last_seq <= seq
      BY <1>18, RingReads DEF GapSeq, Job, TypeOK, WatermarkBehind
    <2>2. QED
      BY <1>18, <2>1 DEF GapSeq, At, Goto, mountVars, VersionBehind, SingleFlight, TypeOK,
       StoreTypeOK, Holding, Points, LogRead, SeqRead, storeVars
  <1>19. ASSUME NEW w \in Workers, FullKeys(w) PROVE VersionBehind'
    <2>1. job'.new_seq = job.new_seq
      BY <1>19 DEF FullKeys, Job, TypeOK
    <2>2. QED
      BY <1>19, <2>1, JobFields DEF FullKeys, At, Goto, mountVars, VersionBehind,
       SingleFlight, TypeOK, StoreTypeOK, Holding, Points, LogRead, SeqRead, storeVars
  <1>20. ASSUME NEW w \in Workers, FullTags(w) PROVE VersionBehind'
    <2>1. job'.new_seq = job.new_seq
      BY <1>20 DEF FullTags, Job, TypeOK
    <2>2. QED
      BY <1>20, <2>1, JobFields DEF FullTags, At, Goto, mountVars, VersionBehind,
       SingleFlight, TypeOK, StoreTypeOK, Holding, Points, LogRead, SeqRead, storeVars
  <1>21. ASSUME NEW w \in Workers, FullPublish(w) PROVE VersionBehind'
    BY <1>21, JobFields DEF FullPublish, At, Goto, VersionBehind, SingleFlight, TypeOK,
       StoreTypeOK, Holding, Points, LogRead, SeqRead, storeVars
  <1>22. ASSUME NEW w \in Workers, FullPanics(w) PROVE VersionBehind'
    BY <1>22, JobFields DEF FullPanics, At, Release, Goto, VersionBehind, SingleFlight,
       TypeOK, StoreTypeOK, Holding, Points, LogRead, SeqRead, storeVars
  <1>23. ASSUME NEW w \in Workers, FullStamp(w) PROVE VersionBehind'
    BY <1>23, JobFields DEF FullStamp, StampPoll, At, Release, Goto, VersionBehind, SingleFlight,
       TypeOK, StoreTypeOK, Holding, Points, LogRead, SeqRead, storeVars
  <1>24. ASSUME NEW w \in Workers, ForceFails(w) PROVE VersionBehind'
    BY <1>24, JobFields DEF ForceFails, Release, Goto, VersionBehind, SingleFlight, TypeOK,
       StoreTypeOK, Holding, Points, LogRead, SeqRead, storeVars
  <1>25. ASSUME NEW w \in Workers, GapFails(w) PROVE VersionBehind'
    BY <1>25, JobFields DEF GapFails, At, Release, Goto, VersionBehind, SingleFlight,
       TypeOK, StoreTypeOK, Holding, Points, LogRead, SeqRead, storeVars
  <1>26. ASSUME NEW g \in {"interval", "backoff"}, TimeElapses(g) PROVE VersionBehind'
    BY <1>26 DEF TimeElapses, VersionBehind, SingleFlight, TypeOK, StoreTypeOK, Holding,
       Points, LogRead, SeqRead, storeVars
  <1>27. CASE UNCHANGED vars
    BY <1>27 DEF vars, mountVars, VersionBehind, SingleFlight, TypeOK, StoreTypeOK, Holding,
       Points, LogRead, SeqRead, storeVars
  <1>28. QED
    BY <1>1, <1>2, <1>3, <1>4, <1>5, <1>6, <1>7, <1>8, <1>9, <1>10, <1>11, <1>12, <1>13,
       <1>14, <1>15, <1>16, <1>17, <1>18, <1>19, <1>20, <1>21, <1>22, <1>23, <1>24, <1>25,
       <1>26, <1>27 DEF Next, Progress, Fault

\* A tree that does not show the snapshot is remembered by a flag, a poisoned
\* lock or the rebuild in progress, through failures and panics.
LEMMA TreeFlaggedNext ==
    ASSUME TypeOK, SingleFlight, ModeFits, TreeFlagged, [Next]_vars
    PROVE  TreeFlagged'
  <1>1. CASE Write
    BY <1>1 DEF Write, mountVars, TreeFlagged, SingleFlight, TypeOK, Holding, Points,
       LockOrFlag, ModeFits, Rearm, Paths_of, Job
  <1>2. ASSUME NEW w \in Workers, PollForced(w) PROVE TreeFlagged'
    BY <1>2 DEF PollForced, At, Goto, mountVars, TreeFlagged, SingleFlight, TypeOK, Holding,
       Points, LockOrFlag, ModeFits, Rearm, Paths_of, Job
  <1>3. ASSUME NEW w \in Workers, PollCurrent(w) PROVE TreeFlagged'
    BY <1>3 DEF PollCurrent, TreeFlagged, SingleFlight, TypeOK, Holding, Points, LockOrFlag,
       ModeFits, Rearm, Paths_of, Job
  <1>4. ASSUME NEW w \in Workers, PollChanged(w) PROVE TreeFlagged'
    BY <1>4 DEF PollChanged, PollReads, At, Goto, mountVars, TreeFlagged, SingleFlight,
       TypeOK, Holding, Points, LockOrFlag, ModeFits, Rearm, Paths_of, Job
  <1>5. ASSUME NEW w \in Workers, PollReadFails(w) PROVE TreeFlagged'
    BY <1>5 DEF PollReadFails, TreeFlagged, SingleFlight, TypeOK, Holding, Points,
       LockOrFlag, ModeFits, Rearm, Paths_of, Job
  <1>6. ASSUME NEW w \in Workers, CasFails(w) PROVE TreeFlagged'
    BY <1>6 DEF CasFails, Goto, mountVars, TreeFlagged, SingleFlight, TypeOK, Holding,
       Points, LockOrFlag, ModeFits, Rearm, Paths_of, Job
  <1>7. ASSUME NEW w \in Workers, CasWins(w) PROVE TreeFlagged'
    BY <1>7 DEF CasWins, At, Goto, TreeFlagged, SingleFlight, TypeOK, Holding, Points,
       LockOrFlag, ModeFits, Rearm, Paths_of, Job
  <1>8. ASSUME NEW w \in Workers, IncLog(w) PROVE TreeFlagged'
    BY <1>8 DEF IncLog, At, Goto, mountVars, TreeFlagged, SingleFlight, TypeOK, Holding,
       Points, LockOrFlag, ModeFits, Rearm, Paths_of, Job
  <1>9. ASSUME NEW w \in Workers, IncKeys(w) PROVE TreeFlagged'
    BY <1>9 DEF IncKeys, At, Goto, mountVars, TreeFlagged, SingleFlight, TypeOK, Holding,
       Points, LockOrFlag, ModeFits, Rearm, Paths_of, Job
  <1>10. ASSUME NEW w \in Workers, IncTags(w) PROVE TreeFlagged'
    BY <1>10 DEF IncTags, At, Goto, TreeFlagged, SingleFlight, TypeOK, Holding, Points,
       LockOrFlag, ModeFits, Rearm, Paths_of, Job
  <1>11. ASSUME NEW w \in Workers, IncPublish(w) PROVE TreeFlagged'
    <2>1. CASE tree = Paths_of(snapshot)
      <3>1. tree' = Paths_of(MutatedSnapshot)
        <4>1. [id \in Ids |-> IF id \in Touched THEN Paths_of(job.states)[id] ELSE tree[id]]
                = Paths_of(MutatedSnapshot)
          BY <2>1 DEF Paths_of, MutatedSnapshot
        <4>2. QED
          BY <1>11, <4>1 DEF IncPublish
      <3>2. tree' = Paths_of(snapshot')
        BY <1>11, <3>1 DEF IncPublish
      <3>3. Paths_of(snapshot') = Paths_of(snapshot)'
        BY DEF Paths_of
      <3>4. QED
        BY <1>11, <3>2, <3>3 DEF IncPublish, At, Goto, TreeFlagged, SingleFlight, TypeOK,
       Holding
    <2>2. CASE tree # Paths_of(snapshot)
      <3>1. needs_rebuild \/ poisoned # {}
        BY <1>11, <2>2 DEF TreeFlagged, IncPublish, At, SingleFlight, Holding
      <3>2. needs_rebuild'
        BY <1>11, <3>1 DEF IncPublish, LockOrFlag, TypeOK
      <3>3. QED
        BY <1>11, <3>2 DEF IncPublish, At, Goto, TreeFlagged, SingleFlight, TypeOK, Holding
    <2>3. QED
      BY <2>1, <2>2
  <1>12. ASSUME NEW w \in Workers, IncPanics(w) PROVE TreeFlagged'
    BY <1>12 DEF IncPanics, At, Release, Goto, TreeFlagged, SingleFlight, TypeOK, Holding,
       Points, LockOrFlag, ModeFits, Rearm, Paths_of, Job
  <1>13. ASSUME NEW w \in Workers, IncStamp(w) PROVE TreeFlagged'
    BY <1>13 DEF IncStamp, StampPoll, At, Release, Goto, TreeFlagged, SingleFlight, TypeOK, Holding,
       Points, LockOrFlag, ModeFits, Rearm, Paths_of, Job
  <1>14. ASSUME NEW w \in Workers, IncFails(w) PROVE TreeFlagged'
    BY <1>14 DEF IncFails, At, Release, Goto, TreeFlagged, SingleFlight, TypeOK, Holding,
       Points, LockOrFlag, ModeFits, Rearm, Paths_of, Job
  <1>15. ASSUME NEW w \in Workers, ForceVersion(w) PROVE TreeFlagged'
    BY <1>15 DEF ForceVersion, At, Goto, mountVars, TreeFlagged, SingleFlight, TypeOK,
       Holding, Points, LockOrFlag, ModeFits, Rearm, Paths_of, Job
  <1>16. ASSUME NEW w \in Workers, ForceSeq(w) PROVE TreeFlagged'
    BY <1>16 DEF ForceSeq, At, Goto, mountVars, TreeFlagged, SingleFlight, TypeOK, Holding,
       Points, LockOrFlag, ModeFits, Rearm, Paths_of, Job
  <1>17. ASSUME NEW w \in Workers, ForceSwap(w) PROVE TreeFlagged'
    <2>1. /\ job'.mode = "force" /\ job'.was_set = needs_rebuild
          /\ needs_rebuild' = ("snapshot" \in poisoned) /\ poisoned' = poisoned \ {"snapshot"}
          /\ UNCHANGED <<tree, snapshot>> /\ pc' = [pc EXCEPT ![w] = "full_keys"]
          /\ pc[w] = "force_swap"
      BY <1>17 DEF ForceSwap, At, Goto, Job, TypeOK, ModeFits
    <2>2. Paths_of(snapshot)' = Paths_of(snapshot)
      BY <2>1 DEF Paths_of
    <2>3. \A v \in Workers : v # w => pc[v] \notin Holding
      BY <2>1 DEF SingleFlight, Holding
    <2>4. tree = Paths_of(snapshot) \/ needs_rebuild \/ poisoned # {}
      BY <2>1, <2>3 DEF TreeFlagged, Holding
    <2>5. \A v \in Workers : pc'[v] # "full_stamp"
      BY <2>1, <2>3 DEF TypeOK, Holding
    <2>6. pc'[w] = "full_keys"
      BY <2>1 DEF TypeOK
    <2>7. QED
      BY <2>1, <2>2, <2>4, <2>5, <2>6 DEF TreeFlagged, TypeOK
  <1>18. ASSUME NEW w \in Workers, GapSeq(w) PROVE TreeFlagged'
    BY <1>18 DEF GapSeq, At, Goto, TreeFlagged, SingleFlight, TypeOK, Holding, Points,
       LockOrFlag, ModeFits, Rearm, Paths_of, Job
  <1>19. ASSUME NEW w \in Workers, FullKeys(w) PROVE TreeFlagged'
    BY <1>19 DEF FullKeys, At, Goto, mountVars, TreeFlagged, SingleFlight, TypeOK, Holding,
       Points, LockOrFlag, ModeFits, Rearm, Paths_of, Job
  <1>20. ASSUME NEW w \in Workers, FullTags(w) PROVE TreeFlagged'
    BY <1>20 DEF FullTags, At, Goto, mountVars, TreeFlagged, SingleFlight, TypeOK, Holding,
       Points, LockOrFlag, ModeFits, Rearm, Paths_of, Job
  <1>21. ASSUME NEW w \in Workers, FullPublish(w) PROVE TreeFlagged'
    <2>1. tree' = Paths_of(job.states) /\ UNCHANGED job /\ pc' = [pc EXCEPT ![w] = "full_stamp"]
      BY <1>21 DEF FullPublish, Goto
    <2>2. Paths_of(job.states)' = Paths_of(job.states)
      BY <2>1 DEF Paths_of
    <2>3. QED
      BY <2>1, <2>2 DEF TreeFlagged, TypeOK
  <1>22. ASSUME NEW w \in Workers, FullPanics(w) PROVE TreeFlagged'
    BY <1>22 DEF FullPanics, At, Release, Goto, TreeFlagged, SingleFlight, TypeOK, Holding,
       Points, LockOrFlag, ModeFits, Rearm, Paths_of, Job
  <1>23. ASSUME NEW w \in Workers, FullStamp(w) PROVE TreeFlagged'
    <2>1. tree' = tree /\ snapshot' = job.states /\ tree = Paths_of(job.states)
      BY <1>23 DEF FullStamp, StampPoll, At, TreeFlagged
    <2>2. Paths_of(snapshot)' = Paths_of(job.states)
      BY <2>1 DEF Paths_of
    <2>3. \A v \in Workers : pc'[v] # "full_stamp"
      BY <1>23 DEF FullStamp, StampPoll, At, Release, Goto, SingleFlight, TypeOK, Holding
    <2>4. QED
      BY <2>1, <2>2, <2>3 DEF TreeFlagged
  <1>24. ASSUME NEW w \in Workers, ForceFails(w) PROVE TreeFlagged'
    BY <1>24 DEF ForceFails, Release, Goto, TreeFlagged, SingleFlight, TypeOK, Holding,
       Points, LockOrFlag, ModeFits, Rearm, Paths_of, Job
  <1>25. ASSUME NEW w \in Workers, GapFails(w) PROVE TreeFlagged'
    BY <1>25 DEF GapFails, At, Release, Goto, TreeFlagged, SingleFlight, TypeOK, Holding,
       Points, LockOrFlag, ModeFits, Rearm, Paths_of, Job
  <1>26. ASSUME NEW g \in {"interval", "backoff"}, TimeElapses(g) PROVE TreeFlagged'
    BY <1>26 DEF TimeElapses, TreeFlagged, SingleFlight, TypeOK, Holding, Points,
       LockOrFlag, ModeFits, Rearm, Paths_of, Job
  <1>27. CASE UNCHANGED vars
    BY <1>27 DEF vars, mountVars, TreeFlagged, SingleFlight, TypeOK, Holding, Points,
       LockOrFlag, ModeFits, Rearm, Paths_of, Job
  <1>28. QED
    BY <1>1, <1>2, <1>3, <1>4, <1>5, <1>6, <1>7, <1>8, <1>9, <1>10, <1>11, <1>12, <1>13,
       <1>14, <1>15, <1>16, <1>17, <1>18, <1>19, <1>20, <1>21, <1>22, <1>23, <1>24, <1>25,
       <1>26, <1>27 DEF Next, Progress, Fault

\* A snapshot entry with the render key of a row of its own life is what the
\* row renders to; of another life, it is a reused rowid.
LEMMA SameKeyInSync ==
    ASSUME NEW r \in Row, NEW s \in TrackRenderState, NEW top \in Nat,
           StateSound(s, r, top), s.content_version = r.content_version, s.format = r.format
    PROVE  InSync(s, r)
  <1>1. r # None /\ s # None
    BY StoreAssumption, RefreshAssumption
  <1>2. CASE s.life = r.life
    <2>1. s.path = <<r.format, r.tags>> /\ r.tags \notin Skipped
      BY <1>1, <1>2 DEF StateSound
    <2>2. render_one(KeyOf(r), TagsOf(r)) =
            [content_version |-> r.content_version, format |-> r.format,
             path |-> <<r.format, r.tags>>, life |-> r.life]
      <3>1. KeyOf(r) = [content_version |-> r.content_version, format |-> r.format,
                        life |-> r.life]
        BY <1>1 DEF KeyOf
      <3>2. TagsOf(r) = r.tags
        BY <1>1 DEF TagsOf
      <3>3. KeyOf(r) # None
        <4>1. KeyOf(r) \in RenderKey
          BY <3>1 DEF RenderKey, Row
        <4>2. QED
          BY <4>1, RefreshAssumption
      <3>4. QED
        BY <2>1, <3>1, <3>2, <3>3 DEF render_one
    <2>3. s = [content_version |-> r.content_version, format |-> r.format,
               path |-> <<r.format, r.tags>>, life |-> r.life]
      BY <1>2, <2>1 DEF TrackRenderState
    <2>4. QED
      BY <2>2, <2>3 DEF InSync
  <1>3. CASE s.life # r.life
    BY <1>1, <1>3 DEF InSync
  <1>4. QED
    BY <1>2, <1>3

\* A deleted row has no key and renders nothing.
LEMMA KeyOfNone ==
    ASSUME NEW r \in Row \cup {None}
    PROVE  /\ KeyOf(r) = None <=> r = None
           /\ r # None => /\ KeyOf(r).content_version = r.content_version
                          /\ KeyOf(r).format = r.format
  <1>1. CASE r = None
    BY <1>1 DEF KeyOf
  <1>2. CASE r # None
    <2>1. KeyOf(r) \in RenderKey
      BY <1>2 DEF KeyOf, RenderKey, Row
    <2>2. KeyOf(r) # None
      BY <2>1, RefreshAssumption
    <2>3. QED
      BY <1>2, <2>2 DEF KeyOf
  <1>3. QED
    BY <1>1, <1>2

\* The heart of the argument.  What phase 4 will publish for a track is what
\* its row renders to, unless the track was logged after the changelog read:
\* a track outside the changelog was current already, and one inside it is
\* rendered from its current key and tags or left alone for having that key.
LEMMA PublishCovers ==
    ASSUME TypeOK, Sound, SingleFlight, WatermarkBehind, JobCovered, ModeFits,
           NEW w \in Workers, pc[w] = "inc_tags", NEW id \in Ids
    PROVE  \/ logged[id] > job.new_seq
           \/ InSync(IF id \in Touched
                     THEN IF id \in Changed \cup Added
                          THEN render_one(job.keys[id], TagsOf(rows[id])) ELSE None
                     ELSE snapshot[id], rows[id])
  <1>1. SUFFICES ASSUME ~(logged[id] > job.new_seq)
                 PROVE  InSync(IF id \in Touched
                               THEN IF id \in Changed \cup Added
                                    THEN render_one(job.keys[id], TagsOf(rows[id])) ELSE None
                               ELSE snapshot[id], rows[id])
    OBVIOUS
  <1>2. /\ job.new_seq \in Nat /\ last_seq \in Nat /\ logged[id] \in Nat /\ seq \in Nat
        /\ rows[id] \in Row \cup {None} /\ snapshot[id] \in TrackRenderState \cup {None}
    BY JobFields DEF TypeOK, StoreTypeOK
  <1>3. CASE id \notin job.changed_ids
    <2>1. id \notin Touched
      BY <1>3 DEF Touched, Changed, Added, Removed
    <2>2. logged[id] <= last_seq
      BY <1>1, <1>3 DEF JobCovered, ModeFits
    <2>3. \A v \in Workers : pc[v] # "inc_stamp"
      BY DEF SingleFlight, Holding
    <2>4. InSync(snapshot[id], rows[id])
      BY <1>2, <2>2, <2>3 DEF WatermarkBehind
    <2>5. QED
      BY <2>1, <2>4
  <1>4. CASE id \in job.changed_ids
    <2>1. job.keys[id] = KeyOf(rows[id])
      BY <1>1, <1>4 DEF JobCovered
    <2>2. CASE id \in Changed \cup Added
      BY <2>1, <2>2 DEF Touched, InSync
    <2>3. CASE id \in Removed
      <3>1. rows[id] = None
        BY <1>2, <2>1, <2>3, KeyOfNone DEF Removed
      <3>2. id \notin Changed \cup Added /\ id \in Touched
        BY <2>3 DEF Touched, Changed, Added, Removed
      <3>3. InSync(None, rows[id])
        BY <3>1 DEF InSync, render_one, KeyOf
      <3>4. QED
        BY <3>2, <3>3
    <2>4. CASE id \notin Touched
      <3>1. CASE rows[id] = None
        <4>1. snapshot[id] = None
          BY <1>4, <2>1, <2>4, <3>1 DEF KeyOf, Touched, Removed
        <4>2. InSync(None, rows[id])
          BY <3>1 DEF InSync, render_one, KeyOf
        <4>3. QED
          BY <2>4, <4>1, <4>2
      <3>2. CASE rows[id] # None
        <4>1. KeyOf(rows[id]) # None
          BY <1>2, <3>2, KeyOfNone
        <4>2. snapshot[id] # None
          BY <1>4, <2>1, <2>4, <4>1 DEF Touched, Added
        <4>3. /\ snapshot[id].content_version = KeyOf(rows[id]).content_version
              /\ snapshot[id].format = KeyOf(rows[id]).format
          BY <1>4, <2>1, <2>4, <4>1, <4>2 DEF Touched, Changed
        <4>4. InSync(snapshot[id], rows[id])
          BY <1>2, <3>2, <4>2, <4>3, KeyOfNone, SameKeyInSync DEF Sound
        <4>5. QED
          BY <2>4, <4>4
      <3>3. QED
        BY <3>1, <3>2
    <2>5. QED
      BY <2>2, <2>3, <2>4 DEF Touched
  <1>5. QED
    BY <1>3, <1>4

\* MutatedSnapshot depends on the job and the snapshot alone.
LEMMA MutatedFrame ==
    ASSUME UNCHANGED <<job, snapshot>>
    PROVE  MutatedSnapshot' = MutatedSnapshot
  BY DEF MutatedSnapshot, Touched, Changed, Added, Removed

\* Every step keeps what the poll has read current or logged past the
\* watermark it will stamp.
LEMMA JobCoveredNext ==
    ASSUME TypeOK, SingleFlight, Sound, WatermarkBehind, JobCovered, VersionBehind,
           ModeFits, RingHolds, [Next]_vars
    PROVE  JobCovered'
  <1>1. CASE Write
    <2>1. /\ StoreTypeOK /\ StoreTypeOK' /\ \A id \in Ids : RowStep(id)
          /\ UNCHANGED <<snapshot, last_seq, pc, job>>
      BY <1>1, WriteStep DEF TypeOK, mountVars
    <2>2. job.new_seq \in Nat /\ job.changed_ids \subseteq Ids /\ last_seq \in Nat
      BY JobFields DEF TypeOK
    <2>3. MutatedSnapshot' = MutatedSnapshot
      BY <2>1, MutatedFrame
    <2>4. \A w \in Workers : pc[w] \in LogRead \cup SeqRead => job.new_seq <= seq
      BY DEF VersionBehind
    <2>5. ASSUME NEW id \in Ids, job.new_seq <= seq, NEW s,
                 logged[id] > job.new_seq \/ InSync(s, rows[id])
          PROVE  logged'[id] > job.new_seq \/ InSync(s, rows'[id])
      BY <2>1, <2>2, <2>5, CoveredStep
    <2>6. ASSUME NEW id \in Ids, job.new_seq <= seq
          PROVE  \/ logged'[id] > job.new_seq
                 \/ logged'[id] = logged[id] /\ rows'[id] = rows[id]
      BY <2>1, <2>2, <2>6 DEF RowStep, StoreTypeOK
    <2>7. QED
      BY <2>1, <2>2, <2>3, <2>4, <2>5, <2>6 DEF JobCovered, LogRead, SeqRead
  <1>2. ASSUME NEW w \in Workers, PollForced(w) PROVE JobCovered'
    <2>1. /\ UNCHANGED <<storeVars, job, snapshot, last_seq>>
          /\ \A v \in Workers : pc'[v] \in Holding => pc'[v] = pc[v]
      BY <1>2 DEF PollForced, At, Goto, TypeOK, Holding, mountVars
    <2>2. MutatedSnapshot' = MutatedSnapshot
      BY <2>1, MutatedFrame
    <2>3. QED
      BY <2>1, <2>2 DEF JobCovered, storeVars, Holding
  <1>3. ASSUME NEW w \in Workers, PollCurrent(w) PROVE JobCovered'
    <2>1. /\ UNCHANGED <<storeVars, job, snapshot, last_seq>>
          /\ \A v \in Workers : pc'[v] \in Holding => pc'[v] = pc[v]
      BY <1>3 DEF PollCurrent, TypeOK, Holding, mountVars
    <2>2. MutatedSnapshot' = MutatedSnapshot
      BY <2>1, MutatedFrame
    <2>3. QED
      BY <2>1, <2>2 DEF JobCovered, storeVars, Holding
  <1>4. ASSUME NEW w \in Workers, PollChanged(w) PROVE JobCovered'
    <2>1. /\ UNCHANGED <<storeVars, job, snapshot, last_seq>>
          /\ \A v \in Workers : pc'[v] \in Holding => pc'[v] = pc[v]
      BY <1>4 DEF PollChanged, PollReads, At, Goto, TypeOK, Holding, mountVars
    <2>2. MutatedSnapshot' = MutatedSnapshot
      BY <2>1, MutatedFrame
    <2>3. QED
      BY <2>1, <2>2 DEF JobCovered, storeVars, Holding
  <1>5. ASSUME NEW w \in Workers, PollReadFails(w) PROVE JobCovered'
    <2>1. /\ UNCHANGED <<storeVars, job, snapshot, last_seq>>
          /\ \A v \in Workers : pc'[v] \in Holding => pc'[v] = pc[v]
      BY <1>5 DEF PollReadFails, TypeOK, Holding, mountVars
    <2>2. MutatedSnapshot' = MutatedSnapshot
      BY <2>1, MutatedFrame
    <2>3. QED
      BY <2>1, <2>2 DEF JobCovered, storeVars, Holding
  <1>6. ASSUME NEW w \in Workers, CasFails(w) PROVE JobCovered'
    <2>1. /\ UNCHANGED <<storeVars, job, snapshot, last_seq>>
          /\ \A v \in Workers : pc'[v] \in Holding => pc'[v] = pc[v]
      BY <1>6 DEF CasFails, Goto, TypeOK, Holding, mountVars
    <2>2. MutatedSnapshot' = MutatedSnapshot
      BY <2>1, MutatedFrame
    <2>3. QED
      BY <2>1, <2>2 DEF JobCovered, storeVars, Holding
  <1>7. ASSUME NEW w \in Workers, CasWins(w) PROVE JobCovered'
    <2>1. /\ \A v \in Workers : v # w => pc'[v] \notin Holding
          /\ pc'[w] \in {"force_version", "inc_log"}
      BY <1>7 DEF CasWins, At, Goto, SingleFlight, TypeOK
    <2>2. QED
      BY <2>1 DEF JobCovered, Holding
  <1>8. ASSUME NEW w \in Workers, IncLog(w) PROVE JobCovered'
    <2>1. \A v \in Workers : v # w => pc'[v] \notin Holding
      BY <1>8 DEF IncLog, At, Goto, SingleFlight, TypeOK, Holding
    <2>2. pc'[w] = "inc_keys" /\ UNCHANGED <<storeVars, last_seq>>
      BY <1>8 DEF IncLog, At, Goto, TypeOK, mountVars
    <2>3. job'.changed_ids = ChangedSince(last_seq)
          /\ job'.mode = IF ChangelogGap THEN "gap" ELSE "inc"
      BY <1>8 DEF IncLog, Job, TypeOK
    <2>4. job'.mode = "inc" => floor <= last_seq
      BY <2>3, RingReads DEF ChangelogGap, TypeOK, StoreTypeOK
    <2>5. job'.mode = "inc" =>
            \A id \in Ids : logged[id] <= last_seq \/ id \in job'.changed_ids
      BY <2>3, <2>4 DEF ChangedSince, TypeOK, StoreTypeOK
    <2>6. QED
      BY <2>1, <2>2, <2>5 DEF JobCovered, Holding, storeVars
  <1>9. ASSUME NEW w \in Workers, IncKeys(w) PROVE JobCovered'
    <2>1. \A v \in Workers : v # w => pc'[v] \notin Holding
      BY <1>9 DEF IncKeys, At, Goto, SingleFlight, TypeOK, Holding
    <2>2. /\ job' = [job EXCEPT !.keys = IF job.mode = "gap" THEN NoKeys
                                   ELSE [id \in Ids |-> IF id \in job.changed_ids
                                                        THEN KeyOf(rows[id]) ELSE None]]
          /\ pc[w] = "inc_keys" /\ UNCHANGED <<storeVars, last_seq>>
          /\ pc'[w] = IF job.mode = "gap" THEN "gap_seq" ELSE "inc_tags"
      BY <1>9 DEF IncKeys, At, Goto, TypeOK, mountVars
    <2>3. job'.new_seq = job.new_seq /\ job'.mode = job.mode
          /\ job'.changed_ids = job.changed_ids /\ job.changed_ids \subseteq Ids
      BY <2>2 DEF Job, TypeOK
    <2>4. job.mode = "inc" => \A id \in job.changed_ids : job'.keys[id] = KeyOf(rows[id])
      BY <2>2, <2>3 DEF Job, TypeOK
    <2>5. job.mode \in {"inc", "gap"}
      BY <2>2 DEF ModeFits
    <2>6. QED
      BY <2>1, <2>2, <2>3, <2>4, <2>5 DEF JobCovered, Holding, storeVars
  <1>10. ASSUME NEW w \in Workers, IncTags(w) PROVE JobCovered'
    <2>1. \A v \in Workers : v # w => pc'[v] \notin Holding
      BY <1>10 DEF IncTags, At, Goto, SingleFlight, TypeOK, Holding
    <2>2. /\ pc[w] = "inc_tags" /\ pc'[w] = "inc_publish"
          /\ UNCHANGED <<storeVars, last_seq, snapshot>>
          /\ job' = [job EXCEPT !.states = [id \in Ids |->
                        IF id \in Changed \cup Added
                        THEN render_one(job.keys[id], TagsOf(rows[id])) ELSE None]]
      BY <1>10 DEF IncTags, At, Goto, TypeOK
    <2>3. /\ job'.new_seq = job.new_seq /\ job'.keys = job.keys
          /\ job'.changed_ids = job.changed_ids
          /\ \A id \in Ids : job'.states[id] =
                 IF id \in Changed \cup Added
                 THEN render_one(job.keys[id], TagsOf(rows[id])) ELSE None
      BY <2>2 DEF Job, TypeOK
    <2>4. Touched' = Touched
      BY <2>2, <2>3 DEF Touched, Changed, Added, Removed
    <2>5. \A id \in Ids : MutatedSnapshot'[id] =
             IF id \in Touched
             THEN IF id \in Changed \cup Added
                  THEN render_one(job.keys[id], TagsOf(rows[id])) ELSE None
             ELSE snapshot[id]
      BY <2>2, <2>3, <2>4 DEF MutatedSnapshot
    <2>6. \A id \in Ids : logged[id] > job.new_seq \/ InSync(MutatedSnapshot'[id], rows[id])
      BY <2>2, <2>5, PublishCovers
    <2>7. QED
      BY <2>1, <2>2, <2>3, <2>6 DEF JobCovered, Holding, storeVars
  <1>11. ASSUME NEW w \in Workers, IncPublish(w) PROVE JobCovered'
    <2>1. \A v \in Workers : v # w => pc'[v] \notin Holding
      BY <1>11 DEF IncPublish, At, Goto, SingleFlight, TypeOK, Holding
    <2>2. /\ pc[w] = "inc_publish" /\ pc'[w] = "inc_stamp"
          /\ UNCHANGED <<storeVars, job>> /\ snapshot' = MutatedSnapshot
      BY <1>11 DEF IncPublish, At, Goto, TypeOK
    <2>3. QED
      BY <2>1, <2>2 DEF JobCovered, Holding, storeVars
  <1>12. ASSUME NEW w \in Workers, IncPanics(w) PROVE JobCovered'
    <2>1. /\ \A v \in Workers : v # w => pc'[v] \notin Holding
          /\ pc'[w] \notin {"inc_keys", "inc_tags", "inc_publish", "inc_stamp",
                              "full_tags", "full_publish", "full_stamp"}
      BY <1>12 DEF IncPanics, At, Release, Goto, SingleFlight, TypeOK, Holding
    <2>2. QED
      BY <2>1 DEF JobCovered, Holding
  <1>13. ASSUME NEW w \in Workers, IncStamp(w) PROVE JobCovered'
    <2>1. /\ \A v \in Workers : v # w => pc'[v] \notin Holding
          /\ pc'[w] \notin {"inc_keys", "inc_tags", "inc_publish", "inc_stamp",
                              "full_tags", "full_publish", "full_stamp"}
      BY <1>13 DEF IncStamp, StampPoll, At, Release, Goto, SingleFlight, TypeOK, Holding
    <2>2. QED
      BY <2>1 DEF JobCovered, Holding
  <1>14. ASSUME NEW w \in Workers, IncFails(w) PROVE JobCovered'
    <2>1. /\ \A v \in Workers : v # w => pc'[v] \notin Holding
          /\ pc'[w] \notin {"inc_keys", "inc_tags", "inc_publish", "inc_stamp",
                              "full_tags", "full_publish", "full_stamp"}
      BY <1>14 DEF IncFails, At, Release, Goto, SingleFlight, TypeOK, Holding
    <2>2. QED
      BY <2>1 DEF JobCovered, Holding
  <1>15. ASSUME NEW w \in Workers, ForceVersion(w) PROVE JobCovered'
    <2>1. /\ \A v \in Workers : v # w => pc'[v] \notin Holding
          /\ pc'[w] \notin {"inc_keys", "inc_tags", "inc_publish", "inc_stamp",
                              "full_tags", "full_publish", "full_stamp"}
      BY <1>15 DEF ForceVersion, At, Goto, mountVars, SingleFlight, TypeOK, Holding
    <2>2. QED
      BY <2>1 DEF JobCovered, Holding
  <1>16. ASSUME NEW w \in Workers, ForceSeq(w) PROVE JobCovered'
    <2>1. /\ \A v \in Workers : v # w => pc'[v] \notin Holding
          /\ pc'[w] \notin {"inc_keys", "inc_tags", "inc_publish", "inc_stamp",
                              "full_tags", "full_publish", "full_stamp"}
      BY <1>16 DEF ForceSeq, At, Goto, mountVars, SingleFlight, TypeOK, Holding
    <2>2. QED
      BY <2>1 DEF JobCovered, Holding
  <1>17. ASSUME NEW w \in Workers, ForceSwap(w) PROVE JobCovered'
    <2>1. /\ \A v \in Workers : v # w => pc'[v] \notin Holding
          /\ pc'[w] \notin {"inc_keys", "inc_tags", "inc_publish", "inc_stamp",
                              "full_tags", "full_publish", "full_stamp"}
      BY <1>17 DEF ForceSwap, At, Goto, SingleFlight, TypeOK, Holding
    <2>2. QED
      BY <2>1 DEF JobCovered, Holding
  <1>18. ASSUME NEW w \in Workers, GapSeq(w) PROVE JobCovered'
    <2>1. /\ \A v \in Workers : v # w => pc'[v] \notin Holding
          /\ pc'[w] \notin {"inc_keys", "inc_tags", "inc_publish", "inc_stamp",
                              "full_tags", "full_publish", "full_stamp"}
      BY <1>18 DEF GapSeq, At, Goto, SingleFlight, TypeOK, Holding
    <2>2. QED
      BY <2>1 DEF JobCovered, Holding
  <1>19. ASSUME NEW w \in Workers, FullKeys(w) PROVE JobCovered'
    <2>1. \A v \in Workers : v # w => pc'[v] \notin Holding
      BY <1>19 DEF FullKeys, At, Goto, SingleFlight, TypeOK, Holding
    <2>2. /\ pc'[w] = "full_tags" /\ UNCHANGED storeVars
          /\ \A id \in Ids : job'.keys[id] = KeyOf(rows[id])
      BY <1>19 DEF FullKeys, At, Goto, TypeOK, Job
    <2>3. QED
      BY <2>1, <2>2 DEF JobCovered, Holding, storeVars
  <1>20. ASSUME NEW w \in Workers, FullTags(w) PROVE JobCovered'
    <2>1. \A v \in Workers : v # w => pc'[v] \notin Holding
      BY <1>20 DEF FullTags, At, Goto, SingleFlight, TypeOK, Holding
    <2>2. /\ pc[w] = "full_tags" /\ pc'[w] = "full_publish" /\ UNCHANGED storeVars
          /\ job'.new_seq = job.new_seq
          /\ \A id \in Ids : job'.states[id] = render_one(job.keys[id], TagsOf(rows[id]))
      BY <1>20 DEF FullTags, At, Goto, TypeOK, Job
    <2>3. \A id \in Ids : logged[id] > job.new_seq \/ InSync(job'.states[id], rows[id])
      BY <2>2 DEF JobCovered, InSync
    <2>4. QED
      BY <2>1, <2>2, <2>3 DEF JobCovered, Holding, storeVars
  <1>21. ASSUME NEW w \in Workers, FullPublish(w) PROVE JobCovered'
    <2>1. \A v \in Workers : v # w => pc'[v] \notin Holding
      BY <1>21 DEF FullPublish, At, Goto, SingleFlight, TypeOK, Holding
    <2>2. /\ pc[w] = "full_publish" /\ pc'[w] = "full_stamp" /\ UNCHANGED <<storeVars, job>>
      BY <1>21 DEF FullPublish, At, Goto, TypeOK
    <2>3. QED
      BY <2>1, <2>2 DEF JobCovered, Holding, storeVars
  <1>22. ASSUME NEW w \in Workers, FullPanics(w) PROVE JobCovered'
    <2>1. /\ \A v \in Workers : v # w => pc'[v] \notin Holding
          /\ pc'[w] \notin {"inc_keys", "inc_tags", "inc_publish", "inc_stamp",
                              "full_tags", "full_publish", "full_stamp"}
      BY <1>22 DEF FullPanics, At, Release, Goto, SingleFlight, TypeOK, Holding
    <2>2. QED
      BY <2>1 DEF JobCovered, Holding
  <1>23. ASSUME NEW w \in Workers, FullStamp(w) PROVE JobCovered'
    <2>1. /\ \A v \in Workers : v # w => pc'[v] \notin Holding
          /\ pc'[w] \notin {"inc_keys", "inc_tags", "inc_publish", "inc_stamp",
                              "full_tags", "full_publish", "full_stamp"}
      BY <1>23 DEF FullStamp, StampPoll, At, Release, Goto, SingleFlight, TypeOK, Holding
    <2>2. QED
      BY <2>1 DEF JobCovered, Holding
  <1>24. ASSUME NEW w \in Workers, ForceFails(w) PROVE JobCovered'
    <2>1. /\ \A v \in Workers : v # w => pc'[v] \notin Holding
          /\ pc'[w] \notin {"inc_keys", "inc_tags", "inc_publish", "inc_stamp",
                              "full_tags", "full_publish", "full_stamp"}
      BY <1>24 DEF ForceFails, Release, Goto, SingleFlight, TypeOK, Holding
    <2>2. QED
      BY <2>1 DEF JobCovered, Holding
  <1>25. ASSUME NEW w \in Workers, GapFails(w) PROVE JobCovered'
    <2>1. /\ \A v \in Workers : v # w => pc'[v] \notin Holding
          /\ pc'[w] \notin {"inc_keys", "inc_tags", "inc_publish", "inc_stamp",
                              "full_tags", "full_publish", "full_stamp"}
      BY <1>25 DEF GapFails, At, Release, Goto, SingleFlight, TypeOK, Holding
    <2>2. QED
      BY <2>1 DEF JobCovered, Holding
  <1>26. ASSUME NEW g \in {"interval", "backoff"}, TimeElapses(g) PROVE JobCovered'
    BY <1>26 DEF TimeElapses, MutatedSnapshot, Touched, Changed, Added, Removed,
         JobCovered, SingleFlight, TypeOK, Holding, Points, storeVars
  <1>27. CASE UNCHANGED vars
    BY <1>27 DEF vars, mountVars, MutatedSnapshot, Touched, Changed, Added, Removed,
         JobCovered, SingleFlight, TypeOK, Holding, Points,
       storeVars
  <1>28. QED
    BY <1>1, <1>2, <1>3, <1>4, <1>5, <1>6, <1>7, <1>8, <1>9, <1>10, <1>11, <1>12, <1>13,
       <1>14, <1>15, <1>16, <1>17, <1>18, <1>19, <1>20, <1>21, <1>22, <1>23, <1>24, <1>25,
       <1>26, <1>27 DEF Next, Progress, Fault

\* The snapshot, the watermark and the store stay, and nobody enters or leaves
\* the window between publishing and stamping.
LEMMA WatermarkFrame ==
    ASSUME WatermarkBehind, UNCHANGED <<storeVars, snapshot, last_seq>>,
           \A v \in Workers : pc[v] = "inc_stamp" => pc'[v] = "inc_stamp"
    PROVE  WatermarkBehind'
  BY DEF WatermarkBehind, storeVars

\* Every step keeps the snapshot current or behind the watermark.
LEMMA WatermarkBehindNext ==
    ASSUME TypeOK, WatermarkBehind, JobCovered, VersionBehind, [Next]_vars
    PROVE  WatermarkBehind'
  <1>1. CASE Write
    <2>1. /\ StoreTypeOK /\ StoreTypeOK' /\ LogStep /\ \A id \in Ids : RowStep(id)
          /\ UNCHANGED <<snapshot, last_seq, pc>>
      BY <1>1, WriteStep DEF TypeOK, mountVars
    <2>2. last_seq \in Nat /\ last_seq <= seq
      BY DEF TypeOK, WatermarkBehind
    <2>3. last_seq <= seq'
      BY <2>1, <2>2 DEF LogStep, StoreTypeOK
    <2>4. ASSUME NEW id \in Ids, logged[id] > last_seq \/ InSync(snapshot[id], rows[id])
          PROVE  logged'[id] > last_seq \/ InSync(snapshot[id], rows'[id])
      BY <2>1, <2>2, <2>4, CoveredStep
    <2>5. QED
      BY <2>1, <2>3, <2>4 DEF WatermarkBehind
  <1>2. ASSUME NEW w \in Workers, PollForced(w) PROVE WatermarkBehind'
    <2>1. UNCHANGED <<storeVars, snapshot, last_seq>>
      BY <1>2 DEF PollForced, mountVars
    <2>2. \A v \in Workers : pc[v] = "inc_stamp" => pc'[v] = "inc_stamp"
      BY <1>2 DEF PollForced, At, Goto, TypeOK
    <2>3. QED
      BY <2>1, <2>2, WatermarkFrame
  <1>3. ASSUME NEW w \in Workers, PollCurrent(w) PROVE WatermarkBehind'
    <2>1. UNCHANGED <<storeVars, snapshot, last_seq>>
      BY <1>3 DEF PollCurrent, mountVars
    <2>2. \A v \in Workers : pc[v] = "inc_stamp" => pc'[v] = "inc_stamp"
      BY <1>3 DEF PollCurrent, TypeOK
    <2>3. QED
      BY <2>1, <2>2, WatermarkFrame
  <1>4. ASSUME NEW w \in Workers, PollChanged(w) PROVE WatermarkBehind'
    <2>1. UNCHANGED <<storeVars, snapshot, last_seq>>
      BY <1>4 DEF PollChanged, mountVars
    <2>2. \A v \in Workers : pc[v] = "inc_stamp" => pc'[v] = "inc_stamp"
      BY <1>4 DEF PollChanged, PollReads, At, Goto, TypeOK
    <2>3. QED
      BY <2>1, <2>2, WatermarkFrame
  <1>5. ASSUME NEW w \in Workers, PollReadFails(w) PROVE WatermarkBehind'
    <2>1. UNCHANGED <<storeVars, snapshot, last_seq>>
      BY <1>5 DEF PollReadFails, mountVars
    <2>2. \A v \in Workers : pc[v] = "inc_stamp" => pc'[v] = "inc_stamp"
      BY <1>5 DEF PollReadFails, TypeOK
    <2>3. QED
      BY <2>1, <2>2, WatermarkFrame
  <1>6. ASSUME NEW w \in Workers, CasFails(w) PROVE WatermarkBehind'
    <2>1. UNCHANGED <<storeVars, snapshot, last_seq>>
      BY <1>6 DEF CasFails, mountVars
    <2>2. \A v \in Workers : pc[v] = "inc_stamp" => pc'[v] = "inc_stamp"
      BY <1>6 DEF CasFails, Goto, TypeOK
    <2>3. QED
      BY <2>1, <2>2, WatermarkFrame
  <1>7. ASSUME NEW w \in Workers, CasWins(w) PROVE WatermarkBehind'
    <2>1. UNCHANGED <<storeVars, snapshot, last_seq>>
      BY <1>7 DEF CasWins, mountVars
    <2>2. \A v \in Workers : pc[v] = "inc_stamp" => pc'[v] = "inc_stamp"
      BY <1>7 DEF CasWins, At, Goto, TypeOK
    <2>3. QED
      BY <2>1, <2>2, WatermarkFrame
  <1>8. ASSUME NEW w \in Workers, IncLog(w) PROVE WatermarkBehind'
    <2>1. UNCHANGED <<storeVars, snapshot, last_seq>>
      BY <1>8 DEF IncLog, mountVars
    <2>2. \A v \in Workers : pc[v] = "inc_stamp" => pc'[v] = "inc_stamp"
      BY <1>8 DEF IncLog, At, Goto, TypeOK
    <2>3. QED
      BY <2>1, <2>2, WatermarkFrame
  <1>9. ASSUME NEW w \in Workers, IncKeys(w) PROVE WatermarkBehind'
    <2>1. UNCHANGED <<storeVars, snapshot, last_seq>>
      BY <1>9 DEF IncKeys, mountVars
    <2>2. \A v \in Workers : pc[v] = "inc_stamp" => pc'[v] = "inc_stamp"
      BY <1>9 DEF IncKeys, At, Goto, TypeOK
    <2>3. QED
      BY <2>1, <2>2, WatermarkFrame
  <1>10. ASSUME NEW w \in Workers, IncTags(w) PROVE WatermarkBehind'
    <2>1. UNCHANGED <<storeVars, snapshot, last_seq>>
      BY <1>10 DEF IncTags, mountVars
    <2>2. \A v \in Workers : pc[v] = "inc_stamp" => pc'[v] = "inc_stamp"
      BY <1>10 DEF IncTags, At, Goto, TypeOK
    <2>3. QED
      BY <2>1, <2>2, WatermarkFrame
  <1>11. ASSUME NEW w \in Workers, IncPublish(w) PROVE WatermarkBehind'
    <2>1. pc'[w] = "inc_stamp" /\ UNCHANGED <<storeVars, last_seq>>
      BY <1>11 DEF IncPublish, At, Goto, TypeOK
    <2>2. QED
      BY <2>1 DEF WatermarkBehind, storeVars
  <1>12. ASSUME NEW w \in Workers, IncPanics(w) PROVE WatermarkBehind'
    <2>1. /\ pc[w] = "inc_publish" /\ snapshot' = MutatedSnapshot
          /\ UNCHANGED <<storeVars, last_seq>>
      BY <1>12 DEF IncPanics, At
    <2>2. job.new_seq >= last_seq /\ job.new_seq \in Nat /\ last_seq \in Nat
      BY <2>1, JobFields DEF VersionBehind, SeqRead, TypeOK
    <2>3. \A id \in Ids : logged[id] > last_seq \/ InSync(MutatedSnapshot[id], rows[id])
      BY <2>1, <2>2 DEF JobCovered, TypeOK, StoreTypeOK
    <2>4. QED
      BY <2>1, <2>3 DEF WatermarkBehind, storeVars
  <1>13. ASSUME NEW w \in Workers, IncStamp(w) PROVE WatermarkBehind'
    <2>1. pc[w] = "inc_stamp" /\ last_seq' = job.new_seq /\ UNCHANGED <<storeVars, snapshot>>
      BY <1>13 DEF IncStamp, StampPoll, At
    <2>2. job.new_seq <= seq
      BY <2>1 DEF VersionBehind, LogRead
    <2>3. \A id \in Ids : logged[id] > job.new_seq \/ InSync(snapshot[id], rows[id])
      BY <2>1 DEF JobCovered
    <2>4. QED
      BY <2>1, <2>2, <2>3 DEF WatermarkBehind, storeVars
  <1>14. ASSUME NEW w \in Workers, IncFails(w) PROVE WatermarkBehind'
    <2>1. UNCHANGED <<storeVars, snapshot, last_seq>>
      BY <1>14 DEF IncFails, mountVars
    <2>2. \A v \in Workers : pc[v] = "inc_stamp" => pc'[v] = "inc_stamp"
      BY <1>14 DEF IncFails, At, Release, Goto, TypeOK
    <2>3. QED
      BY <2>1, <2>2, WatermarkFrame
  <1>15. ASSUME NEW w \in Workers, ForceVersion(w) PROVE WatermarkBehind'
    <2>1. UNCHANGED <<storeVars, snapshot, last_seq>>
      BY <1>15 DEF ForceVersion, mountVars
    <2>2. \A v \in Workers : pc[v] = "inc_stamp" => pc'[v] = "inc_stamp"
      BY <1>15 DEF ForceVersion, At, Goto, TypeOK
    <2>3. QED
      BY <2>1, <2>2, WatermarkFrame
  <1>16. ASSUME NEW w \in Workers, ForceSeq(w) PROVE WatermarkBehind'
    <2>1. UNCHANGED <<storeVars, snapshot, last_seq>>
      BY <1>16 DEF ForceSeq, mountVars
    <2>2. \A v \in Workers : pc[v] = "inc_stamp" => pc'[v] = "inc_stamp"
      BY <1>16 DEF ForceSeq, At, Goto, TypeOK
    <2>3. QED
      BY <2>1, <2>2, WatermarkFrame
  <1>17. ASSUME NEW w \in Workers, ForceSwap(w) PROVE WatermarkBehind'
    <2>1. UNCHANGED <<storeVars, snapshot, last_seq>>
      BY <1>17 DEF ForceSwap, mountVars
    <2>2. \A v \in Workers : pc[v] = "inc_stamp" => pc'[v] = "inc_stamp"
      BY <1>17 DEF ForceSwap, At, Goto, TypeOK
    <2>3. QED
      BY <2>1, <2>2, WatermarkFrame
  <1>18. ASSUME NEW w \in Workers, GapSeq(w) PROVE WatermarkBehind'
    <2>1. UNCHANGED <<storeVars, snapshot, last_seq>>
      BY <1>18 DEF GapSeq, mountVars
    <2>2. \A v \in Workers : pc[v] = "inc_stamp" => pc'[v] = "inc_stamp"
      BY <1>18 DEF GapSeq, At, Goto, TypeOK
    <2>3. QED
      BY <2>1, <2>2, WatermarkFrame
  <1>19. ASSUME NEW w \in Workers, FullKeys(w) PROVE WatermarkBehind'
    <2>1. UNCHANGED <<storeVars, snapshot, last_seq>>
      BY <1>19 DEF FullKeys, mountVars
    <2>2. \A v \in Workers : pc[v] = "inc_stamp" => pc'[v] = "inc_stamp"
      BY <1>19 DEF FullKeys, At, Goto, TypeOK
    <2>3. QED
      BY <2>1, <2>2, WatermarkFrame
  <1>20. ASSUME NEW w \in Workers, FullTags(w) PROVE WatermarkBehind'
    <2>1. UNCHANGED <<storeVars, snapshot, last_seq>>
      BY <1>20 DEF FullTags, mountVars
    <2>2. \A v \in Workers : pc[v] = "inc_stamp" => pc'[v] = "inc_stamp"
      BY <1>20 DEF FullTags, At, Goto, TypeOK
    <2>3. QED
      BY <2>1, <2>2, WatermarkFrame
  <1>21. ASSUME NEW w \in Workers, FullPublish(w) PROVE WatermarkBehind'
    <2>1. UNCHANGED <<storeVars, snapshot, last_seq>>
      BY <1>21 DEF FullPublish, mountVars
    <2>2. \A v \in Workers : pc[v] = "inc_stamp" => pc'[v] = "inc_stamp"
      BY <1>21 DEF FullPublish, At, Goto, TypeOK
    <2>3. QED
      BY <2>1, <2>2, WatermarkFrame
  <1>22. ASSUME NEW w \in Workers, FullPanics(w) PROVE WatermarkBehind'
    <2>1. UNCHANGED <<storeVars, snapshot, last_seq>>
      BY <1>22 DEF FullPanics, mountVars
    <2>2. \A v \in Workers : pc[v] = "inc_stamp" => pc'[v] = "inc_stamp"
      BY <1>22 DEF FullPanics, At, Release, Goto, TypeOK
    <2>3. QED
      BY <2>1, <2>2, WatermarkFrame
  <1>23. ASSUME NEW w \in Workers, FullStamp(w) PROVE WatermarkBehind'
    <2>1. /\ pc[w] = "full_stamp" /\ last_seq' = job.new_seq /\ snapshot' = job.states
          /\ UNCHANGED storeVars
      BY <1>23 DEF FullStamp, StampPoll, At
    <2>2. job.new_seq <= seq
      BY <2>1 DEF VersionBehind, SeqRead
    <2>3. \A id \in Ids : logged[id] > job.new_seq \/ InSync(job.states[id], rows[id])
      BY <2>1 DEF JobCovered
    <2>4. QED
      BY <2>1, <2>2, <2>3 DEF WatermarkBehind, storeVars
  <1>24. ASSUME NEW w \in Workers, ForceFails(w) PROVE WatermarkBehind'
    <2>1. UNCHANGED <<storeVars, snapshot, last_seq>>
      BY <1>24 DEF ForceFails, mountVars
    <2>2. \A v \in Workers : pc[v] = "inc_stamp" => pc'[v] = "inc_stamp"
      BY <1>24 DEF ForceFails, Release, Goto, TypeOK
    <2>3. QED
      BY <2>1, <2>2, WatermarkFrame
  <1>25. ASSUME NEW w \in Workers, GapFails(w) PROVE WatermarkBehind'
    <2>1. UNCHANGED <<storeVars, snapshot, last_seq>>
      BY <1>25 DEF GapFails, mountVars
    <2>2. \A v \in Workers : pc[v] = "inc_stamp" => pc'[v] = "inc_stamp"
      BY <1>25 DEF GapFails, At, Release, Goto, TypeOK
    <2>3. QED
      BY <2>1, <2>2, WatermarkFrame
  <1>26. ASSUME NEW g \in {"interval", "backoff"}, TimeElapses(g) PROVE WatermarkBehind'
    BY <1>26 DEF TimeElapses, WatermarkBehind, storeVars
  <1>27. CASE UNCHANGED vars
    BY <1>27 DEF vars, mountVars, WatermarkBehind, storeVars
  <1>28. QED
    BY <1>1, <1>2, <1>3, <1>4, <1>5, <1>6, <1>7, <1>8, <1>9, <1>10, <1>11, <1>12, <1>13,
       <1>14, <1>15, <1>16, <1>17, <1>18, <1>19, <1>20, <1>21, <1>22, <1>23, <1>24, <1>25,
       <1>26, <1>27 DEF Next, Progress, Fault


(***************************************************************************)
(* The theorems.                                                           *)
(***************************************************************************)

\* What a generation change needs, for every bound, truncations included.
GenerationInv == TypeOK /\ SingleFlight /\ NewestIsLogged /\ WatermarkHasCause

\* The first scan leaves its entry in the ring.
LEMMA StoreInitLog == StoreInit => NewestIsLogged /\ RingHolds
  <1> SUFFICES ASSUME StoreInit PROVE NewestIsLogged /\ RingHolds
    OBVIOUS
  <1>1. 1 \in Ids
    BY StoreAssumption DEF Ids
  <1>2. seq = 2 /\ logged[1] = 2
    BY <1>1 DEF StoreInit
  <1>3. floor < seq
    BY StoreAssumption DEF StoreInit
  <1>4. QED
    BY <1>1, <1>2, <1>3 DEF NewestIsLogged, RingHolds

\* The invariant holds when the mount opens.
LEMMA GenerationInvInit == Init => GenerationInv
  <1> SUFFICES ASSUME Init PROVE GenerationInv
    OBVIOUS
  <1>1. TypeOK /\ NewestIsLogged
    BY TypeInit, StoreInitLog DEF Init
  <1>2. \A w \in Workers : pc[w] = "idle"
    BY DEF Init
  <1>3. SingleFlight /\ WatermarkHasCause
    BY <1>2 DEF SingleFlight, WatermarkHasCause, Holding, LogRead
  <1>4. QED
    BY <1>1, <1>3 DEF GenerationInv

\* Every step preserves it.
LEMMA GenerationInvNext == GenerationInv /\ [Next]_vars => GenerationInv'
  BY TypeNext, SingleFlightNext, NewestIsLoggedNext, WatermarkHasCauseNext DEF GenerationInv

\* Under it no step moves the watermark without the generation.
LEMMA GenerationStep ==
    ASSUME GenerationInv, [Next]_vars, last_seq' # last_seq
    PROVE  refresh_gen' > refresh_gen
  <1>1. refresh_gen \in Nat /\ last_seq \in Nat /\ job \in Job
    BY DEF GenerationInv, TypeOK
  <1>2. PICK w \in Workers : IncStamp(w) \/ FullStamp(w)
    BY DEF Next, vars, mountVars, Progress, Fault, TimeElapses, Write,
           PollForced, PollCurrent, PollChanged, PollReadFails, CasFails, CasWins,
           IncLog, IncKeys, IncTags, IncPublish, IncPanics, IncFails,
           ForceVersion, ForceSeq, ForceSwap, GapSeq, FullKeys, FullTags, FullPublish,
           FullPanics, ForceFails, GapFails
  <1>3. CASE IncStamp(w)
    <2>1. pc[w] = "inc_stamp" /\ last_seq' = job.new_seq
      BY <1>3 DEF IncStamp, StampPoll, At
    <2>2. job.new_seq >= last_seq /\ (job.new_seq > last_seq => job.changed_ids # {})
      BY <2>1 DEF GenerationInv, WatermarkHasCause, LogRead
    <2>3. job.changed_ids # {}
      BY <1>1, <2>1, <2>2, JobFields
    <2>4. QED
      BY <1>1, <1>3, <2>3 DEF IncStamp, StampPoll, SomethingChanged
  <1>4. CASE FullStamp(w)
    BY <1>1, <1>4 DEF FullStamp, StampPoll
  <1>5. QED
    BY <1>2, <1>3, <1>4

\* The watermark never moves past logged changes without the generation that
\* makes open handles re-resolve, however often the ring is truncated.
THEOREM GenerationFollows == Spec => GenerationFollowsWatermark
  <1>1. GenerationInv /\ [Next]_vars
          => [last_seq' # last_seq => refresh_gen' > refresh_gen]_vars
    BY GenerationStep
  <1>2. QED
    BY <1>1, GenerationInvInit, GenerationInvNext, PTL DEF Spec, GenerationFollowsWatermark

\* The full invariant holds when the mount opens.
LEMMA IInvInit == Init => IInv
  <1> SUFFICES ASSUME Init PROVE IInv
    OBVIOUS
  <1>1. TypeOK /\ NewestIsLogged /\ RingHolds
    BY TypeInit, StoreInitLog DEF Init
  <1>2. \A w \in Workers : pc[w] = "idle" /\ version[w] = 0
    BY DEF Init
  <1>3. SingleFlight /\ WatermarkHasCause /\ ModeFits /\ JobCovered
    BY <1>2 DEF SingleFlight, WatermarkHasCause, ModeFits, JobCovered, Holding, LogRead
  <1>4. last_seq = seq /\ last_data_version = data_version
    BY <1>1, RingReads DEF Init
  <1>5. VersionBehind
    BY <1>1, <1>2, <1>4 DEF VersionBehind, LogRead, SeqRead, TypeOK, StoreTypeOK
  <1>6. \A id \in Ids : /\ snapshot[id] = render_one(KeyOf(rows[id]), TagsOf(rows[id]))
                        /\ job.keys[id] = None /\ job.states[id] = None
    BY DEF Init, NoJob, NoKeys
  <1>7. WatermarkBehind
    BY <1>1, <1>4, <1>6 DEF WatermarkBehind, InSync, TypeOK, StoreTypeOK
  <1>8. TreeFlagged
    BY <1>2 DEF TreeFlagged, Init
  <1>9. Sound
    <2>1. \A id \in Ids : Live(id) => rows[id].life <= seq
      BY DEF Init, StoreInit, Live
    <2>2. \A id \in Ids : KeySound(KeyOf(rows[id]), rows[id], seq)
      BY <1>1, <2>1, KeySoundNow DEF TypeOK, StoreTypeOK, Live
    <2>3. \A id \in Ids : StateSound(snapshot[id], rows[id], seq)
      BY <1>1, <1>6, <2>2, RowKeys, RenderSound DEF TypeOK, StoreTypeOK
    <2>4. QED
      BY <1>6, <2>1, <2>3, NoneSound DEF Sound
  <1>10. QED
    BY <1>1, <1>3, <1>5, <1>7, <1>8, <1>9 DEF IInv

\* Every step preserves it while no external truncation empties the ring.
LEMMA IInvNext ==
    ASSUME MaxTruncations = 0
    PROVE  IInv /\ [Next]_vars => IInv'
  <1> SUFFICES ASSUME IInv, [Next]_vars PROVE IInv'
    OBVIOUS
  <1> USE DEF IInv
  <1>1. TypeOK' /\ SingleFlight' /\ NewestIsLogged' /\ WatermarkHasCause'
    BY TypeNext, SingleFlightNext, NewestIsLoggedNext, WatermarkHasCauseNext
  <1>2. Sound' /\ ModeFits' /\ RingHolds'
    BY SoundNext, ModeFitsNext, RingHoldsNext
  <1>3. WatermarkBehind' /\ JobCovered'
    BY WatermarkBehindNext, JobCoveredNext
  <1>4. VersionBehind' /\ TreeFlagged'
    BY VersionBehindNext, TreeFlaggedNext
  <1>5. QED
    BY <1>1, <1>2, <1>3, <1>4

\* The invariant says what NoLostUpdate does once nothing is in flight.
LEMMA IInvImplies == IInv => NoLostUpdate
  <1> SUFFICES ASSUME IInv, Settled, NEW id \in Ids
               PROVE  tree[id] = TruePath(id) \/ Reused(id)
    BY DEF NoLostUpdate
  <1> USE DEF IInv
  <1>1. \A w \in Workers : pc[w] \notin Holding
    BY DEF Settled, SingleFlight
  <1>2. tree = Paths_of(snapshot)
    BY <1>1 DEF Settled, TreeFlagged, Holding
  <1>3. seq <= last_seq
    BY DEF Settled, VersionBehind
  <1>4. InSync(snapshot[id], rows[id])
    <2>1. ~(logged[id] > last_seq)
      BY <1>3 DEF TypeOK, StoreTypeOK
    <2>2. QED
      BY <1>1, <2>1 DEF WatermarkBehind, Holding
  <1>5. CASE snapshot[id] = render_one(KeyOf(rows[id]), TagsOf(rows[id]))
    <2>1. tree[id] = IF snapshot[id] = None THEN None ELSE snapshot[id].path
      BY <1>2 DEF Paths_of
    <2>2. rows[id] \in Row \cup {None}
      BY DEF TypeOK, StoreTypeOK
    <2>3. CASE rows[id] = None
      BY <1>5, <2>1, <2>3 DEF render_one, KeyOf, TruePath, Live
    <2>4. CASE rows[id] # None
      <3>1. KeyOf(rows[id]) # None /\ KeyOf(rows[id]).format = rows[id].format
            /\ TagsOf(rows[id]) = rows[id].tags
        BY <2>2, <2>4, KeyOfNone DEF TagsOf
      <3>2. CASE rows[id].tags \in Skipped
        BY <1>5, <2>1, <2>4, <3>1, <3>2 DEF render_one, TruePath, Live
      <3>3. CASE rows[id].tags \notin Skipped
        <4>1. snapshot[id].path = <<rows[id].format, rows[id].tags>>
          BY <1>5, <3>1, <3>3 DEF render_one
        <4>2. snapshot[id] # None
          <5>1. snapshot[id] \in TrackRenderState
            <6>1. KeyOf(rows[id]) \in RenderKey /\ TagsOf(rows[id]) \in Tags
              BY <2>2, <3>1, KeyOfType
            <6>2. QED
              BY <1>5, <3>1, <3>3, <6>1 DEF render_one, RenderKey, TrackRenderState, Path
          <5>2. QED
            BY <5>1, RefreshAssumption
        <4>3. QED
          BY <2>1, <2>4, <3>3, <4>1, <4>2 DEF TruePath, Live
      <3>4. QED
        BY <3>2, <3>3
    <2>5. QED
      BY <2>3, <2>4
  <1>6. CASE snapshot[id] # render_one(KeyOf(rows[id]), TagsOf(rows[id]))
    BY <1>4, <1>6 DEF InSync, Reused, Live
  <1>7. QED
    BY <1>5, <1>6

\* A poll half done has read what is current or logged past the watermark it
\* will stamp; a data_version is never stamped with an older watermark than
\* its own; a tree that lags behind the snapshot is remembered by a flag, a
\* poisoned lock or the rebuild in progress.
THEOREM PollInvariant ==
    ASSUME MaxTruncations = 0
    PROVE  Spec => []IInv
  <1>1. IInv /\ [Next]_vars => IInv'
    BY IInvNext
  <1>2. QED
    BY <1>1, IInvInit, PTL DEF Spec

\* No update is lost, whatever commits fall between the reads of a poll,
\* whichever reads fail, whoever panics and however small the ring is, as
\* long as nobody truncates the changelog behind the mount's back.
THEOREM NothingLost ==
    ASSUME MaxTruncations = 0
    PROVE  Spec => []NoLostUpdate
  BY PollInvariant, IInvImplies, PTL

(***************************************************************************)
(* Freshness.                                                              *)
(***************************************************************************)

\* A state rendered at some moments stays so as the history grows, and for
\* any earlier bound.
LEMMA RenderedFromGrows ==
    ASSUME NEW h, NEW g, NEW top \in Nat, NEW top2 \in Nat, top <= top2,
           \A m \in 0..top : g[m] = h[m],
           NEW id, NEW from \in Nat, NEW earlier \in Nat, earlier <= from, NEW s,
           RenderedFrom(h, top, id, from, s)
    PROVE  RenderedFrom(g, top2, id, earlier, s)
  <1>1. PICK k \in 0..top, t \in 0..top :
          /\ k <= t
          /\ s = render_one(KeyOf(h[k][id]), TagsOf(h[t][id]))
          /\ from <= k \/ \E m \in from..top : Fresh!Mistaken(h[k][id], h[m][id])
    BY DEF RenderedFrom
  <1>2. /\ k \in 0..top2 /\ t \in 0..top2 /\ h[k] = g[k] /\ h[t] = g[t]
    BY <1>1
  <1>3. earlier <= k \/ \E m \in earlier..top2 : Fresh!Mistaken(g[k][id], g[m][id])
    <2>1. CASE from <= k
      BY <1>1, <2>1
    <2>2. CASE \E m \in from..top : Fresh!Mistaken(h[k][id], h[m][id])
      <3>1. PICK m \in from..top : Fresh!Mistaken(h[k][id], h[m][id])
        BY <2>2
      <3>2. m \in earlier..top2 /\ h[m] = g[m]
        BY <3>1
      <3>3. QED
        BY <1>2, <3>1, <3>2
    <2>3. QED
      BY <1>1, <2>1, <2>2
  <1>4. QED
    BY <1>1, <1>2, <1>3 DEF RenderedFrom

\* What is as new as one moment is as new as those before it.
LEMMA EarlierBound ==
    ASSUME data_version \in Nat, NEW id, NEW from \in Nat, NEW earlier \in Nat,
           earlier <= from, NEW s, StateReadSince(id, from, s)
    PROVE  StateReadSince(id, earlier, s)
  <1>1. data_version <= data_version /\ \A m \in 0..data_version : hist[m] = hist[m]
    OBVIOUS
  <1>2. RenderedFrom(hist, data_version, id, earlier, s)
    BY <1>1, RenderedFromGrows DEF StateReadSince
  <1>3. QED
    BY <1>2 DEF StateReadSince

\* A key read at `from' or later, rendered with the tags of this moment.
LEMMA RendersSince ==
    ASSUME HistoryOK, data_version \in Nat, NEW id \in Ids, NEW from \in Nat, NEW k,
           KeyReadSince(id, from, k)
    PROVE  StateReadSince(id, from, render_one(k, TagsOf(rows[id])))
  <1>1. PICK m \in from..data_version : k = KeyOf(hist[m][id])
    BY DEF KeyReadSince
  <1>2. m \in 0..data_version /\ m <= data_version /\ from <= m /\ data_version \in 0..data_version
    BY <1>1
  <1>3. rows[id] = hist[data_version][id]
    BY DEF HistoryOK
  <1>4. QED
    BY <1>1, <1>2, <1>3 DEF StateReadSince, RenderedFrom

\* The key of this moment.
LEMMA KeyReadNow ==
    ASSUME HistoryOK, data_version \in Nat, NEW id \in Ids,
           NEW from \in Nat, from <= data_version
    PROVE  KeyReadSince(id, from, KeyOf(rows[id]))
  <1>1. data_version \in from..data_version /\ rows[id] = hist[data_version][id]
    BY DEF HistoryOK
  <1>2. QED
    BY <1>1 DEF KeyReadSince

\* A state found in step with its row is as new as this moment.
LEMMA InSyncIsNow ==
    ASSUME HistoryOK, data_version \in Nat, NEW id \in Ids, rows[id] \in Row \cup {None},
           NEW from \in Nat, from <= data_version, NEW old \in Nat,
           NEW s \in TrackRenderState \cup {None},
           StateReadSince(id, old, s), InSync(s, rows[id])
    PROVE  StateReadSince(id, from, s)
  <1>1. CASE s = render_one(KeyOf(rows[id]), TagsOf(rows[id]))
    BY <1>1, KeyReadNow, RendersSince
  <1>2. CASE /\ rows[id] # None /\ s # None
             /\ s.life # rows[id].life
             /\ s.content_version = rows[id].content_version
             /\ s.format = rows[id].format
    <2>1. PICK k \in 0..data_version, t \in 0..data_version :
            /\ k <= t
            /\ s = render_one(KeyOf(hist[k][id]), TagsOf(hist[t][id]))
      BY DEF StateReadSince, RenderedFrom
    <2>2. hist[k][id] \in Row \cup {None}
      BY DEF HistoryOK
    <2>3. KeyOf(hist[k][id]) # None
      BY <1>2, <2>1 DEF render_one
    <2>4. hist[k][id] # None
      BY <2>3 DEF KeyOf
    <2>5. /\ s.life = hist[k][id].life /\ s.format = hist[k][id].format
          /\ s.content_version = hist[k][id].content_version
      BY <1>2, <2>1, <2>4 DEF render_one, KeyOf
    <2>6. Fresh!Mistaken(hist[k][id], hist[data_version][id])
      BY <1>2, <2>4, <2>5 DEF Fresh!Mistaken, HistoryOK
    <2>7. data_version \in from..data_version
      OBVIOUS
    <2>8. QED
      BY <2>1, <2>6, <2>7 DEF StateReadSince, RenderedFrom
  <1>3. QED
    BY <1>1, <1>2 DEF InSync

\* The path of a state is a path the abstract specification allows.
LEMMA PathOfState ==
    ASSUME HistoryOK, data_version \in Nat, NEW id \in Ids, NEW from \in Nat,
           NEW s \in TrackRenderState \cup {None}, StateReadSince(id, from, s)
    PROVE  Fresh!RenderedSince(id, from, IF s = None THEN None ELSE s.path)
  <1>1. PICK k \in 0..data_version, t \in 0..data_version :
          /\ k <= t
          /\ s = render_one(KeyOf(hist[k][id]), TagsOf(hist[t][id]))
          /\ from <= k \/ \E m \in from..data_version : Fresh!Mistaken(hist[k][id], hist[m][id])
    BY DEF StateReadSince, RenderedFrom
  <1>2. hist[k][id] \in Row \cup {None}
    BY DEF HistoryOK
  <1>3. (IF s = None THEN None ELSE s.path) = Fresh!PathOf(hist[k][id], hist[t][id])
    <2>1. CASE s = None
      <3>1. KeyOf(hist[k][id]) = None \/ TagsOf(hist[t][id]) \in Skipped
        <4>1. SUFFICES ASSUME KeyOf(hist[k][id]) # None, TagsOf(hist[t][id]) \notin Skipped
                       PROVE  FALSE
          OBVIOUS
        <4>2. hist[t][id] \in Row \cup {None}
          BY DEF HistoryOK
        <4>3. KeyOf(hist[k][id]) \in RenderKey /\ TagsOf(hist[t][id]) \in Tags
          BY <1>2, <4>1, <4>2, KeyOfType
        <4>4. s \in TrackRenderState
          BY <1>1, <4>1, <4>3 DEF render_one, RenderKey, TrackRenderState, Path
        <4>5. QED
          BY <2>1, <4>4, RefreshAssumption
      <3>2. KeyOf(hist[k][id]) = None => hist[k][id] = None
        BY <1>2, KeyOfNone
      <3>3. QED
        BY <2>1, <3>1, <3>2 DEF Fresh!PathOf, TagsOf
    <2>2. CASE s # None
      <3>1. KeyOf(hist[k][id]) # None /\ TagsOf(hist[t][id]) \notin Skipped
        BY <1>1, <2>2 DEF render_one
      <3>2. hist[k][id] # None /\ KeyOf(hist[k][id]).format = hist[k][id].format
        BY <1>2, <3>1, KeyOfNone DEF KeyOf
      <3>3. s.path = <<hist[k][id].format, TagsOf(hist[t][id])>>
        BY <1>1, <3>1, <3>2 DEF render_one
      <3>4. QED
        BY <2>2, <3>1, <3>2, <3>3 DEF Fresh!PathOf, TagsOf
    <2>3. QED
      BY <2>1, <2>2
  <1>4. QED
    BY <1>1, <1>3 DEF Fresh!RenderedSince

\* The history of a step: nothing of the past changes.
Grows ==
    /\ data_version \in Nat /\ data_version' \in Nat /\ data_version <= data_version'
    /\ \A m \in 0..data_version : hist'[m] = hist[m]

\* hist keeps every past state of the store and ends in the current one.
LEMMA HistoryGrows ==
    ASSUME TypeOK, HistoryOK, [HistoryNext]_historyVars
    PROVE  HistoryOK' /\ Grows
  <1>1. data_version \in Nat /\ rows \in [Ids -> Row \cup {None}]
    BY DEF TypeOK, StoreTypeOK
  <1>2. CASE HistoryNext /\ Write
    <2>1. data_version' = data_version + 1 /\ rows' \in [Ids -> Row \cup {None}]
      BY <1>2, WriteStep DEF LogStep, StoreTypeOK
    <2>2. hist' = [m \in 0..data_version' |-> IF m = data_version' THEN rows' ELSE hist[m]]
      BY <1>2 DEF HistoryNext
    <2>3. QED
      BY <1>1, <2>1, <2>2 DEF HistoryOK, Grows
  <1>3. CASE HistoryNext /\ ~Write
    <2>1. data_version' = data_version /\ rows' = rows
      BY <1>3, MountLeavesStore DEF HistoryNext, storeVars
    <2>2. hist' = [m \in 0..data_version' |-> IF m = data_version' THEN rows' ELSE hist[m]]
      BY <1>3 DEF HistoryNext
    <2>3. QED
      BY <1>1, <2>1, <2>2 DEF HistoryOK, Grows
  <1>4. CASE UNCHANGED historyVars
    BY <1>1, <1>4 DEF HistoryOK, Grows, historyVars, vars, storeVars
  <1>5. QED
    BY <1>2, <1>3, <1>4

\* Everything read before a step is as new after it.
LEMMA StateKept ==
    ASSUME Grows, NEW id, NEW from \in Nat, NEW earlier \in Nat, earlier <= from, NEW s,
           StateReadSince(id, from, s)
    PROVE  RenderedFrom(hist', data_version', id, earlier, s)
  BY RenderedFromGrows DEF StateReadSince, Grows

\* A key read since some moment before a step is as new after it.
LEMMA KeyKept ==
    ASSUME Grows, NEW id, NEW from \in Nat, NEW k, KeyReadSince(id, from, k)
    PROVE  \E m \in from..data_version' : k = KeyOf(hist'[m][id])
  <1>1. PICK m \in from..data_version : k = KeyOf(hist[m][id])
    BY DEF KeyReadSince
  <1>2. m \in from..data_version' /\ hist'[m] = hist[m]
    BY <1>1 DEF Grows
  <1>3. QED
    BY <1>1, <1>2

\* The bounds a holder reads by are moments there were.
LEMMA SinceType ==
    ASSUME TypeOK, VersionBehind, NEW w \in Workers
    PROVE  /\ Since(w) \in Nat /\ Since(w) <= data_version
           /\ last_data_version \in Nat /\ last_data_version <= Since(w)
           /\ version[w] \in Nat /\ version[w] <= Since(w)
  BY DEF TypeOK, StoreTypeOK, VersionBehind, Since

\* Program points at which a job holds what it has read.
ReadPoints == {"inc_keys", "inc_tags", "inc_publish", "inc_stamp",
               "full_tags", "full_publish", "full_stamp"}

\* A step that reads nothing, publishes nothing and stamps nothing.
LEMMA ReadsFrame ==
    ASSUME TypeOK, VersionBehind, Grows, ReadsSince,
           UNCHANGED <<snapshot, last_data_version>>,
           \A w \in Workers : pc'[w] \in ReadPoints =>
             pc'[w] = pc[w] /\ version'[w] = version[w] /\ job' = job
    PROVE  ReadsSince'
  <1>1. SnapshotSince'
    <2> SUFFICES ASSUME NEW id \in Ids
                 PROVE  RenderedFrom(hist', data_version', id, last_data_version', snapshot'[id])
      BY DEF SnapshotSince, StateReadSince
    <2>1. last_data_version \in Nat /\ StateReadSince(id, last_data_version, snapshot[id])
      BY DEF TypeOK, ReadsSince, SnapshotSince
    <2>2. QED
      BY <2>1, StateKept
  <1>2. ASSUME NEW w \in Workers, NEW id \in Ids, pc'[w] \in ReadPoints PROVE JobSince(w, id)'
    <2>1. pc'[w] = pc[w] /\ version'[w] = version[w] /\ job' = job
      BY <1>2
    <2>2. /\ JobSince(w, id) /\ Since(w)' = Since(w) /\ Since(w) \in Nat
          /\ Touched' = Touched /\ MutatedSnapshot' = MutatedSnapshot
      BY <2>1, SinceType, MutatedFrame
         DEF ReadsSince, Since, Touched, Changed, Added, Removed
    <2>3. \A s : StateReadSince(id, Since(w), s) =>
                   RenderedFrom(hist', data_version', id, Since(w), s)
      BY <2>2, StateKept
    <2>4. \A k : KeyReadSince(id, Since(w), k) =>
                   \E m \in Since(w)..data_version' : k = KeyOf(hist'[m][id])
      BY <2>2, KeyKept
    <2>5. QED
      BY <2>1, <2>2, <2>3, <2>4 DEF JobSince, StateReadSince, KeyReadSince
  <1>3. ASSUME NEW w \in Workers, NEW id \in Ids, pc'[w] \notin ReadPoints PROVE JobSince(w, id)'
    BY <1>3 DEF JobSince, ReadPoints
  <1>4. QED
    BY <1>1, <1>2, <1>3 DEF ReadsSince

\* A step of the holder w: nobody else has read anything.
LEMMA ReadsByHolder ==
    ASSUME TypeOK, SingleFlight, NEW w \in Workers, pc[w] \in Holding,
           NEW p, Goto(w, p), SnapshotSince',
           \A id \in Ids : JobSince(w, id)'
    PROVE  ReadsSince'
  <1>1. ASSUME NEW v \in Workers, v # w, NEW id \in Ids PROVE JobSince(v, id)'
    <2>1. pc'[v] \notin Holding
      BY <1>1 DEF SingleFlight, Goto, TypeOK
    <2>2. QED
      BY <2>1 DEF JobSince, Holding
  <1>2. QED
    BY <1>1 DEF ReadsSince

\* A key that tells a track apart from its snapshot by nothing.
LEMMA UnchangedInSync ==
    ASSUME NEW r \in Row \cup {None}, NEW s \in TrackRenderState \cup {None},
           NEW top \in Nat, StateSound(s, r, top),
           KeyOf(r) = None <=> s = None,
           s # None => /\ s.content_version = KeyOf(r).content_version
                       /\ s.format = KeyOf(r).format
    PROVE  InSync(s, r)
  <1>1. CASE s = None
    BY <1>1 DEF InSync, render_one
  <1>2. CASE s # None
    <2>1. r # None /\ s.content_version = r.content_version /\ s.format = r.format
      BY <1>2, KeyOfNone
    <2>2. QED
      BY <1>2, <2>1, SameKeyInSync
  <1>3. QED
    BY <1>1, <1>2

\* Every step that is none of the holder's reads, publications and stamps.
LEMMA ReadsUntouched ==
    ASSUME TypeOK, SingleFlight, VersionBehind, Grows, ReadsSince, [Next]_vars,
           ~ \E w \in Workers :
               \/ IncLog(w) \/ IncKeys(w) \/ IncTags(w) \/ IncPublish(w) \/ IncPanics(w)
               \/ IncStamp(w) \/ FullKeys(w) \/ FullTags(w) \/ FullPublish(w) \/ FullStamp(w)
    PROVE  ReadsSince'
  <1> SUFFICES
        /\ UNCHANGED <<snapshot, last_data_version>>
        /\ \A v \in Workers : pc'[v] \in ReadPoints =>
             pc'[v] = pc[v] /\ version'[v] = version[v] /\ job' = job
    BY ReadsFrame
  <1> USE DEF ReadPoints
  <1>1. CASE Write \/ UNCHANGED vars
    BY <1>1 DEF Write, mountVars, vars
  <1>2. CASE \E g \in {"interval", "backoff"} : TimeElapses(g)
    BY <1>2 DEF TimeElapses
  <1>3. ASSUME NEW w \in Workers,
               \/ PollForced(w) \/ PollCurrent(w) \/ PollChanged(w)
               \/ PollReadFails(w) \/ CasFails(w)
        PROVE  /\ UNCHANGED <<snapshot, last_data_version>>
               /\ \A v \in Workers : pc'[v] \in ReadPoints =>
                    pc'[v] = pc[v] /\ version'[v] = version[v] /\ job' = job
    BY <1>3 DEF PollForced, PollCurrent, PollChanged, PollReadFails, CasFails, PollReads,
                At, Goto, mountVars, TypeOK
  <1>4. ASSUME NEW w \in Workers, CasWins(w)
        PROVE  /\ UNCHANGED <<snapshot, last_data_version>>
               /\ \A v \in Workers : pc'[v] \notin ReadPoints
    BY <1>4 DEF CasWins, At, Goto, mountVars, TypeOK, SingleFlight, Holding
  <1>5. ASSUME NEW w \in Workers, ForceVersion(w) \/ ForceSeq(w) \/ ForceSwap(w) \/ GapSeq(w)
        PROVE  /\ UNCHANGED <<snapshot, last_data_version>>
               /\ \A v \in Workers : pc'[v] \notin ReadPoints
    BY <1>5 DEF ForceVersion, ForceSeq, ForceSwap, GapSeq, At, Goto, mountVars, TypeOK,
                SingleFlight, Holding
  <1>6. ASSUME NEW w \in Workers, IncFails(w) \/ ForceFails(w) \/ GapFails(w) \/ FullPanics(w)
        PROVE  /\ UNCHANGED <<snapshot, last_data_version>>
               /\ \A v \in Workers : pc'[v] \notin ReadPoints
    BY <1>6 DEF IncFails, ForceFails, GapFails, FullPanics, Release, At, Goto, mountVars, TypeOK,
                SingleFlight, Holding
  <1>7. QED
    BY <1>1, <1>2, <1>3, <1>4, <1>5, <1>6 DEF Next, Progress, Fault

\* A snapshot left alone, and its stamp with it.
LEMMA SnapshotKept ==
    ASSUME TypeOK, Grows, ReadsSince, UNCHANGED <<snapshot, last_data_version>>
    PROVE  SnapshotSince'
  <1> SUFFICES ASSUME NEW id \in Ids
               PROVE  RenderedFrom(hist', data_version', id, last_data_version, snapshot[id])
    BY DEF SnapshotSince, StateReadSince
  <1>1. QED
    BY StateKept DEF TypeOK, ReadsSince, SnapshotSince

\* A snapshot replaced by states read since, under a stamp read no later.
LEMMA SnapshotReplaced ==
    ASSUME TypeOK, VersionBehind, Grows, NEW w \in Workers,
           last_data_version' \in {last_data_version, version[w]},
           \A id \in Ids : StateReadSince(id, Since(w), snapshot'[id])
    PROVE  SnapshotSince'
  <1> SUFFICES ASSUME NEW id \in Ids
               PROVE  RenderedFrom(hist', data_version', id, last_data_version', snapshot'[id])
    BY DEF SnapshotSince, StateReadSince
  <1>1. last_data_version' \in Nat /\ last_data_version' <= Since(w) /\ Since(w) \in Nat
    BY SinceType
  <1>2. QED
    BY <1>1, StateKept

\* The changelog does not name a track: the snapshot is current for it.
LEMMA LogReadsSince ==
    ASSUME IInv, HistoryOK, Grows, ReadsSince, NEW w \in Workers, IncLog(w)
    PROVE  ReadsSince'
  <1> USE DEF IInv
  <1>1. /\ pc[w] = "inc_log" /\ Goto(w, "inc_keys") /\ pc'[w] = "inc_keys"
        /\ UNCHANGED <<storeVars, snapshot, last_seq, last_data_version, version>>
    BY DEF IncLog, At, Goto, TypeOK, mountVars
  <1>2. SnapshotSince'
    BY <1>1, SnapshotKept
  <1>3. /\ job'.changed_ids = ChangedSince(last_seq)
        /\ job'.mode = IF ChangelogGap THEN "gap" ELSE "inc"
    BY DEF IncLog, Job, TypeOK
  <1>4. job'.mode = "inc" => floor <= last_seq
    BY <1>3, RingReads DEF ChangelogGap, TypeOK, StoreTypeOK
  <1>5. ASSUME NEW id \in Ids, job'.mode = "inc", id \notin job'.changed_ids
        PROVE  StateReadSince(id, Since(w), snapshot[id])
    <2>1. ~(logged[id] > last_seq)
      BY <1>3, <1>4, <1>5 DEF ChangedSince, TypeOK, StoreTypeOK
    <2>2. \A v \in Workers : pc[v] # "inc_stamp"
      BY <1>1 DEF SingleFlight, Holding
    <2>3. InSync(snapshot[id], rows[id])
      BY <2>1, <2>2 DEF WatermarkBehind
    <2>4. StateReadSince(id, last_data_version, snapshot[id])
      BY DEF ReadsSince, SnapshotSince
    <2>5. QED
      BY <2>3, <2>4, SinceType, InSyncIsNow DEF TypeOK, StoreTypeOK
  <1>6. ASSUME NEW id \in Ids PROVE JobSince(w, id)'
    <2>1. Since(w)' = Since(w) /\ Since(w) \in Nat
      BY <1>1, SinceType DEF Since
    <2>2. ASSUME job'.mode = "inc", id \notin job'.changed_ids
          PROVE  RenderedFrom(hist', data_version', id, Since(w)', snapshot'[id])
      BY <1>1, <1>5, <2>1, <2>2, StateKept
    <2>3. QED
      BY <1>1, <2>2 DEF JobSince, StateReadSince
  <1>7. QED
    BY <1>1, <1>2, <1>6, ReadsByHolder DEF Holding

\* The keys of the tracks it names; one that agrees with the snapshot says
\* that the snapshot is current.
LEMMA KeysReadSince ==
    ASSUME IInv, HistoryOK, Grows, ReadsSince, NEW w \in Workers, IncKeys(w)
    PROVE  ReadsSince'
  <1> USE DEF IInv
  <1>1. /\ pc[w] = "inc_keys"
        /\ Goto(w, IF job.mode = "gap" THEN "gap_seq" ELSE "inc_tags")
        /\ pc'[w] = IF job.mode = "gap" THEN "gap_seq" ELSE "inc_tags"
        /\ UNCHANGED <<storeVars, snapshot, last_seq, last_data_version, version>>
    BY DEF IncKeys, At, Goto, TypeOK, mountVars
  <1>2. SnapshotSince'
    BY <1>1, SnapshotKept
  <1>3. /\ job'.mode = job.mode /\ job'.changed_ids = job.changed_ids
        /\ job.mode # "gap" => \A id \in job.changed_ids : job'.keys[id] = KeyOf(rows[id])
    BY JobFields DEF IncKeys, Job, TypeOK
  <1>4. Since(w)' = Since(w) /\ Since(w) \in Nat /\ Since(w) <= data_version
    BY <1>1, SinceType DEF Since
  <1>5. ASSUME NEW id \in Ids, job.mode # "gap", id \in job.changed_ids, id \notin Touched'
        PROVE  StateReadSince(id, Since(w), snapshot[id])
    <2>1. /\ rows[id] \in Row \cup {None} /\ snapshot[id] \in TrackRenderState \cup {None}
          /\ seq \in Nat /\ data_version \in Nat /\ last_data_version \in Nat
      BY DEF TypeOK, StoreTypeOK
    <2>2. /\ KeyOf(rows[id]) = None <=> snapshot[id] = None
          /\ snapshot[id] # None =>
               /\ snapshot[id].content_version = KeyOf(rows[id]).content_version
               /\ snapshot[id].format = KeyOf(rows[id]).format
      BY <1>1, <1>3, <1>5 DEF Touched, Changed, Added, Removed
    <2>3. InSync(snapshot[id], rows[id])
      BY <2>1, <2>2, UnchangedInSync DEF Sound
    <2>4. StateReadSince(id, last_data_version, snapshot[id])
      BY DEF ReadsSince, SnapshotSince
    <2>5. QED
      BY <1>4, <2>1, <2>3, <2>4, InSyncIsNow
  <1>6. ASSUME NEW id \in Ids PROVE JobSince(w, id)'
    <2>1. ASSUME job.mode # "gap", id \in job.changed_ids
          PROVE  KeyReadSince(id, Since(w), job.keys[id])'
      <3>1. data_version \in Nat /\ KeyReadSince(id, Since(w), KeyOf(rows[id]))
        BY <1>4, KeyReadNow DEF TypeOK, StoreTypeOK
      <3>2. \E m \in Since(w)..data_version' : KeyOf(rows[id]) = KeyOf(hist'[m][id])
        BY <1>4, <3>1, KeyKept
      <3>3. QED
        BY <1>3, <1>4, <2>1, <3>2 DEF KeyReadSince
    <2>2. ASSUME job.mode # "gap", id \in job.changed_ids, id \notin Touched'
          PROVE  StateReadSince(id, Since(w), snapshot[id])'
      <3>1. RenderedFrom(hist', data_version', id, Since(w), snapshot[id])
        BY <1>4, <1>5, <2>2, StateKept
      <3>2. QED
        BY <1>1, <1>4, <3>1 DEF StateReadSince
    <2>3. ASSUME job.mode = "inc", id \notin job.changed_ids
          PROVE  StateReadSince(id, Since(w), snapshot[id])'
      <3>1. StateReadSince(id, Since(w), snapshot[id])
        BY <1>1, <2>3 DEF ReadsSince, JobSince
      <3>2. RenderedFrom(hist', data_version', id, Since(w), snapshot[id])
        BY <1>4, <3>1, StateKept
      <3>3. QED
        BY <1>1, <1>4, <3>2 DEF StateReadSince
    <2>4. QED
      BY <1>1, <1>3, <2>1, <2>2, <2>3 DEF JobSince
  <1>7. QED
    BY <1>1, <1>2, <1>6, ReadsByHolder DEF Holding

\* The tags of what changed or was added, and the states they render.
LEMMA TagsReadSince ==
    ASSUME IInv, HistoryOK, Grows, ReadsSince, NEW w \in Workers, IncTags(w)
    PROVE  ReadsSince'
  <1> USE DEF IInv
  <1>1. /\ pc[w] = "inc_tags" /\ Goto(w, "inc_publish") /\ pc'[w] = "inc_publish"
        /\ UNCHANGED <<storeVars, snapshot, last_seq, last_data_version, version>>
    BY DEF IncTags, At, Goto, TypeOK
  <1>2. SnapshotSince'
    BY <1>1, SnapshotKept
  <1>3. /\ job'.keys = job.keys /\ job'.changed_ids = job.changed_ids
        /\ \A id \in Ids : job'.states[id] =
               IF id \in Changed \cup Added
               THEN render_one(job.keys[id], TagsOf(rows[id])) ELSE None
    BY DEF IncTags, Job, TypeOK
  <1>4. Touched' = Touched
    BY <1>1, <1>3 DEF Touched, Changed, Added, Removed
  <1>5. \A id \in Ids : MutatedSnapshot'[id] =
           IF id \in Touched
           THEN IF id \in Changed \cup Added
                THEN render_one(job.keys[id], TagsOf(rows[id])) ELSE None
           ELSE snapshot[id]
    BY <1>1, <1>3, <1>4 DEF MutatedSnapshot
  <1>6. Since(w)' = Since(w) /\ Since(w) \in Nat /\ data_version \in Nat
    BY <1>1, SinceType DEF Since, TypeOK, StoreTypeOK
  <1>7. ASSUME NEW id \in Ids PROVE StateReadSince(id, Since(w), MutatedSnapshot'[id])
    <2>1. CASE id \in Changed \cup Added
      <3>1. KeyReadSince(id, Since(w), job.keys[id])
        BY <1>1, <2>1 DEF ReadsSince, JobSince, Changed, Added
      <3>2. QED
        BY <1>5, <1>6, <2>1, <3>1, RendersSince DEF Touched
    <2>2. CASE id \in Removed
      <3>1. KeyReadSince(id, Since(w), None) /\ id \notin Changed \cup Added
        BY <1>1, <2>2 DEF ReadsSince, JobSince, Changed, Added, Removed
      <3>2. StateReadSince(id, Since(w), render_one(None, TagsOf(rows[id])))
        BY <1>6, <3>1, RendersSince
      <3>3. QED
        BY <1>5, <2>2, <3>1, <3>2 DEF Touched, render_one
    <2>3. CASE id \notin Touched
      <3>1. StateReadSince(id, Since(w), snapshot[id])
        BY <1>1, <2>3 DEF ReadsSince, JobSince, ModeFits
      <3>2. QED
        BY <1>5, <2>3, <3>1
    <2>4. QED
      BY <2>1, <2>2, <2>3 DEF Touched
  <1>8. ASSUME NEW id \in Ids PROVE JobSince(w, id)'
    <2>1. RenderedFrom(hist', data_version', id, Since(w), MutatedSnapshot'[id])
      BY <1>6, <1>7, StateKept
    <2>2. QED
      BY <1>1, <1>6, <2>1 DEF JobSince, StateReadSince
  <1>9. QED
    BY <1>1, <1>2, <1>8, ReadsByHolder DEF Holding

\* Phase 4, whether it publishes the tree or panics over it.
LEMMA PublishReadsSince ==
    ASSUME IInv, HistoryOK, Grows, ReadsSince, NEW w \in Workers,
           IncPublish(w) \/ IncPanics(w)
    PROVE  ReadsSince'
  <1> USE DEF IInv
  <1>1. /\ pc[w] = "inc_publish" /\ snapshot' = MutatedSnapshot
        /\ UNCHANGED last_data_version
    BY DEF IncPublish, IncPanics, At
  <1>2. \A id \in Ids : StateReadSince(id, Since(w), snapshot'[id])
    BY <1>1 DEF ReadsSince, JobSince
  <1>3. SnapshotSince'
    BY <1>1, <1>2, SnapshotReplaced
  <1>4. CASE IncPublish(w)
    <2>1. Goto(w, "inc_stamp") /\ pc'[w] = "inc_stamp" /\ UNCHANGED <<version, last_data_version>>
      BY <1>4 DEF IncPublish, Goto, TypeOK
    <2>2. Since(w)' = Since(w) /\ Since(w) \in Nat
      BY <2>1, SinceType DEF Since
    <2>3. ASSUME NEW id \in Ids PROVE JobSince(w, id)'
      <3>1. RenderedFrom(hist', data_version', id, Since(w), snapshot'[id])
        BY <1>2, <2>2, StateKept
      <3>2. QED
        BY <2>1, <2>2, <3>1 DEF JobSince, StateReadSince
    <2>4. QED
      BY <1>1, <1>3, <2>1, <2>3, ReadsByHolder DEF Holding
  <1>5. CASE IncPanics(w)
    <2>1. Goto(w, "idle") /\ pc'[w] = "idle"
      BY <1>5 DEF IncPanics, Release, Goto, TypeOK
    <2>2. \A id \in Ids : JobSince(w, id)'
      BY <2>1 DEF JobSince
    <2>3. QED
      BY <1>1, <1>3, <2>1, <2>2, ReadsByHolder DEF Holding
  <1>6. QED
    BY <1>4, <1>5

\* The stamps: the version read first is no newer than anything read since.
LEMMA StampReadsSince ==
    ASSUME IInv, HistoryOK, Grows, ReadsSince, NEW w \in Workers,
           IncStamp(w) \/ FullStamp(w)
    PROVE  ReadsSince'
  <1> USE DEF IInv
  <1>1. pc[w] \in {"inc_stamp", "full_stamp"} /\ last_data_version' = version[w]
    BY DEF IncStamp, StampPoll, FullStamp, At
  <1>2. \A id \in Ids : StateReadSince(id, Since(w), snapshot'[id])
    <2>1. CASE IncStamp(w)
      BY <2>1 DEF IncStamp, StampPoll, At, ReadsSince, JobSince
    <2>2. CASE FullStamp(w)
      BY <2>2 DEF FullStamp, StampPoll, At, ReadsSince, JobSince
    <2>3. QED
      BY <2>1, <2>2
  <1>3. SnapshotSince'
    BY <1>1, <1>2, SnapshotReplaced
  <1>4. Goto(w, "idle") /\ pc'[w] = "idle"
    BY DEF IncStamp, StampPoll, FullStamp, Release, Goto, TypeOK
  <1>5. \A id \in Ids : JobSince(w, id)'
    BY <1>4 DEF JobSince
  <1>6. QED
    BY <1>1, <1>3, <1>4, <1>5, ReadsByHolder DEF Holding

\* A full rebuild reads every key, then all tags, then publishes.
LEMMA FullReadsSince ==
    ASSUME IInv, HistoryOK, Grows, ReadsSince, NEW w \in Workers,
           FullKeys(w) \/ FullTags(w) \/ FullPublish(w)
    PROVE  ReadsSince'
  <1> USE DEF IInv
  <1>1. UNCHANGED <<snapshot, last_data_version, version>>
    BY DEF FullKeys, FullTags, FullPublish, mountVars
  <1>2. SnapshotSince'
    BY <1>1, SnapshotKept
  <1>3. /\ Since(w)' = Since(w) /\ Since(w) \in Nat /\ Since(w) <= data_version
        /\ data_version \in Nat
    BY <1>1, SinceType DEF Since, TypeOK, StoreTypeOK
  <1>4. CASE FullKeys(w)
    <2>1. /\ pc[w] = "full_keys" /\ Goto(w, "full_tags") /\ pc'[w] = "full_tags"
          /\ \A id \in Ids : job'.keys[id] = KeyOf(rows[id])
      BY <1>4 DEF FullKeys, At, Goto, TypeOK, Job
    <2>2. ASSUME NEW id \in Ids PROVE JobSince(w, id)'
      <3>1. KeyReadSince(id, Since(w), KeyOf(rows[id]))
        BY <1>3, KeyReadNow
      <3>2. \E m \in Since(w)..data_version' : KeyOf(rows[id]) = KeyOf(hist'[m][id])
        BY <1>3, <3>1, KeyKept
      <3>3. KeyReadSince(id, Since(w), job.keys[id])'
        BY <1>3, <2>1, <3>2 DEF KeyReadSince
      <3>4. QED
        BY <2>1, <3>3 DEF JobSince
    <2>3. QED
      BY <1>2, <2>1, <2>2, ReadsByHolder DEF Holding
  <1>5. CASE FullTags(w)
    <2>1. /\ pc[w] = "full_tags" /\ Goto(w, "full_publish") /\ pc'[w] = "full_publish"
          /\ \A id \in Ids : job'.states[id] = render_one(job.keys[id], TagsOf(rows[id]))
      BY <1>5 DEF FullTags, At, Goto, TypeOK, Job
    <2>2. ASSUME NEW id \in Ids PROVE JobSince(w, id)'
      <3>1. KeyReadSince(id, Since(w), job.keys[id])
        BY <2>1 DEF ReadsSince, JobSince
      <3>2. StateReadSince(id, Since(w), job'.states[id])
        BY <1>3, <2>1, <3>1, RendersSince
      <3>3. RenderedFrom(hist', data_version', id, Since(w), job'.states[id])
        BY <1>3, <3>2, StateKept
      <3>4. QED
        BY <1>3, <2>1, <3>3 DEF JobSince, StateReadSince
    <2>3. QED
      BY <1>2, <2>1, <2>2, ReadsByHolder DEF Holding
  <1>6. CASE FullPublish(w)
    <2>1. /\ pc[w] = "full_publish" /\ Goto(w, "full_stamp") /\ pc'[w] = "full_stamp"
          /\ job' = job
      BY <1>6 DEF FullPublish, At, Goto, TypeOK
    <2>2. ASSUME NEW id \in Ids PROVE JobSince(w, id)'
      <3>1. StateReadSince(id, Since(w), job.states[id])
        BY <2>1 DEF ReadsSince, JobSince
      <3>2. RenderedFrom(hist', data_version', id, Since(w), job.states[id])
        BY <1>3, <3>1, StateKept
      <3>3. QED
        BY <1>3, <2>1, <3>2 DEF JobSince, StateReadSince
    <2>3. QED
      BY <1>2, <2>1, <2>2, ReadsByHolder DEF Holding
  <1>7. QED
    BY <1>4, <1>5, <1>6

\* Every step keeps what the snapshot and the job hold as new as it was.
LEMMA ReadsSinceNext ==
    ASSUME IInv, HistoryOK, Grows, ReadsSince, [Next]_vars
    PROVE  ReadsSince'
  BY LogReadsSince, KeysReadSince, TagsReadSince, PublishReadsSince, StampReadsSince,
     FullReadsSince, ReadsUntouched DEF IInv

\* A path the abstract specification allows is allowed as history goes on.
LEMMA RenderedKept ==
    ASSUME Grows, NEW id, NEW p, Fresh!RenderedSince(id, 0, p), tree'[id] = p
    PROVE  Fresh!RenderedSince(id, 0, tree[id])'
  <1>1. PICK k \in 0..data_version, t \in 0..data_version :
          k <= t /\ p = Fresh!PathOf(hist[k][id], hist[t][id])
    BY DEF Fresh!RenderedSince
  <1>2. /\ k \in 0..data_version' /\ t \in 0..data_version' /\ 0 <= k
        /\ hist'[k] = hist[k] /\ hist'[t] = hist[t]
    BY <1>1 DEF Grows
  <1>3. tree'[id] = Fresh!PathOf(hist'[k][id], hist'[t][id])
    BY <1>1, <1>2
  <1>4. QED
    BY <1>1, <1>2, <1>3 DEF Fresh!RenderedSince

\* Only publications show new paths, those of states that were read.
LEMMA TreeRenderedNext ==
    ASSUME IInv, HistoryOK, Grows, ReadsSince, TreeRendered, [Next]_vars
    PROVE  TreeRendered'
  <1> USE DEF IInv
  <1>1. SUFFICES ASSUME NEW id \in Ids
                 PROVE  Fresh!RenderedSince(id, 0, tree'[id])
    BY RenderedKept DEF TreeRendered
  <1>2. data_version \in Nat /\ \A w \in Workers : Since(w) \in Nat
    BY SinceType DEF TypeOK, StoreTypeOK
  <1>3. ASSUME NEW w \in Workers, NEW s \in TrackRenderState \cup {None},
               StateReadSince(id, Since(w), s)
        PROVE  Fresh!RenderedSince(id, 0, IF s = None THEN None ELSE s.path)
    <2>1. StateReadSince(id, 0, s)
      BY <1>2, <1>3, EarlierBound
    <2>2. QED
      BY <1>2, <2>1, PathOfState
  <1>4. CASE tree' = tree
    BY <1>4 DEF TreeRendered
  <1>5. ASSUME NEW w \in Workers, IncPublish(w) PROVE Fresh!RenderedSince(id, 0, tree'[id])
    <2>1. /\ pc[w] = "inc_publish"
          /\ MutatedSnapshot[id] \in TrackRenderState \cup {None}
      BY <1>5, MutatedType DEF IncPublish, At
    <2>2. StateReadSince(id, Since(w), MutatedSnapshot[id])
      BY <2>1 DEF ReadsSince, JobSince
    <2>3. \/ tree'[id] = Paths_of(MutatedSnapshot)[id]
          \/ id \in Touched /\ tree'[id] = Paths_of(job.states)[id]
          \/ tree'[id] = tree[id]
      BY <1>5 DEF IncPublish
    <2>4. id \in Touched => Paths_of(job.states)[id] = Paths_of(MutatedSnapshot)[id]
      BY DEF Paths_of, MutatedSnapshot
    <2>5. Fresh!RenderedSince(id, 0, Paths_of(MutatedSnapshot)[id])
      BY <1>3, <2>1, <2>2 DEF Paths_of
    <2>6. QED
      BY <2>3, <2>4, <2>5 DEF TreeRendered
  <1>6. ASSUME NEW w \in Workers, FullPublish(w) PROVE Fresh!RenderedSince(id, 0, tree'[id])
    <2>1. /\ pc[w] = "full_publish" /\ tree' = Paths_of(job.states)
          /\ job.states[id] \in TrackRenderState \cup {None}
      BY <1>6, JobFields DEF FullPublish, At, TypeOK
    <2>2. StateReadSince(id, Since(w), job.states[id])
      BY <2>1 DEF ReadsSince, JobSince
    <2>3. QED
      BY <1>3, <2>1, <2>2 DEF Paths_of
  <1>7. (\A w \in Workers : ~IncPublish(w) /\ ~FullPublish(w)) => tree' = tree
    BY DEF Next, vars, mountVars, Write, Progress, Fault, TimeElapses,
         PollForced, PollCurrent, PollChanged, PollReadFails, CasFails, CasWins,
         IncLog, IncKeys, IncTags, IncPanics, IncStamp, StampPoll, IncFails,
         ForceVersion, ForceSeq, ForceSwap, GapSeq, FullKeys, FullTags,
         FullPanics, FullStamp, StampPoll, ForceFails, GapFails
  <1>8. QED
    BY <1>4, <1>5, <1>6, <1>7

\* What the invariant of the history says of the tree.
LEMMA PromiseHolds ==
    ASSUME IInv, HistoryInv
    PROVE  Fresh!Promise
  <1> USE DEF IInv, HistoryInv
  <1>1. SUFFICES ASSUME NEW id \in Ids
                 PROVE  Fresh!RenderedSince(id, IF RebuildOwed THEN 0 ELSE last_data_version, tree[id])
    BY DEF Fresh!Promise
  <1>2. data_version \in Nat /\ last_data_version \in Nat
    BY DEF TypeOK, StoreTypeOK
  <1>3. CASE RebuildOwed
    BY <1>3 DEF TreeRendered
  <1>4. CASE tree = Paths_of(snapshot)
    <2>1. StateReadSince(id, last_data_version, snapshot[id])
      BY DEF ReadsSince, SnapshotSince
    <2>2. snapshot[id] \in TrackRenderState \cup {None}
      BY DEF TypeOK
    <2>3. Fresh!RenderedSince(id, last_data_version, tree[id])
      BY <1>2, <1>4, <2>1, <2>2, PathOfState DEF Paths_of
    <2>4. QED
      BY <1>3, <2>3
  <1>5. ASSUME NEW w \in Workers, pc[w] = "full_stamp", ~RebuildOwed
        PROVE  Fresh!RenderedSince(id, last_data_version, tree[id])
    <2>1. tree = Paths_of(job.states)
      BY <1>5 DEF TreeFlagged
    <2>2. job.states[id] \in TrackRenderState \cup {None}
      BY JobFields DEF TypeOK
    <2>3. StateReadSince(id, Since(w), job.states[id])
      BY <1>5 DEF ReadsSince, JobSince
    <2>4. StateReadSince(id, last_data_version, job.states[id])
      BY <1>2, <2>3, SinceType, EarlierBound
    <2>5. QED
      BY <1>2, <2>1, <2>2, <2>4, PathOfState DEF Paths_of
  <1>6. QED
    BY <1>3, <1>4, <1>5 DEF TreeFlagged, RebuildOwed

\* No step but a panic owes a rebuild.
LEMMA OwedByPanics ==
    ASSUME TypeOK, [Next]_vars, ~ \E w \in Workers : IncPanics(w) \/ FullPanics(w),
           RebuildOwed'
    PROVE  RebuildOwed
  <1> USE DEF RebuildOwed
  <1>1. CASE Write \/ UNCHANGED vars \/ \E g \in {"interval", "backoff"} : TimeElapses(g)
    BY <1>1 DEF Write, mountVars, vars, TimeElapses
  <1>2. ASSUME NEW w \in Workers,
               \/ PollForced(w) \/ PollCurrent(w) \/ PollChanged(w) \/ PollReadFails(w)
               \/ CasFails(w) \/ CasWins(w)
        PROVE  RebuildOwed
    BY <1>2 DEF PollForced, PollCurrent, PollChanged, PollReadFails, CasFails, CasWins,
                mountVars, NoJob
  <1>3. ASSUME NEW w \in Workers, IncLog(w) \/ IncKeys(w) \/ FullKeys(w) \/ FullTags(w)
        PROVE  RebuildOwed
    BY <1>3 DEF IncLog, IncKeys, FullKeys, FullTags, mountVars, TypeOK, Job
  <1>4. ASSUME NEW w \in Workers, IncTags(w) \/ IncPublish(w) \/ IncStamp(w) \/ IncFails(w)
        PROVE  RebuildOwed
    BY <1>4 DEF IncTags, IncPublish, IncStamp, StampPoll, IncFails, LockOrFlag,
                Release, NoJob, TypeOK, Job
  <1>5. ASSUME NEW w \in Workers,
               ForceVersion(w) \/ ForceSeq(w) \/ ForceSwap(w) \/ GapSeq(w)
        PROVE  RebuildOwed
    BY <1>5 DEF ForceVersion, ForceSeq, ForceSwap, GapSeq, LockOrFlag, mountVars, TypeOK, Job
  <1>6. ASSUME NEW w \in Workers, FullPublish(w) \/ FullStamp(w) PROVE RebuildOwed
    <2>1. job'.was_set => job.was_set
      BY <1>6 DEF FullPublish, FullStamp, StampPoll, Release, NoJob
    <2>2. PICK locks \in SUBSET {"snapshot", "inodes"} : LockOrFlag(locks)
      BY <1>6 DEF FullPublish, FullStamp, StampPoll
    <2>3. /\ needs_rebuild' => needs_rebuild \/ poisoned # {}
          /\ poisoned' # {} => poisoned # {}
      BY <2>2 DEF LockOrFlag
    <2>4. QED
      BY <2>1, <2>3
  <1>7. ASSUME NEW w \in Workers, ForceFails(w) \/ GapFails(w) PROVE RebuildOwed
    <2>1. ~job'.was_set
      BY <1>7 DEF ForceFails, GapFails, Release, NoJob
    <2>2. poisoned' = poisoned
      BY <1>7 DEF ForceFails, GapFails
    <2>3. needs_rebuild' => needs_rebuild \/ job.was_set
      BY <1>7 DEF ForceFails, GapFails, Rearm
    <2>4. QED
      BY <2>1, <2>2, <2>3
  <1>8. QED
    BY <1>1, <1>2, <1>3, <1>4, <1>5, <1>6, <1>7 DEF Next, Progress, Fault

\* Every step of a poll is one the abstract specification has, or stutters.
LEMMA StepIsFresh ==
    ASSUME IInv, HistoryInv, IInv', HistoryInv', [HistoryNext]_historyVars
    PROVE  [Fresh!Next]_(Fresh!vars)
  <1>1. Fresh!Promise'
    <2>1. IInv' /\ HistoryInv' => Fresh!Promise'
      BY PromiseHolds, PTL
    <2>2. QED
      BY <2>1
  <1>2. /\ Grows /\ DOMAIN hist = 0..data_version /\ DOMAIN hist' = 0..data_version'
        /\ TypeOK /\ TypeOK' /\ [Next]_vars /\ last_data_version' \in 0..data_version'
    BY HistoryGrows DEF IInv, HistoryInv, HistoryOK, HistoryNext, historyVars, TypeOK,
                        VersionBehind
  <1>3. CASE HistoryNext /\ Write
    <2>1. data_version' = data_version + 1
      BY <1>2, <1>3, WriteStep DEF LogStep
    <2>2. RebuildOwed' = RebuildOwed /\ UNCHANGED <<last_data_version, tree>>
      BY <1>3 DEF Write, mountVars, RebuildOwed
    <2>3. Fresh!Commit
      BY <1>2, <2>1, <2>2 DEF Fresh!Commit, Grows
    <2>4. QED
      BY <2>3 DEF Fresh!Next
  <1>4. CASE HistoryNext /\ ~Write
    <2>1. data_version' = data_version
      BY <1>4, MountLeavesStore DEF HistoryNext, storeVars
    <2>2. hist' = hist
      <3>1. hist = [m \in 0..data_version |-> hist[m]] /\ hist[data_version] = rows
        BY DEF HistoryInv, HistoryOK
      <3>2. rows' = rows
        BY <1>4, MountLeavesStore DEF HistoryNext, storeVars
      <3>3. hist' = [m \in 0..data_version |-> IF m = data_version THEN rows ELSE hist[m]]
        BY <1>4, <2>1, <3>2 DEF HistoryNext
      <3>4. \A m \in 0..data_version : (IF m = data_version THEN rows ELSE hist[m]) = hist[m]
        BY <3>1
      <3>5. QED
        BY <3>1, <3>3, <3>4
    <2>3. CASE \E w \in Workers : IncPanics(w) \/ FullPanics(w)
      <3>1. RebuildOwed' /\ UNCHANGED <<last_data_version, tree>>
        BY <2>3 DEF IncPanics, FullPanics, RebuildOwed
      <3>2. Fresh!Panic
        BY <2>1, <2>2, <3>1 DEF Fresh!Panic
      <3>3. QED
        BY <3>2 DEF Fresh!Next
    <2>4. CASE ~ \E w \in Workers : IncPanics(w) \/ FullPanics(w)
      <3>1. RebuildOwed' => RebuildOwed
        BY <1>2, <2>4, OwedByPanics
      <3>2. Fresh!Refresh
        BY <1>1, <1>2, <2>1, <2>2, <3>1 DEF Fresh!Refresh
      <3>3. QED
        BY <3>2 DEF Fresh!Next
    <2>5. QED
      BY <2>3, <2>4
  <1>5. CASE UNCHANGED historyVars
    BY <1>5 DEF historyVars, vars, storeVars, mountVars, Fresh!vars, RebuildOwed
  <1>6. QED
    BY <1>3, <1>4, <1>5

\* The mount opens on a tree of the store as it is.
LEMMA HistoryInitOK ==
    ASSUME HistoryInit
    PROVE  HistoryInv /\ Fresh!Init
  <1>1. IInv /\ Init
    BY IInvInit DEF HistoryInit
  <1>2. /\ data_version = 0 /\ last_data_version = 0
        /\ hist = [m \in {0} |-> rows] /\ rows \in [Ids -> Row \cup {None}]
    BY <1>1 DEF HistoryInit, Init, StoreInit, IInv, TypeOK, StoreTypeOK
  <1>3. HistoryOK
    BY <1>2 DEF HistoryOK
  <1>4. ASSUME NEW id \in Ids PROVE StateReadSince(id, 0, snapshot[id])
    <2>1. snapshot[id] = render_one(KeyOf(rows[id]), TagsOf(rows[id]))
      BY <1>1 DEF Init
    <2>2. QED
      BY <1>2, <1>3, <2>1, KeyReadNow, RendersSince
  <1>5. ReadsSince
    BY <1>1, <1>2, <1>4 DEF ReadsSince, SnapshotSince, JobSince, Init
  <1>6. TreeRendered
    <2>1. \A id \in Ids : snapshot[id] \in TrackRenderState \cup {None}
      BY <1>1 DEF IInv, TypeOK
    <2>2. tree = Paths_of(snapshot)
      BY <1>1 DEF Init
    <2>3. QED
      BY <1>2, <1>3, <1>4, <2>1, <2>2, PathOfState DEF TreeRendered, Paths_of
  <1>7. HistoryInv
    BY <1>3, <1>5, <1>6 DEF HistoryInv
  <1>8. ~RebuildOwed
    BY <1>1 DEF Init, RebuildOwed, NoJob
  <1>9. Fresh!Init
    BY <1>1, <1>2, <1>7, <1>8, PromiseHolds DEF Fresh!Init
  <1>10. QED
    BY <1>7, <1>9

\* HonestStamps: the polls of the mount implement Freshness.  Whatever commits
\* fall between the reads of a poll, whoever overtakes whom before the
\* compare-and-swap, whichever reads fail and whoever panics, last_data_version
\* never claims more than the tree shows.
THEOREM HonestStamps ==
    ASSUME MaxTruncations = 0
    PROVE  HistorySpec => StampIsHonest
  <1>1. HistoryInit => IInv /\ HistoryInv /\ Fresh!Init
    BY HistoryInitOK, IInvInit DEF HistoryInit
  <1>2. IInv /\ HistoryInv /\ [HistoryNext]_historyVars => IInv' /\ HistoryInv'
    <2> SUFFICES ASSUME IInv, HistoryInv, [HistoryNext]_historyVars PROVE IInv' /\ HistoryInv'
      OBVIOUS
    <2>1. [Next]_vars
      BY DEF HistoryNext, historyVars
    <2>2. IInv'
      BY <2>1, IInvNext
    <2>3. HistoryOK' /\ Grows
      BY HistoryGrows DEF IInv, HistoryInv
    <2>4. ReadsSince' /\ TreeRendered'
      BY <2>1, <2>3, ReadsSinceNext, TreeRenderedNext DEF HistoryInv
    <2>5. QED
      BY <2>2, <2>3, <2>4 DEF HistoryInv
  <1>3. IInv /\ HistoryInv /\ IInv' /\ HistoryInv' /\ [HistoryNext]_historyVars
          => [Fresh!Next]_(Fresh!vars)
    BY StepIsFresh
  <1>4. QED
    BY <1>1, <1>2, <1>3, PTL DEF HistorySpec, StampIsHonest, Fresh!Spec
=============================================================================
