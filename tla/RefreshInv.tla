----------------------------- MODULE RefreshInv -----------------------------
(***************************************************************************)
(* The inductive invariant behind NoLostUpdate and                         *)
(* GenerationFollowsWatermark.  NoLostUpdate alone is not inductive: it    *)
(* says nothing of a poll that is half done.  What carries it through a    *)
(* poll is, for every track, "what was read is what the row holds now, or  *)
(* the changelog holds an entry for it past the watermark to be stamped".  *)
(***************************************************************************)
EXTENDS Refresh

\* RefreshGuard: at most one worker is past the compare-and-swap, and the
\* flag is up while one is.
SingleFlight ==
    /\ \A w \in Workers : pc[w] \in Holding => refreshing
    /\ \A w, v \in Workers : pc[w] \in Holding /\ pc[v] \in Holding => w = v

\* The newest entry of a ring that holds one belongs to some track.
NewestIsLogged == floor < seq => \E id \in Ids : logged[id] = seq

\* Program points at which the changelog has been read.
LogRead == {"inc_keys", "inc_tags", "inc_publish", "inc_stamp"}

\* A changelog that moves the watermark names a track.
WatermarkHasCause ==
    \A w \in Workers : pc[w] \in LogRead =>
        /\ job.new_seq >= last_seq
        /\ job.new_seq > last_seq => job.changed_ids # {}

\* What a key or a state says of a row r of the same life is of its past, and
\* of its present when the versions agree; no life is newer than seq.
KeySound(k, r, top) ==
    k # None =>
        /\ k.life <= top
        /\ r # None /\ k.life = r.life =>
             /\ k.content_version <= r.content_version
             /\ k.content_version = r.content_version => k.format = r.format

StateSound(s, r, top) ==
    /\ KeySound(s, r, top)
    /\ s # None =>
         /\ s.path = <<s.format, s.path[2]>> /\ s.path[2] \notin Skipped
         /\ (r # None /\ s.life = r.life /\ s.content_version = r.content_version)
              => s.path[2] = r.tags

Sound ==
    \A id \in Ids :
      /\ Live(id) => rows[id].life <= seq
      /\ StateSound(snapshot[id], rows[id], seq)
      /\ KeySound(job.keys[id], rows[id], seq)
      /\ StateSound(job.states[id], rows[id], seq)

\* The state s is the one row r renders to, or cannot be told from it by the
\* render key because SQLite reused the rowid.
InSync(s, r) ==
    \/ s = render_one(KeyOf(r), TagsOf(r))
    \/ /\ r # None /\ s # None
       /\ s.life # r.life
       /\ s.content_version = r.content_version
       /\ s.format = r.format

\* A track that is not current in the snapshot has an entry past the watermark.
WatermarkBehind ==
    /\ last_seq <= seq
    /\ (\A w \in Workers : pc[w] # "inc_stamp")
          => \A id \in Ids : logged[id] > last_seq \/ InSync(snapshot[id], rows[id])

\* What the holder of `refreshing' has read so far.
JobCovered ==
    \A w \in Workers :
      /\ (pc[w] \in {"inc_keys", "inc_tags"} /\ job.mode = "inc") =>
            \A id \in Ids : \/ logged[id] > job.new_seq
                            \/ logged[id] <= last_seq
                            \/ id \in job.changed_ids
      /\ pc[w] = "inc_tags" =>
            \A id \in job.changed_ids : logged[id] > job.new_seq \/ job.keys[id] = KeyOf(rows[id])
      /\ pc[w] = "inc_publish" =>
            \A id \in Ids : logged[id] > job.new_seq \/ InSync(MutatedSnapshot[id], rows[id])
      /\ pc[w] = "inc_stamp" =>
            \A id \in Ids : logged[id] > job.new_seq \/ InSync(snapshot[id], rows[id])
      /\ pc[w] = "full_tags" =>
            \A id \in Ids : logged[id] > job.new_seq \/ job.keys[id] = KeyOf(rows[id])
      /\ pc[w] \in {"full_publish", "full_stamp"} =>
            \A id \in Ids : logged[id] > job.new_seq \/ InSync(job.states[id], rows[id])

\* Points at which job.new_seq is the watermark that will be stamped.
SeqRead == {"inc_tags", "inc_publish", "inc_stamp", "force_swap",
            "full_keys", "full_tags", "full_publish", "full_stamp"}

\* A data_version was read before the watermark it is stamped with.
VersionBehind ==
    /\ last_data_version <= data_version
    /\ last_data_version = data_version => seq <= last_seq
    /\ \A w \in Workers :
         /\ version[w] <= data_version
         /\ pc[w] \in LogRead \cup SeqRead => job.new_seq <= seq
         /\ pc[w] \in SeqRead => job.new_seq >= last_seq
         /\ pc[w] \in LogRead \cup SeqRead /\ version[w] = data_version
              => seq <= job.new_seq

\* The published tree shows the snapshot unless a flag, a poisoned lock or
\* the full rebuild in progress remembers that it does not.
TreeFlagged ==
    /\ \A w \in Workers : pc[w] = "full_stamp" => tree = Paths_of(job.states)
    /\ \/ tree = Paths_of(snapshot)
       \/ needs_rebuild
       \/ poisoned # {}
       \/ \E w \in Workers :
            \/ pc[w] = "full_stamp"
            \/ /\ pc[w] \in {"full_keys", "full_tags", "full_publish"}
               /\ job.mode = "force" /\ job.was_set

\* The mode of a job fits the point its holder is at.
ModeFits ==
    \A w \in Workers :
      /\ pc[w] \in {"inc_tags", "inc_publish", "inc_stamp"} => job.mode = "inc"
      /\ pc[w] = "inc_keys" => job.mode \in {"inc", "gap"}
      /\ pc[w] \in {"force_version", "force_seq", "force_swap"} => job.mode = "force"

\* An external truncation is the one thing that empties the ring.
RingHolds == floor < seq

\* The inductive invariant of a poll whose ring nobody truncates: everything a
\* poll half done has read is current, or logged past the watermark it will
\* stamp, and a tree that lags behind the snapshot is remembered somewhere.
IInv ==
    /\ TypeOK /\ SingleFlight /\ NewestIsLogged /\ WatermarkHasCause
    /\ Sound /\ WatermarkBehind /\ JobCovered /\ VersionBehind
    /\ TreeFlagged /\ ModeFits /\ RingHolds

=============================================================================
