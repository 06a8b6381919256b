--------------------------- MODULE RefreshHistory ---------------------------
(***************************************************************************)
(* Refresh with a history variable, the store after every commit, and the  *)
(* refinement of Freshness: what a poll reads in several snapshots is put  *)
(* to the moments it was read at.                                          *)
(***************************************************************************)
EXTENDS RefreshInv

VARIABLE hist   \* data_version -> rows

historyVars == <<vars, hist>>

HistoryInit == Init /\ hist = [m \in {0} |-> rows]

\* hist records and changes nothing: every step is one of Refresh.
HistoryNext ==
    /\ Next
    /\ hist' = [m \in 0..data_version' |-> IF m = data_version' THEN rows' ELSE hist[m]]

HistorySpec == HistoryInit /\ [][HistoryNext]_historyVars

\* A panic has left a tree that only a full rebuild makes good, and a flag, a
\* poisoned lock or the rebuild in progress remembers it.
RebuildOwed == needs_rebuild \/ poisoned # {} \/ job.was_set

Fresh == INSTANCE Freshness WITH
    now <- data_version, history <- hist, stamp <- last_data_version,
    owed <- RebuildOwed, shown <- tree

\* The stamp a poll leaves behind is honest: the published tree shows no track
\* as it was before the stamped data_version, although changelog, keys and
\* tags are read in separate snapshots, some from before the stamp and some
\* after commits it does not count.
StampIsHonest == Fresh!Spec

(***************************************************************************)
(* What carries it through a poll.                                         *)
(***************************************************************************)

\* The key k was read at a moment of from..data_version.
KeyReadSince(id, from, k) == \E m \in from..data_version : k = KeyOf(hist[m][id])

\* Of the moments up to `top' of a history h: s was rendered from what track id
\* was at `from' or later, or no render key of such a moment can tell.
RenderedFrom(h, top, id, from, s) ==
    \E k, t \in 0..top :
        /\ k <= t
        /\ s = render_one(KeyOf(h[k][id]), TagsOf(h[t][id]))
        /\ \/ from <= k
           \/ \E m \in from..top : Fresh!Mistaken(h[k][id], h[m][id])

StateReadSince(id, from, s) == RenderedFrom(hist, data_version, id, from, s)

\* All that a poll reads, it reads after its data_version and the last stamp.
Since(w) == IF version[w] > last_data_version THEN version[w] ELSE last_data_version

HistoryOK ==
    /\ hist \in [0..data_version -> [Ids -> Row \cup {None}]]
    /\ hist[data_version] = rows

\* The snapshot is as new as the stamp.
SnapshotSince == \A id \in Ids : StateReadSince(id, last_data_version, snapshot[id])

\* What the holder of `refreshing' has read of a track, or found unchanged, is
\* as new as the stamp it will leave.
JobSince(w, id) ==
    /\ (pc[w] \in {"inc_keys", "inc_tags"} /\ job.mode = "inc" /\ id \notin job.changed_ids)
         => StateReadSince(id, Since(w), snapshot[id])
    /\ (pc[w] = "inc_tags" /\ id \in job.changed_ids) =>
         /\ KeyReadSince(id, Since(w), job.keys[id])
         /\ id \notin Touched => StateReadSince(id, Since(w), snapshot[id])
    /\ pc[w] = "inc_publish" => StateReadSince(id, Since(w), MutatedSnapshot[id])
    /\ pc[w] = "inc_stamp" => StateReadSince(id, Since(w), snapshot[id])
    /\ pc[w] = "full_tags" => KeyReadSince(id, Since(w), job.keys[id])
    /\ pc[w] \in {"full_publish", "full_stamp"} => StateReadSince(id, Since(w), job.states[id])

ReadsSince == SnapshotSince /\ \A w \in Workers, id \in Ids : JobSince(w, id)

\* No path was ever made up, in a tree left behind by a panic either.
TreeRendered == \A id \in Ids : Fresh!RenderedSince(id, 0, tree[id])

HistoryInv == HistoryOK /\ ReadsSince /\ TreeRendered
=============================================================================
