---------------------------- MODULE StoreProofs ----------------------------
(***************************************************************************)
(* What every commit to the store does, whichever writer makes it: the     *)
(* facts about content_version, the changelog and data_version that the    *)
(* mount's caches and its refresh rest on.                                 *)
(***************************************************************************)
EXTENDS Store, TLAPS

\* How one commit may change one track: not at all, or with a changelog entry
\* of its own, and then a row of the same life changes what the mount reads
\* of it only together with a larger content_version.
RowStep(id) ==
    \/ rows'[id] = rows[id] /\ logged'[id] = logged[id]
    \/ /\ seq' > seq /\ logged'[id] = seq'
       /\ rows'[id] # None =>
            \/ rows'[id].life = seq + 1
            \/ /\ rows[id] # None /\ rows'[id].life = rows[id].life
               /\ \/ rows'[id].content_version > rows[id].content_version
                  \/ /\ rows'[id].content_version = rows[id].content_version
                     /\ rows'[id].tags = rows[id].tags
                     /\ rows'[id].art = rows[id].art
                     /\ rows'[id].format = rows[id].format

\* What one commit does to the changelog: the ring may lose its oldest
\* entries but never its newest, unless somebody truncates it.
LogStep ==
    /\ data_version' = data_version + 1
    /\ seq' >= seq /\ floor' >= floor
    /\ \/ floor' = seq'
       \/ seq' = seq /\ floor' = floor /\ logged' = logged
       \/ floor' < seq' /\ \E id \in Ids : logged'[id] = seq'
    /\ floor < seq /\ truncations' = truncations => floor' < seq'

\* UPDATE of a row keeps its life and logs it; the geometry trigger bumps
\* content_version whenever format or geometry moved.
LEMMA UpdateTrackStep ==
    ASSUME StoreTypeOK, NEW id \in Ids, Live(id), NEW r \in Row,
           r.life = rows[id].life, r.tags = rows[id].tags, r.art = rows[id].art,
           UpdateTrack(id, r)
    PROVE  /\ rows' \in [Ids -> Row \cup {None}]
           /\ \E n \in {1, 2} : Log(id, n)
           /\ \A j \in Ids \ {id} : rows'[j] = rows[j]
           /\ rows'[id] # None /\ rows'[id].life = rows[id].life
           /\ \/ rows'[id].content_version > rows[id].content_version
              \/ /\ rows'[id].content_version = rows[id].content_version
                 /\ rows'[id].tags = rows[id].tags
                 /\ rows'[id].art = rows[id].art
                 /\ rows'[id].format = rows[id].format
  <1>1. rows[id] \in Row
    BY DEF StoreTypeOK, Live
  <1> DEFINE bump == IF r.format # rows[id].format \/ r.geom # rows[id].geom THEN 1 ELSE 0
             new == [r EXCEPT !.content_version = rows[id].content_version + bump]
  <1>2. rows' = [rows EXCEPT ![id] = new] /\ Log(id, 1 + bump)
    BY DEF UpdateTrack
  <1>3. bump \in {0, 1} /\ (bump = 0 => r.format = rows[id].format)
    OBVIOUS
  <1>4. new \in Row /\ new.life = r.life /\ new.tags = r.tags /\ new.art = r.art
        /\ new.format = r.format /\ new.content_version = rows[id].content_version + bump
    BY <1>1, <1>3 DEF Row
  <1>5. new # None
    BY <1>4, StoreAssumption
  <1> HIDE DEF new, bump
  <1>6. rows' \in [Ids -> Row \cup {None}] /\ rows'[id] = new
        /\ \A j \in Ids \ {id} : rows'[j] = rows[j]
    BY <1>2, <1>4 DEF StoreTypeOK
  <1>7. \E n \in {1, 2} : Log(id, n)
    BY <1>2, <1>3
  <1>8. rows[id].content_version \in Nat
    BY <1>1 DEF Row
  <1>9. QED
    BY <1>3, <1>4, <1>5, <1>6, <1>7, <1>8

\* The ring's arithmetic: n entries for id.
LEMMA LogType ==
    ASSUME StoreTypeOK, NEW id \in Ids, NEW n \in Nat \ {0}, Log(id, n)
    PROVE  /\ seq' \in Nat /\ seq' = seq + n
           /\ floor' \in 0..seq' /\ floor' >= floor /\ floor' < seq'
           /\ logged' \in [Ids -> 0..seq'] /\ logged'[id] = seq'
           /\ \A j \in Ids \ {id} : logged'[j] = logged[j]
  <1>1. CHANGELOG_CAP \in Nat \ {0} /\ seq \in Nat /\ floor \in 0..seq
    BY StoreAssumption DEF StoreTypeOK
  <1>2. seq' = seq + n /\ logged' = [logged EXCEPT ![id] = seq + n]
        /\ floor' = IF seq + n - CHANGELOG_CAP > floor THEN seq + n - CHANGELOG_CAP ELSE floor
    BY <1>1 DEF Log
  <1>3. seq' \in Nat /\ floor' \in 0..seq' /\ floor' >= floor /\ floor' < seq'
    BY <1>1, <1>2
  <1>4. logged \in [Ids -> 0..seq]
    BY DEF StoreTypeOK
  <1>5. logged' \in [Ids -> 0..seq'] /\ logged'[id] = seq'
        /\ \A j \in Ids \ {id} : logged'[j] = logged[j]
    BY <1>1, <1>2, <1>4
  <1>6. QED
    BY <1>2, <1>3, <1>5

\* A writer that changes one row, logs it and commits makes such a step.
LEMMA OneRowStep ==
    ASSUME StoreTypeOK, NEW id \in Ids, NEW n \in Nat \ {0}, Log(id, n), Commit,
           truncations' = truncations,
           rows' \in [Ids -> Row \cup {None}],
           \A j \in Ids \ {id} : rows'[j] = rows[j],
           rows'[id] # None =>
              \/ rows'[id].life = seq + 1
              \/ /\ rows[id] # None /\ rows'[id].life = rows[id].life
                 /\ \/ rows'[id].content_version > rows[id].content_version
                    \/ /\ rows'[id].content_version = rows[id].content_version
                       /\ rows'[id].tags = rows[id].tags
                       /\ rows'[id].art = rows[id].art
                       /\ rows'[id].format = rows[id].format
    PROVE  StoreTypeOK' /\ LogStep /\ \A j \in Ids : RowStep(j)
  <1>1. /\ seq' \in Nat /\ seq' = seq + n
        /\ floor' \in 0..seq' /\ floor' >= floor /\ floor' < seq'
        /\ logged' \in [Ids -> 0..seq'] /\ logged'[id] = seq'
        /\ \A j \in Ids \ {id} : logged'[j] = logged[j]
    BY LogType
  <1>2. seq \in Nat /\ data_version \in Nat /\ data_version' = data_version + 1
        /\ truncations \in Nat
    BY DEF StoreTypeOK, Commit
  <1>3. seq' > seq
    BY <1>1, <1>2
  <1>4. StoreTypeOK'
    BY <1>1, <1>2 DEF StoreTypeOK
  <1>5. LogStep
    BY <1>1, <1>2, <1>3 DEF LogStep
  <1>6. ASSUME NEW j \in Ids PROVE RowStep(j)
    <2>1. CASE j = id
      BY <2>1, <1>1, <1>3 DEF RowStep
    <2>2. CASE j # id
      BY <2>2, <1>1 DEF RowStep
    <2>3. QED
      BY <2>1, <2>2
  <1>7. QED
    BY <1>4, <1>5, <1>6

\* The child-row triggers: whatever else of the row r changed, content_version
\* moved past its old value.
LEMMA ChildRowsStep ==
    ASSUME StoreTypeOK, NEW id \in Ids, Live(id), NEW r \in Row, NEW n \in Nat \ {0},
           r.life = rows[id].life, r.content_version = rows[id].content_version,
           ChildRows(id, r, n), Commit, UNCHANGED truncations
    PROVE  StoreTypeOK' /\ LogStep /\ \A j \in Ids : RowStep(j)
  <1>1. rows \in [Ids -> Row \cup {None}] /\ rows[id] \in Row /\ rows[id] # None
    BY StoreAssumption DEF StoreTypeOK, Live
  <1> DEFINE new == [r EXCEPT !.content_version = @ + n]
  <1>2. rows' = [rows EXCEPT ![id] = new] /\ Log(id, n)
    BY DEF ChildRows
  <1>3. r.content_version \in Nat
    BY DEF Row
  <1>4. new \in Row /\ new.life = rows[id].life
        /\ new.content_version > rows[id].content_version
    BY <1>3 DEF Row
  <1> HIDE DEF new
  <1>5. rows' \in [Ids -> Row \cup {None}] /\ rows'[id] = new
        /\ \A j \in Ids \ {id} : rows'[j] = rows[j]
    BY <1>1, <1>2, <1>4
  <1>6. QED
    BY <1>1, <1>2, <1>4, <1>5, OneRowStep

\* A new set of text tags.
LEMMA ReplaceTagsStep ==
    ASSUME StoreTypeOK, NEW id \in Ids, NEW t \in Tags, NEW n \in Nat \ {0},
           replace_tags(id, t, n)
    PROVE  StoreTypeOK' /\ LogStep /\ \A j \in Ids : RowStep(j)
  <1>1. Live(id) /\ Commit /\ UNCHANGED truncations /\ rows[id] \in Row
    BY DEF StoreTypeOK, replace_tags, Live
  <1> DEFINE r == [rows[id] EXCEPT !.tags = t]
  <1>2. ChildRows(id, r, n)
    BY DEF replace_tags
  <1>3. r \in Row /\ r.life = rows[id].life /\ r.content_version = rows[id].content_version
    BY <1>1 DEF Row
  <1> HIDE DEF r
  <1>4. QED
    BY <1>1, <1>2, <1>3, ChildRowsStep

\* Likewise for the rows that feed only the layout.
LEMMA SetTrackArtStep ==
    ASSUME StoreTypeOK, NEW id \in Ids, NEW a \in Arts, NEW n \in Nat \ {0},
           set_track_art(id, a, n)
    PROVE  StoreTypeOK' /\ LogStep /\ \A j \in Ids : RowStep(j)
  <1>1. Live(id) /\ Commit /\ UNCHANGED truncations /\ rows[id] \in Row
    BY DEF StoreTypeOK, set_track_art, Live
  <1> DEFINE r == [rows[id] EXCEPT !.art = a]
  <1>2. ChildRows(id, r, n)
    BY DEF set_track_art
  <1>3. r \in Row /\ r.life = rows[id].life /\ r.content_version = rows[id].content_version
    BY <1>1 DEF Row
  <1> HIDE DEF r
  <1>4. QED
    BY <1>1, <1>2, <1>3, ChildRowsStep

\* The scanner's INSERT starts a new life.
LEMMA InsertTrackStep ==
    ASSUME StoreTypeOK, NEW id \in Ids, NEW f \in Formats, NEW t \in Tags,
           NEW a \in Arts, NEW p \in Paths, NEW g \in Geoms, NEW c \in Ctimes,
           NEW n \in Nat, insert_track(id, f, t, a, p, g, c, n)
    PROVE  StoreTypeOK' /\ LogStep /\ \A j \in Ids : RowStep(j)
  <1> DEFINE new == [content_version |-> n, format |-> f, tags |-> t, art |-> a,
                     backing_path |-> p, geom |-> g, ctime |-> c, life |-> seq + 1]
  <1>1. rows \in [Ids -> Row \cup {None}] /\ seq \in Nat
    BY DEF StoreTypeOK
  <1>2. new \in Row /\ new.life = seq + 1
    BY <1>1 DEF Row
  <1>3. rows' = [rows EXCEPT ![id] = new]
    BY DEF insert_track
  <1> HIDE DEF new
  <1>4. rows' \in [Ids -> Row \cup {None}] /\ rows'[id] = new
        /\ \A j \in Ids \ {id} : rows'[j] = rows[j]
    BY <1>1, <1>2, <1>3
  <1>5. Log(id, n + 1) /\ Commit /\ truncations' = truncations
    BY DEF insert_track
  <1>6. n + 1 \in Nat \ {0}
    OBVIOUS
  <1>7. QED
    BY <1>2, <1>4, <1>5, <1>6, OneRowStep

\* The three UPDATEs of a tracks row.
LEMMA UpdateStep ==
    ASSUME StoreTypeOK, NEW id \in Ids, Live(id), NEW r \in Row,
           r.life = rows[id].life, r.tags = rows[id].tags, r.art = rows[id].art,
           UpdateTrack(id, r), Commit, truncations' = truncations
    PROVE  StoreTypeOK' /\ LogStep /\ \A j \in Ids : RowStep(j)
  <1>1. /\ rows' \in [Ids -> Row \cup {None}]
        /\ \E n \in {1, 2} : Log(id, n)
        /\ \A j \in Ids \ {id} : rows'[j] = rows[j]
        /\ rows'[id] # None /\ rows'[id].life = rows[id].life
        /\ \/ rows'[id].content_version > rows[id].content_version
           \/ /\ rows'[id].content_version = rows[id].content_version
              /\ rows'[id].tags = rows[id].tags
              /\ rows'[id].art = rows[id].art
              /\ rows'[id].format = rows[id].format
    BY UpdateTrackStep
  <1>2. PICK n \in {1, 2} : Log(id, n)
    BY <1>1
  <1>3. n \in Nat \ {0}
    OBVIOUS
  <1>4. rows[id] # None
    BY DEF Live
  <1>5. QED
    BY <1>1, <1>2, <1>3, <1>4, OneRowStep

\* The scanner's restamp of a known path.
LEMMA UpsertStep ==
    ASSUME StoreTypeOK, NEW id \in Ids, NEW f \in Formats, NEW g \in Geoms,
           NEW c \in Ctimes, upsert_track(id, f, g, c)
    PROVE  StoreTypeOK' /\ LogStep /\ \A j \in Ids : RowStep(j)
  <1>1. Live(id) /\ rows[id] \in Row
    BY DEF upsert_track, Live, StoreTypeOK
  <1> DEFINE r == [rows[id] EXCEPT !.format = f, !.geom = g, !.ctime = c]
  <1>2. r \in Row /\ r.life = rows[id].life /\ r.tags = rows[id].tags /\ r.art = rows[id].art
    BY <1>1 DEF Row
  <1>3. UpdateTrack(id, r) /\ Commit /\ truncations' = truncations
    BY DEF upsert_track
  <1> HIDE DEF r
  <1>4. QED
    BY <1>1, <1>2, <1>3, UpdateStep

\* The scanner's move of a track to a new path.
LEMMA RetargetStep ==
    ASSUME StoreTypeOK, NEW id \in Ids, NEW p \in Paths, NEW g \in Geoms,
           NEW c \in Ctimes, retarget_track(id, p, g, c)
    PROVE  StoreTypeOK' /\ LogStep /\ \A j \in Ids : RowStep(j)
  <1>1. Live(id) /\ rows[id] \in Row
    BY DEF retarget_track, Live, StoreTypeOK
  <1> DEFINE r == [rows[id] EXCEPT !.backing_path = p, !.geom = g, !.ctime = c]
  <1>2. r \in Row /\ r.life = rows[id].life /\ r.tags = rows[id].tags /\ r.art = rows[id].art
    BY <1>1 DEF Row
  <1>3. UpdateTrack(id, r) /\ Commit /\ truncations' = truncations
    BY DEF retarget_track
  <1> HIDE DEF r
  <1>4. QED
    BY <1>1, <1>2, <1>3, UpdateStep

\* An update of columns nobody watches still logs the track.
LEMMA ChecksumsStep ==
    ASSUME StoreTypeOK, NEW id \in Ids, set_track_checksums(id)
    PROVE  StoreTypeOK' /\ LogStep /\ \A j \in Ids : RowStep(j)
  <1>1. Live(id) /\ rows[id] \in Row
    BY DEF set_track_checksums, Live, StoreTypeOK
  <1>2. UpdateTrack(id, rows[id]) /\ Commit /\ truncations' = truncations
    BY DEF set_track_checksums
  <1>3. QED
    BY <1>1, <1>2, UpdateStep

\* A delete logs the track and leaves no row.
LEMMA DeleteStep ==
    ASSUME StoreTypeOK, NEW id \in Ids, delete_track(id)
    PROVE  StoreTypeOK' /\ LogStep /\ \A j \in Ids : RowStep(j)
  <1>1. rows' \in [Ids -> Row \cup {None}] /\ rows'[id] = None
        /\ \A j \in Ids \ {id} : rows'[j] = rows[j]
    BY DEF delete_track, StoreTypeOK
  <1>2. Log(id, 1) /\ Commit /\ truncations' = truncations
    BY DEF delete_track
  <1>3. 1 \in Nat \ {0}
    OBVIOUS
  <1>4. QED
    BY <1>1, <1>2, <1>3, OneRowStep

\* The two commits that touch no tracks row.
LEMMA OtherStep ==
    ASSUME StoreTypeOK, gc_orphan_art \/ TruncateRing
    PROVE  StoreTypeOK' /\ LogStep /\ \A j \in Ids : RowStep(j)
  <1>1. seq \in Nat /\ floor \in 0..seq /\ data_version \in Nat /\ truncations \in Nat
    BY DEF StoreTypeOK
  <1>2. CASE gc_orphan_art
    <2>1. /\ rows' = rows /\ seq' = seq /\ floor' = floor /\ logged' = logged
          /\ truncations' = truncations /\ data_version' = data_version + 1
      BY <1>2 DEF gc_orphan_art, Commit
    <2>2. StoreTypeOK'
      BY <1>1, <2>1 DEF StoreTypeOK
    <2>3. LogStep /\ \A j \in Ids : RowStep(j)
      BY <1>1, <2>1 DEF LogStep, RowStep
    <2>4. QED
      BY <2>2, <2>3
  <1>3. CASE TruncateRing
    <2>1. /\ rows' = rows /\ seq' = seq /\ floor' = seq /\ logged' = logged
          /\ truncations' = truncations + 1 /\ data_version' = data_version + 1
      BY <1>3 DEF TruncateRing, Commit
    <2>2. StoreTypeOK'
      BY <1>1, <2>1 DEF StoreTypeOK
    <2>3. LogStep /\ \A j \in Ids : RowStep(j)
      BY <1>1, <2>1 DEF LogStep, RowStep
    <2>4. QED
      BY <2>2, <2>3
  <1>4. QED
    BY <1>2, <1>3

\* Every commit keeps the store well typed, logs each track it touches, and
\* changes what the mount reads of a track only with a larger content_version.
THEOREM WriterStep ==
    ASSUME StoreTypeOK, Writer
    PROVE  StoreTypeOK' /\ LogStep /\ \A j \in Ids : RowStep(j)
  <1>1. ASSUME NEW id \in Ids, NEW n \in 1..MaxBurst,
               \/ \E t \in Tags : replace_tags(id, t, n)
               \/ \E a \in Arts : set_track_art(id, a, n)
        PROVE  StoreTypeOK' /\ LogStep /\ \A j \in Ids : RowStep(j)
    <2>1. n \in Nat \ {0}
      BY StoreAssumption
    <2>2. QED
      BY <1>1, <2>1, ReplaceTagsStep, SetTrackArtStep
  <1>2. ASSUME NEW id \in Ids, NEW f \in Formats, NEW t \in Tags, NEW a \in Arts,
               NEW p \in Paths, NEW g \in Geoms, NEW c \in Ctimes,
               NEW n \in 0..MaxBurst, insert_track(id, f, t, a, p, g, c, n)
        PROVE  StoreTypeOK' /\ LogStep /\ \A j \in Ids : RowStep(j)
    <2>1. n \in Nat
      BY StoreAssumption
    <2>2. QED
      BY <1>2, <2>1, InsertTrackStep
  <1>3. ASSUME NEW id \in Ids, NEW g \in Geoms, NEW c \in Ctimes,
               \/ \E f \in Formats : upsert_track(id, f, g, c)
               \/ \E p \in Paths : retarget_track(id, p, g, c)
        PROVE  StoreTypeOK' /\ LogStep /\ \A j \in Ids : RowStep(j)
    BY <1>3, UpsertStep, RetargetStep
  <1>4. ASSUME NEW id \in Ids, set_track_checksums(id) \/ delete_track(id)
        PROVE  StoreTypeOK' /\ LogStep /\ \A j \in Ids : RowStep(j)
    BY <1>4, ChecksumsStep, DeleteStep
  <1>5. QED
    BY <1>1, <1>2, <1>3, <1>4, OtherStep DEF Writer

\* The first scan leaves a well-typed store.
LEMMA StoreInitType == StoreInit => StoreTypeOK
  <1>1. SUFFICES ASSUME StoreInit PROVE StoreTypeOK
    OBVIOUS
  <1>2. PICK f \in Formats, t \in Tags, a \in Arts, p \in Paths, g \in Geoms, c \in Ctimes :
          rows = [id \in Ids |->
                    IF id = 1
                    THEN [content_version |-> 1, format |-> f, tags |-> t, art |-> a,
                          backing_path |-> p, geom |-> g, ctime |-> c, life |-> 1]
                    ELSE None]
    BY <1>1 DEF StoreInit
  <1>3. rows \in [Ids -> Row \cup {None}]
    BY <1>2 DEF Row
  <1>4. seq = 2 /\ floor \in 0..1 /\ data_version = 0 /\ truncations = 0
    BY <1>1, StoreAssumption DEF StoreInit
  <1>5. logged \in [Ids -> 0..2]
    BY <1>1 DEF StoreInit
  <1>6. QED
    BY <1>3, <1>4, <1>5 DEF StoreTypeOK

=============================================================================
