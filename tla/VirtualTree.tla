---------------------------- MODULE VirtualTree ----------------------------
(***************************************************************************)
(* The virtual tree of musefs-core/src/tree.rs: directories made from the  *)
(* components of rendered paths, files for tracks, colliding names ranked  *)
(* " (k)", inodes interned by path, and the incremental apply_changes that *)
(* a refresh uses instead of a full build.                                 *)
(*                                                                         *)
(* A name is its base and the ranks appended to it: "a (2)" is the base    *)
(* "a" with the ranks <<2>>.  A rendered component is such a name too,     *)
(* since a tag may spell "a (2)" out.  The maps children,                  *)
(* rendered_children, folded_children and track_to_inode are indices over  *)
(* the nodes and are read off them here.  What a track's tags render to is *)
(* a parameter: MCVirtualTree takes it from Template.                      *)
(*                                                                         *)
(* A loop of the code is a function of the rounds it has done.             *)
(***************************************************************************)
EXTENDS Integers, Sequences, FiniteSets, SequencesExt, FiniteSetsExt

CONSTANTS
    MaxTrack,         \* track ids are 1..MaxTrack
    TagRows,          \* what the store may have for a track
    None,             \* no track, or a track that is not shown
    KeyedPaths,       \* tags -> path, as a full rebuild loads and renders them
    LoadedPaths,      \* tags -> path, as an incremental refresh does
    Bases,            \* base names
    Short,            \* over-long base -> the base it is truncated to
    Stem,             \* base -> the stem a rank is appended to (NAME_MAX)
    Folded,           \* base -> its case-folded form
    Reserved,         \* names the FUSE layer injects at the root
    case_insensitive, \* MountConfig.case_insensitive
    MaxTouched        \* bound on the tracks all refreshes of a mount touch

VARIABLES
    touched,  \* how many tracks refreshes have touched
    rows,     \* track -> its tag rows in the store, None when it has no track
    paths,    \* track -> rendered path, None when the track is not shown
    nodes,    \* inode -> node
    alloc,    \* InodeAllocator
    issued    \* ghost: inode -> the one path it was ever issued for

vars == <<touched, rows, paths, nodes, alloc, issued>>

ROOT == 1
Dir == 0      \* `track' of a directory node

Tracks == 1..MaxTrack

Names == [base : Bases, ranks : Seq(Nat)]

\* Components that are dropped wherever they stand.
DotBases == {"", ".", ".."}
Dots == {[base |-> b, ranks |-> <<>>] : b \in DotBases}

ASSUME TreeAssumption ==
    /\ MaxTrack \in Nat /\ MaxTouched \in Nat
    /\ case_insensitive \in BOOLEAN
    /\ None \notin TagRows
    /\ DOMAIN Short \subseteq Bases
    /\ \A b \in DOMAIN Short : Short[b] \in Bases \ DotBases
    /\ Stem \in [Bases -> Bases] /\ Folded \in [Bases -> Bases]
    /\ IsFiniteSet(Reserved)

\* Either way to load tags gives a rendered path, or none.
ASSUME PathAssumption ==
    \A r \in TagRows \cup {None} :
        /\ KeyedPaths[r] # None => KeyedPaths[r] \in Seq(Names)
        /\ LoadedPaths[r] # None => LoadedPaths[r] \in Seq(Names)
        /\ KeyedPaths[None] = None /\ LoadedPaths[None] = None

(***************************************************************************)
(* Names.                                                                  *)
(***************************************************************************)
\* fold_key, rendered_key: how this mount compares names.
Key(n) == IF case_insensitive THEN [n EXCEPT !.base = Folded[@]] ELSE n

\* truncate_component: only a base can be over-long.
truncate_component(c) ==
    IF c.base \in DOMAIN Short THEN [base |-> Short[c.base], ranks |-> <<>>] ELSE c

\* suffix_candidate: the stem may lose bytes to make room for the rank.
suffix_candidate(n, k) == [base |-> Stem[n.base], ranks |-> Append(n.ranks, k)]

is_suffix_shaped(n) == n.ranks # <<>>

path_components(p) ==
    LET kept[n \in 0..Len(p)] ==
            IF n = 0 THEN <<>> ELSE IF p[n] \in Dots THEN kept[n-1] ELSE Append(kept[n-1], p[n])
    IN  kept[Len(p)]

(***************************************************************************)
(* Reading a tree.                                                         *)
(***************************************************************************)
Kids(T, d) == {i \in DOMAIN T \ {ROOT} : T[i].parent = d}
IsDir(T, i) == T[i].track = Dir

Named(T, d, n) == {i \in Kids(T, d) : T[i].name = n}

\* Seeded fault: the names injected at the root are not reserved.
taken_unreserved(T, d, n) == \E i \in Kids(T, d) : Key(T[i].name) = Key(n)

taken(T, d, n) ==
    \/ d = ROOT /\ Key(n) \in Reserved
    \/ \E i \in Kids(T, d) : Key(T[i].name) = Key(n)

\* Seeded fault: directories merge by the name they are stored under.
dir_child_by_name(T, d, r) ==
    {i \in Kids(T, d) : IsDir(T, i) /\ Key(T[i].name) = Key(r)}

\* The directory a component belongs to is the one that rendered it.
dir_child_named(T, d, r) ==
    {i \in Kids(T, d) : IsDir(T, i) /\ Key(T[i].rendered) = Key(r)}

\* More ranks than there are names in a directory: one of them is free.
Ranks(T, d) == 2..(Cardinality(Kids(T, d)) + Cardinality(Reserved) + 2)

disambiguate(T, d, n) ==
    IF ~taken(T, d, n) THEN n
    ELSE suffix_candidate(n, Min({k \in Ranks(T, d) : ~taken(T, d, suffix_candidate(n, k))}))

inode_of_track(T, id) == {i \in DOMAIN T : T[i].track = id}

\* Ancestors of i, itself and ROOT included.
Ancestors(T, i) ==
    LET up[j \in DOMAIN T] == IF j = ROOT THEN {ROOT} ELSE {j} \cup up[T[j].parent]
    IN  up[i]

path_of(T, i) ==
    LET path[j \in DOMAIN T] == IF j = ROOT THEN <<>> ELSE Append(path[T[j].parent], T[j].name)
    IN  path[i]

TracksUnder(T, d) == {T[i].track : i \in {j \in DOMAIN T : d \in Ancestors(T, j)}} \ {Dir}

\* The smallest track id under i; no other id is as large as Top.
Top == MaxTrack + 1
introducing_id(T, i) == Min(TracksUnder(T, i) \cup {Top})

(***************************************************************************)
(* The inode allocator.                                                    *)
(***************************************************************************)
AllocKey(p) == [j \in DOMAIN p |-> Key(p[j])]

\* f, but v at x.
Put(f, x, v) == [y \in DOMAIN f \cup {x} |-> IF y = x THEN v ELSE f[y]]

\* intern: a known path keeps its inode, a new one gets the next number.
intern(a, p) ==
    IF AllocKey(p) \in DOMAIN a.paths THEN a
    ELSE [paths |-> Put(a.paths, AllocKey(p), a.next), next |-> a.next + 1]

InodeOf(a, p) == a.paths[AllocKey(p)]

\* Seeded fault: numbers are handed out again after a prune.
prune_retired_reuses(a, T) ==
    IF Cardinality(DOMAIN a.paths) <= 2 * Cardinality(DOMAIN T) THEN a
    ELSE [paths |-> [p \in {q \in DOMAIN a.paths : a.paths[q] \in DOMAIN T} |-> a.paths[p]],
          next |-> Max(DOMAIN T) + 1]

\* prune_retired: retired paths go once they outnumber the live ones.
prune_retired(a, T) ==
    IF Cardinality(DOMAIN a.paths) <= 2 * Cardinality(DOMAIN T) THEN a
    ELSE [paths |-> [p \in {q \in DOMAIN a.paths : a.paths[q] \in DOMAIN T} |-> a.paths[p]],
          next |-> a.next]

(***************************************************************************)
(* Inserting and removing a file.  s is [nodes, alloc].                    *)
(***************************************************************************)
\* s, standing at i.
At(s, i) == [nodes |-> s.nodes, alloc |-> s.alloc, at |-> i]

\* A new child of s.at that rendered r; s.at is the child then.
Grow(s, r, track) ==
    LET name == disambiguate(s.nodes, s.at, r)
        full == Append(path_of(s.nodes, s.at), name)
        a == intern(s.alloc, full)
        i == InodeOf(a, full)
    IN  [nodes |-> Put(s.nodes, i, [parent |-> s.at, name |-> name, rendered |-> r, track |-> track]),
         alloc |-> a, at |-> i]

\* ensure_dir: reuse the directory that rendered the component, or make one.
ensure_dir(s, c) ==
    LET r == truncate_component(c)
        same == dir_child_named(s.nodes, s.at, r)
    IN  IF same # {} THEN At(s, CHOOSE i \in same : TRUE) ELSE Grow(s, r, Dir)

\* The directory of comps, made as far as it is missing.
ensure_dirs(s, comps) ==
    LET down[n \in 0..(Len(comps) - 1)] ==
            IF n = 0 THEN At(s, ROOT) ELSE ensure_dir(down[n-1], comps[n])
    IN  down[Len(comps) - 1]

insert_file(s, id, path) ==
    LET comps == path_components(path) IN
    IF comps = <<>> THEN s
    ELSE Grow(ensure_dirs(s, comps), truncate_component(comps[Len(comps)]), id)

\* ids in ascending order.
InsertAll(s, ids, new) ==
    LET done[n \in 0..MaxTrack] ==
            IF n = 0 THEN s ELSE IF n \in ids THEN insert_file(done[n-1], n, new[n]) ELSE done[n-1]
    IN  done[MaxTrack]

Without(T, i) == [j \in DOMAIN T \ {i} |-> T[j]]

\* One round of prune_empty_dirs_upward: w is [nodes, survivor, pruned].
PruneEmpty(w) ==
    IF w.survivor # ROOT /\ Kids(w.nodes, w.survivor) = {}
    THEN [nodes |-> Without(w.nodes, w.survivor),
          survivor |-> w.nodes[w.survivor].parent, pruned |-> w.nodes[w.survivor]]
    ELSE w

\* Seeded fault: only the directory that held the file is pruned.
prune_empty_dirs_once(T, d) == PruneEmpty([nodes |-> T, survivor |-> d, pruned |-> None])

\* prune_empty_dirs_upward: the survivor and the topmost directory pruned.  A
\* parent has the smaller inode, so the root is at most d rounds away.
prune_empty_dirs_upward(T, d) ==
    LET up[n \in 0..d] ==
            IF n = 0 THEN [nodes |-> T, survivor |-> d, pruned |-> None] ELSE PruneEmpty(up[n-1])
    IN  up[d]

remove_track(T, id) ==
    LET found == inode_of_track(T, id) IN
    IF found = {} THEN [nodes |-> T, survivor |-> ROOT, pruned |-> None]
    ELSE LET i == CHOOSE x \in found : TRUE
         IN  prune_empty_dirs_upward(Without(T, i), T[i].parent)

NoName == [base |-> "", ranks |-> <<>>]
EmptyTree ==
    [i \in {ROOT} |-> [parent |-> ROOT, name |-> NoName, rendered |-> NoName, track |-> Dir]]

Shown(new) == {id \in Tracks : new[id] # None}

\* build_with_ci: insert every entry in ascending id order.
build_with_ci(a, new) ==
    InsertAll([nodes |-> EmptyTree, alloc |-> a, at |-> ROOT], Shown(new), new)

(***************************************************************************)
(* apply_changes.                                                          *)
(***************************************************************************)

\* Seeded fault: a literal " (k)" name is taken for an unrelated one.
collision_gate_unsuffixed(T, d, name, rendered) ==
    \/ name # rendered
    \/ \E k \in Ranks(T, d) :
         /\ \A j \in 2..k : Named(T, d, suffix_candidate(rendered, j)) # {}
         /\ \E i \in Named(T, d, suffix_candidate(rendered, k)) : T[i].rendered = rendered

\* Could a change to this child rename a sibling in a fresh build?
collision_gate(T, d, name, rendered) ==
    \/ name # rendered
    \/ is_suffix_shaped(name)
    \/ \E k \in Ranks(T, d) :
         /\ \A j \in 2..k : Named(T, d, suffix_candidate(rendered, j)) # {}
         /\ \E i \in Named(T, d, suffix_candidate(rendered, k)) : T[i].rendered = rendered

Gated(T, i) == collision_gate(T, T[i].parent, T[i].name, T[i].rendered)

\* A walk from i to the root dirties the parent of every gated level, and
\* ends at the first gated level not in flips: the change leaves the smallest
\* track id under it, and so the order of a fresh build, as it was.
DirtyWalk(T, i, flips) ==
    {T[j].parent : j \in {l \in Ancestors(T, i) \ {ROOT} :
        /\ Gated(T, l)
        /\ \A m \in Ancestors(T, i) \ {ROOT} :
             (l \in Ancestors(T, m) /\ Gated(T, m)) => m \in flips}}

dirty_removed_ancestors(T, i, id) ==
    DirtyWalk(T, i, {m \in Ancestors(T, i) : introducing_id(T, m) = id})

dirty_min_flip_ancestors(T, i, id) ==
    DirtyWalk(T, i, {m \in Ancestors(T, i) : id < introducing_id(T, m)})

\* The deepest directory along a rendered path, and the components below it.
deepest_existing_ancestor(T, path) ==
    LET comps == path_components(path)
        Step(w, c) ==
            LET same == dir_child_named(T, w.at, truncate_component(c)) IN
            IF w.stuck \/ same = {} THEN [w EXCEPT !.stuck = TRUE]
            ELSE [w EXCEPT !.at = CHOOSE i \in same : TRUE, !.left = Tail(@)]
    IN  FoldLeft(Step, [at |-> ROOT, left |-> comps, stuck |-> comps = <<>>],
                 IF comps = <<>> THEN <<>> ELSE Front(comps))

\* Step 1 of apply_changes for an id that enters at new[id].
DirtyAdded(T, path, id) ==
    LET w == deepest_existing_ancestor(T, path) IN
    (IF w.left # <<>> /\ taken(T, w.at, truncate_component(Head(w.left)))
     THEN {w.at} ELSE {})
    \cup dirty_min_flip_ancestors(T, w.at, id)

\* Step 2: removals one by one; a pruned chain may dirty its survivor.
RemoveGated(s, id) ==
    LET r == remove_track(s.nodes, id)
        gated == r.pruned # None
                 /\ collision_gate(r.nodes, r.survivor, r.pruned.name, r.pruned.rendered)
    IN  [nodes |-> r.nodes, dirty |-> IF gated THEN s.dirty \cup {r.survivor} ELSE s.dirty]

RemoveAll(s, ids) ==
    LET done[n \in 0..MaxTrack] ==
            IF n = 0 THEN s ELSE IF n \in ids THEN RemoveGated(done[n-1], n) ELSE done[n-1]
    IN  done[MaxTrack]

\* All tracks under d are removed, then inserted again in order.
rebuild_subtree(s, d, new) ==
    LET ids == TracksUnder(s.nodes, d)
        emptied == RemoveAll([nodes |-> s.nodes, dirty |-> {}], ids).nodes
    IN  InsertAll([nodes |-> emptied, alloc |-> s.alloc, at |-> ROOT], ids, new)

Depth(T, d) == Len(path_of(T, d))

\* The next of the dirty directories; T is the tree they were sorted in.  The
\* code leaves open which of one depth comes first.
Shallowest(T, ds) ==
    CHOOSE d \in ds : \A e \in ds :
        Depth(T, d) < Depth(T, e) \/ (Depth(T, d) = Depth(T, e) /\ d <= e)

\* Steps 3 and 4, one round: rebuild the shallowest dirty directory that is
\* left, unless it is gone or below one that was rebuilt.
RebuildDirty(s, T, new) ==
    LET d == Shallowest(T, s.live)
        rest == s.live \ {d}
        r == rebuild_subtree(s, d, new)
    IN  IF s.live = {} THEN s
        ELSE IF d \notin DOMAIN s.nodes \/ Ancestors(s.nodes, d) \cap s.done # {}
        THEN [nodes |-> s.nodes, alloc |-> s.alloc, live |-> rest, done |-> s.done]
        ELSE [nodes |-> r.nodes, alloc |-> r.alloc, live |-> rest, done |-> s.done \cup {d}]

RebuildAll(s, new) ==
    LET round[n \in 0..Cardinality(s.live)] ==
            IF n = 0 THEN s ELSE RebuildDirty(round[n-1], s.nodes, new)
    IN  round[Cardinality(s.live)]

\* A changed track whose path the tree already has stays where it is.
Stays(T, id, new) == \E i \in inode_of_track(T, id) : path_of(T, i) = new[id]

apply_changes(T, a, new, changed, added, removed) ==
    LET moved_in == {id \in changed : ~Stays(T, id, new)}
        moved_out == {id \in moved_in : inode_of_track(T, id) # {}}
        leaving == removed \cup moved_out
        entering == added \cup moved_in
        dirty == UNION {UNION {dirty_removed_ancestors(T, i, id) : i \in inode_of_track(T, id)}
                          : id \in leaving}
                 \cup UNION {DirtyAdded(T, new[id], id) : id \in entering}
        cut == RemoveAll(RemoveAll([nodes |-> T, dirty |-> dirty], removed), moved_out)
        grown == InsertAll([nodes |-> cut.nodes, alloc |-> a, at |-> ROOT], entering, new)
    IN  RebuildAll([nodes |-> grown.nodes, alloc |-> grown.alloc,
                    live |-> cut.dirty \cap DOMAIN grown.nodes, done |-> {}], new)

(***************************************************************************)
(* The specification: refreshes of one mount.                              *)
(***************************************************************************)
Publish(new, s) ==
    /\ paths' = new
    /\ nodes' = s.nodes
    /\ alloc' = prune_retired(s.alloc, s.nodes)
    /\ issued' = [i \in DOMAIN issued \cup DOMAIN s.nodes |->
                    IF i \in DOMAIN issued THEN issued[i] ELSE AllocKey(path_of(s.nodes, i))]

\* rebuild_incremental renders the tracks the changelog names, whether or not
\* their path moves.  Folded mounts never come here.
Incremental(stored, ids) ==
    LET new == [id \in Tracks |-> IF id \in ids THEN LoadedPaths[stored[id]] ELSE paths[id]] IN
    /\ ~case_insensitive
    /\ Publish(new, apply_changes(nodes, alloc, new,
                      {id \in ids : paths[id] # None /\ new[id] # None},
                      {id \in ids : paths[id] = None /\ new[id] # None},
                      {id \in ids : paths[id] # None /\ new[id] = None}))

\* render_entries: every track.
render_entries(stored) == [id \in Tracks |-> KeyedPaths[stored[id]]]

\* rebuild_full reuses the allocator.
FullRebuild(stored) == LET new == render_entries(stored) IN Publish(new, build_with_ci(alloc, new))

NewAllocator == [paths |-> [p \in {<<>>} |-> ROOT], next |-> 2]

\* Musefs::open builds from whatever the store holds.
Init ==
    /\ touched = 0
    /\ rows \in [Tracks -> TagRows \cup {None}]
    /\ paths = render_entries(rows)
    /\ LET s == build_with_ci(NewAllocator, paths) IN
       /\ nodes = s.nodes
       /\ alloc = s.alloc
       /\ issued = [i \in DOMAIN s.nodes |-> AllocKey(path_of(s.nodes, i))]

\* The store after a commit that touches ids.
Retagged(ids) == {[id \in Tracks |-> IF id \in ids THEN c[id] ELSE rows[id]]
                    : c \in [ids -> TagRows \cup {None}]}

Next ==
    \E ids \in SUBSET Tracks \ {{}} :
      /\ touched + Cardinality(ids) <= MaxTouched
      /\ touched' = touched + Cardinality(ids)
      /\ \E stored \in Retagged(ids) :
           rows' = stored /\ (Incremental(stored, ids) \/ FullRebuild(stored))

Spec == Init /\ [][Next]_vars

(***************************************************************************)
(* Properties.                                                             *)
(***************************************************************************)

\* The tree hangs together after any sequence of refreshes: every node has a
\* directory as its parent, every directory but the root leads to a file, and
\* every shown track is exactly one file.
TreeOK ==
    /\ rows \in [Tracks -> TagRows \cup {None}] /\ touched \in 0..MaxTouched
    /\ IsDir(nodes, ROOT)
    /\ \A i \in DOMAIN nodes :
         /\ nodes[i].parent \in DOMAIN nodes /\ IsDir(nodes, nodes[i].parent)
         /\ (IsDir(nodes, i) /\ i # ROOT) => Kids(nodes, i) # {}
    /\ \A id \in Tracks :
         Cardinality(inode_of_track(nodes, id))
           = IF paths[id] # None /\ path_components(paths[id]) # <<>> THEN 1 ELSE 0

MatchesBuild == nodes = build_with_ci(alloc, paths).nodes

\* However a mount's changes are grouped into incremental refreshes and full
\* rebuilds, once no tag spells a rank out ("a (2)") the tree is the one a
\* full build of the same tracks gives: the same ranks, the same inodes, no
\* directory left over or missing.
IncrementalMatchesBuild ==
    (\A id \in Shown(paths) : \A k \in DOMAIN paths[id] : ~is_suffix_shaped(paths[id][k]))
    => MatchesBuild

\* The directory a path renders, as this mount compares names.
Home(p) ==
    [n \in 1..(Len(path_components(p)) - 1) |-> Key(truncate_component(path_components(p)[n]))]

\* Two tracks are in one directory exactly when their tags render the same
\* directory, however many files and literal "a (2)" names stand in its way.
DirectoriesFollowTags ==
    MatchesBuild =>
      \A x, y \in {i \in DOMAIN nodes : ~IsDir(nodes, i)} :
        (nodes[x].parent = nodes[y].parent)
          <=> (Home(paths[nodes[x].track]) = Home(paths[nodes[y].track]))

\* lookup finds one child per name: siblings differ under the mount's own
\* name comparison and none at the root hides behind an injected name.
LookupIsUnambiguous ==
    \A i, j \in DOMAIN nodes \ {ROOT} :
        /\ nodes[i].parent = ROOT => Key(nodes[i].name) \notin Reserved
        /\ (i # j /\ nodes[i].parent = nodes[j].parent) => Key(nodes[i].name) # Key(nodes[j].name)

\* A number the kernel may remember never comes to mean another path, even
\* after the allocator has forgotten the path it was issued for.
InodesNeverReissued ==
    \A i \in DOMAIN nodes : issued[i] = AllocKey(path_of(nodes, i))

\* PathsFollowTags: whichever refresh last rendered a track, and whichever of
\* its tags that refresh loaded, the track is where all its tags of this
\* moment put it; and no tag spells a component that leads elsewhere.
PathsFollowTags ==
    /\ \A id \in Tracks : paths[id] = LoadedPaths[rows[id]]
    /\ \A i \in DOMAIN nodes \ {ROOT} : nodes[i].name \notin Dots
=============================================================================
