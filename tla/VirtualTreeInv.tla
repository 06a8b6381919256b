--------------------------- MODULE VirtualTreeInv ---------------------------
(***************************************************************************)
(* What is true of the tree and the allocator of VirtualTree while a       *)
(* refresh works on them, and the inductive invariant made of it.          *)
(***************************************************************************)
EXTENDS VirtualTree

(***************************************************************************)
(* Of a tree T.                                                            *)
(***************************************************************************)

\* Nodes hang below directories made before them.
WellFormed(T) ==
    /\ IsFiniteSet(DOMAIN T) /\ DOMAIN T \subseteq Nat /\ ROOT \in DOMAIN T
    /\ T = [i \in DOMAIN T |-> T[i]]
    /\ T[ROOT].parent = ROOT /\ IsDir(T, ROOT)
    /\ \A i \in DOMAIN T \ {ROOT} :
         /\ T[i].parent \in DOMAIN T /\ IsDir(T, T[i].parent) /\ T[i].parent < i
         /\ T[i].name \in Names \ Dots /\ T[i].rendered \in Names /\ T[i].track \in Nat

\* No two children of a directory have one name, nor that of an injected one.
UniqueNames(T) ==
    \A i, j \in DOMAIN T \ {ROOT} :
        /\ T[i].parent = ROOT => Key(T[i].name) \notin Reserved
        /\ (i # j /\ T[i].parent = T[j].parent) => Key(T[i].name) # Key(T[j].name)

\* A directory has at most one child directory per rendered name.
OneDirPerRendering(T) ==
    \A i, j \in DOMAIN T \ {ROOT} :
        (IsDir(T, i) /\ IsDir(T, j) /\ T[i].parent = T[j].parent
           /\ Key(T[i].rendered) = Key(T[j].rendered)) => i = j

OneFilePerTrack(T) ==
    \A i, j \in DOMAIN T : (~IsDir(T, i) /\ T[i].track = T[j].track) => i = j

\* Every directory leads to a file, but the root, and `hole' for the moment.
NoEmptyDirs(T, hole) ==
    \A i \in DOMAIN T \ {ROOT, hole} : IsDir(T, i) => Kids(T, i) # {}

TrackIds(T) == {T[i].track : i \in DOMAIN T} \ {Dir}

Sound(T) ==
    WellFormed(T) /\ UniqueNames(T) /\ OneDirPerRendering(T) /\ OneFilePerTrack(T)

(***************************************************************************)
(* Of an allocator a, and of the two together.                             *)
(***************************************************************************)

\* One number per path, a path's own before those of the paths below it.
Allocated(a) ==
    /\ a.next \in Nat /\ DOMAIN a.paths \subseteq Seq(Names)
    /\ <<>> \in DOMAIN a.paths /\ a.paths[<<>>] = ROOT
    /\ \A p \in DOMAIN a.paths : a.paths[p] \in 1..(a.next - 1)
    /\ \A p, q \in DOMAIN a.paths : a.paths[p] = a.paths[q] => p = q
    /\ \A p \in DOMAIN a.paths \ {<<>>} :
         Front(p) \in DOMAIN a.paths /\ a.paths[Front(p)] < a.paths[p]

\* Every node has the number of the path it is at.
Interned(T, a) ==
    \A i \in DOMAIN T \ {ROOT} : \E p \in DOMAIN a.paths \ {<<>>} :
        /\ a.paths[p] = i /\ p[Len(p)] = Key(T[i].name)
        /\ a.paths[Front(p)] = T[i].parent

\* b came from a by interning paths.
Extends(a, b) ==
    /\ DOMAIN a.paths \subseteq DOMAIN b.paths /\ a.next <= b.next
    /\ \A p \in DOMAIN a.paths : b.paths[p] = a.paths[p]
    /\ \A p \in DOMAIN b.paths \ DOMAIN a.paths : b.paths[p] >= a.next

(***************************************************************************)
(* The inductive invariant.                                                *)
(***************************************************************************)
StoreOK ==
    /\ rows \in [Tracks -> TagRows \cup {None}] /\ touched \in 0..MaxTouched
    /\ paths = [id \in Tracks |-> paths[id]]
    /\ \A id \in Tracks : paths[id] # None => paths[id] \in Seq(Names)

\* The files of the tree are the tracks that have a path with a name in it.
Placed(new) == {id \in Tracks : new[id] # None /\ path_components(new[id]) # <<>>}

\* i was issued for the path that has it, as long as the allocator knows one.
Issued(iss, a) ==
    /\ \A i \in DOMAIN iss : i \in Nat /\ i < a.next
    /\ \A p \in DOMAIN a.paths : a.paths[p] \in DOMAIN iss => iss[a.paths[p]] = p

IInv ==
    /\ StoreOK
    /\ Sound(nodes) /\ NoEmptyDirs(nodes, ROOT) /\ TrackIds(nodes) = Placed(paths)
    /\ Allocated(alloc) /\ Interned(nodes, alloc)
    /\ DOMAIN nodes \subseteq DOMAIN issued /\ Issued(issued, alloc)
=============================================================================
