----------------------------- MODULE Freshness -----------------------------
(***************************************************************************)
(* What the mount promises of external edits, whatever a poll does to keep *)
(* it: a tree never claims to be newer than it is.  The store has one      *)
(* state per commit, numbered as PRAGMA data_version numbers them; `stamp' *)
(* is the number the mount says its tree reflects.  Every track is shown   *)
(* as a key and the tags read after it render it, both read no earlier     *)
(* than the stamp, unless a rebuild is owed.                               *)
(***************************************************************************)
EXTENDS Integers

CONSTANTS
    Ids,
    None,       \* no row; a track that is not shown
    Untagged,   \* the tags read for a track that has no row
    Skipped     \* tags that render no path

VARIABLES
    now,        \* commits so far
    history,    \* moment -> track id -> row or None
    stamp,      \* the moment the tree is said to reflect
    owed,       \* a tree build failed half way and has not been made good
    shown       \* track id -> path or None

vars == <<now, history, stamp, owed, shown>>

\* The path of a track whose key was read from row k and its tags from row t.
PathOf(k, t) ==
    LET tags == IF t = None THEN Untagged ELSE t.tags
    IN  IF k = None \/ tags \in Skipped THEN None ELSE <<k.format, tags>>

\* Rows of two tracks that had one rowid, which a render key cannot tell apart.
Mistaken(r, q) ==
    /\ r # None /\ q # None
    /\ r.life # q.life /\ r.content_version = q.content_version /\ r.format = q.format

\* p is what track id was rendered to at `from' or later, or earlier and no
\* render key of a later moment could tell.
RenderedSince(id, from, p) ==
    \E k, t \in 0..now :
        /\ k <= t
        /\ p = PathOf(history[k][id], history[t][id])
        /\ \/ from <= k
           \/ \E m \in from..now : Mistaken(history[k][id], history[m][id])

Promise == \A id \in Ids : RenderedSince(id, IF owed THEN 0 ELSE stamp, shown[id])

Init ==
    /\ now = 0 /\ history = [m \in {0} |-> history[m]]
    /\ stamp = 0 /\ owed = FALSE
    /\ Promise

\* Some writer commits; the past stays what it was.
Commit ==
    /\ now' = now + 1
    /\ DOMAIN history' = 0..now'
    /\ \A m \in 0..now : history'[m] = history[m]
    /\ UNCHANGED <<stamp, owed, shown>>

\* A step of a poll: it may show another tree, stamp it, or make good what was
\* owed, and owes nothing new.
Refresh ==
    /\ stamp' \in 0..now
    /\ owed' => owed
    /\ Promise'
    /\ UNCHANGED <<now, history>>

\* A tree build panics.
Panic ==
    /\ owed'
    /\ UNCHANGED <<now, history, stamp, shown>>

Next == Commit \/ Refresh \/ Panic

Spec == Init /\ [][Next]_vars
=============================================================================
