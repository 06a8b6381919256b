------------------------------- MODULE MCScan -------------------------------
(***************************************************************************)
(* Instances of Scan for TLC.                                              *)
(***************************************************************************)
EXTENDS Scan, Walk, TLC

\* a and b parse to the same fingerprint; the others go wrong one way each.
MCKind == [c \in Contents |-> CASE c \in {"a", "b"} -> "ok" [] c = "r" -> "rejected"
                                [] c = "u" -> "unparseable" [] c = "o" -> "oversize"]
MCFingerprint == [c \in Contents |-> IF c \in {"a", "b"} THEN "x" ELSE c]
MCWeight == [c \in Contents |-> IF c = "b" THEN 3 ELSE 1]

Opt(mode, force, tier, strictness, prune, follow) ==
    [mode |-> mode, force |-> force, tier |-> tier, strictness |-> strictness, prune |-> prune,
     follow_symlinks |-> follow]

MCOptions == {
    Opt("scan", FALSE, "Fingerprint", "Auto", FALSE, TRUE),
    Opt("scan", FALSE, "Full", "Strict", FALSE, FALSE),
    Opt("scan", TRUE, "None", "Fast", FALSE, FALSE),
    Opt("revalidate", FALSE, "Fingerprint", "Auto", TRUE, FALSE)}

\* A link to a file that is found anyway, one back to the top, a second way
\* into "disc", and one to path 4, which is outside the root.
MCEntries == [top |-> <<FileLink(2), FileEntry(1), DirLink("disc"), DirEntry("disc"), DirEntry("locked"), Other>>,
              disc |-> <<DirLink("top"), FileEntry(2), FileEntry(3), FileLink(1), FileLink(4)>>,
              locked |-> <<>>]

MCFiles == {<<"a", "b", "a", None>>, <<"u", "r", "o", "a">>}
MCTracks == {<<None, None, None, "a">>, <<"a", "a", "a", "b">>}
=============================================================================
