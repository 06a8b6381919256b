-------------------------------- MODULE Walk --------------------------------
(***************************************************************************)
(* The directory walk of a scan, collect_audio_with of                     *)
(* musefs-core/src/scan.rs.  Directories and files stand for what they     *)
(* are, whatever link leads to them: a file is listed by the path the      *)
(* worker canonicalizes it to.                                             *)
(***************************************************************************)
EXTENDS Sequences, SequencesExt

CONSTANTS
    Entries,     \* directory -> the sequence of its entries
    Top,         \* the directory that is scanned
    Unreadable   \* directories read_dir fails on

\* Entries: a directory, an audio file, a link to one of them, and the rest.
DirEntry(d) == [t |-> "dir", to |-> d]
FileEntry(p) == [t |-> "file", to |-> p]
DirLink(d) == [t |-> "dirlink", to |-> d]
FileLink(p) == [t |-> "filelink", to |-> p]
Other == [t |-> "other", to |-> Top]

\* With links followed, a file is listed once, by its device and inode.
push_file(s, p, follow_symlinks) ==
    IF follow_symlinks /\ Contains(s.out, p) THEN s ELSE [s EXCEPT !.out = Append(@, p)]

RECURSIVE collect_audio_inner(_, _, _, _), descend(_, _, _, _)
\* s is [out, visited]; present holds the files that are there.  A file that
\* is not there is no entry, and its links are broken.
collect_audio_inner(s, d, present, follow_symlinks) ==
    LET Step(acc, e) ==
            CASE e.t = "dir" -> descend(acc, e.to, present, follow_symlinks)
              [] e.t = "dirlink" ->
                   IF follow_symlinks THEN descend(acc, e.to, present, follow_symlinks) ELSE acc
              [] e.t = "file" ->
                   IF e.to \in present THEN push_file(acc, e.to, follow_symlinks) ELSE acc
              [] e.t = "filelink" ->
                   IF follow_symlinks /\ e.to \in present THEN push_file(acc, e.to, TRUE) ELSE acc
              [] e.t = "other" -> acc
    IN  IF d \in Unreadable THEN s ELSE FoldLeft(Step, s, Entries[d])

\* A directory that was entered before is a cycle, or another way to it.
descend(s, d, present, follow_symlinks) ==
    IF follow_symlinks /\ d \in s.visited THEN s
    ELSE collect_audio_inner([s EXCEPT !.visited = @ \cup {d}], d, present, follow_symlinks)

collect_audio_with(present, follow_symlinks) ==
    collect_audio_inner([out |-> <<>>, visited |-> {Top}], Top, present, follow_symlinks).out
=============================================================================
