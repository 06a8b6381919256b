------------------------------- MODULE MCFuse -------------------------------
(***************************************************************************)
(* Instances of Fuse for TLC.                                              *)
(***************************************************************************)
EXTENDS Fuse, TLC

MCEntries == <<"file", "dir", "file">>
MCPages == {<<0, 3>>, <<1, 1>>}
MCLoads == {
    ("opendir" :> 3) @@ ("readdir" :> 1) @@ ("poll" :> 2),
    ("opendir" :> 3) @@ ("readdirplus" :> 1),
    ("opendir" :> 1) @@ ("readdirplus" :> 2) @@ ("lose" :> 1),
    ("getattr" :> 1) @@ ("read" :> 2) @@ ("open" :> 1) @@ ("poll" :> 1) @@ ("lose" :> 1)}
=============================================================================
