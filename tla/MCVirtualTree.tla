--------------------------- MODULE MCVirtualTree ---------------------------
(***************************************************************************)
(* An instance of VirtualTree for TLC: names that collide, that spell a    *)
(* rank out, that are over-long and become a name the FUSE layer injects   *)
(* at the root, components that are dropped, and a track without a title.  *)
(***************************************************************************)
EXTENDS VirtualTreeInv, Template, TLC

\* [$!{path}/][$album[/$disc]/]${title|name}
MCTemplate ==
    <<Open, Field(<<"path">>, TRUE), Literal(<<Slash>>), Close,
      Open, Field(<<"album">>, FALSE), Open, Literal(<<Slash>>), Field(<<"disc">>, FALSE), Close,
      Literal(<<Slash>>), Close, Field(<<"title", "name">>, FALSE)>>
MCLower == ("NAME" :> "name")
MCFallbacks == ("disc" :> <<>>)
MCDefault == <<<<"Unknown">>>>
MCExtension == <<".x">>

a == <<"a">>
b == <<"b">>
FileNames == {"a", "b", "long"}
MCSpelled == [w \in {<<<<n>>, MCExtension>> : n \in FileNames} \cup {<<<<n, 2>>, MCExtension>> : n \in FileNames} |->
    LET n == w[1][1] IN
    <<CASE n = "a" -> "a.x" [] n = "b" -> "b.x" [] n = "long" -> "long.x">> \o Tail(w[1])]

Row(key, value) == [key |-> key, value |-> value]
MCTagRows ==
    {<<Row("NAME", <<a>>), Row("name", <<b>>), Row("title", <<>>)>>,
     <<Row("title", <<<<"a", 2>>>>), Row("title", <<b>>)>>,
     <<Row("album", <<<<"..">>>>), Row("disc", <<<<".">>>>), Row("title", <<<<"long">>>>)>>,
     <<Row("album", <<<<"a.x">>>>), Row("lyrics", <<a>>), Row("title", <<b>>)>>,
     <<Row("path", <<<<"..">>, Slash, <<"a.x", 2>>, Slash, Slash, <<"a.x">>, Slash, b>>), Row("title", <<b>>)>>,
     <<Row("path", <<b>>)>>}

\* What every list of tags renders to.
MCKeyedPaths == [r \in MCTagRows \cup {None} |-> IF r = None THEN None ELSE keyed_path(r)]
MCLoadedPaths == [r \in MCTagRows \cup {None} |-> IF r = None THEN None ELSE loaded_path(r)]

MCBases == {"", ".", "..", "a", "b", "a.x", "b.x", "long.x"}
MCStem == [x \in MCBases |-> x]
MCFolded == [x \in MCBases |-> x]
MCShort == [x \in {"long.x"} |-> "b.x"]
MCReserved == {[base |-> "b.x", ranks |-> <<>>]}
=============================================================================
