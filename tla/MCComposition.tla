--------------------------- MODULE MCComposition -----------------------------
EXTENDS Composition
CONSTANTS t1, t2

Interchangeable == Permutations(Clients) \cup Permutations(Mounts)

\* One tenant owns the mounts, the other only resolves.
OneOwner == [m \in Mounts |-> t1]

\* Two texts of one path, and two nested paths whose texts are equally long.
Texts == {"/a//", "/a/b", "/a//b"}

ComponentsOfTexts ==
    ("/a//" :> <<"a">>) @@ ("/a/b" :> <<"a", "b">>) @@ ("/a//b" :> <<"a", "b">>)

LengthsOfTexts == ("/a//" :> 4) @@ ("/a/b" :> 4) @@ ("/a//b" :> 5)

DirectoriesAndFile ==
    {[path |-> "/a//", file |-> FALSE, kind |-> "working_layer"],
     [path |-> "/a/b", file |-> FALSE, kind |-> "working_layer"],
     [path |-> "/a//b", file |-> TRUE, kind |-> "layer"]}
==============================================================================
