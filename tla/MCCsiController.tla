--------------------------- MODULE MCCsiController ---------------------------
EXTENDS CsiController
CONSTANTS c1, c2
Pvc(n, p) == [ns |-> n, pvc |-> p]
\* team/a-b and team-a/b; team/a--b and team--a/b; and calls that lack both keys,
\* or one: default/unknown may be a claim of its own
NamesOfRun ==
    {(c1 :> Pvc(<<"t">>, <<"a", "b">>)) @@ (c2 :> Pvc(<<"t", "a">>, <<"b">>)),
     (c1 :> Pvc(<<"t">>, <<"a", "", "b">>)) @@ (c2 :> Pvc(<<"t", "", "a">>, <<"b">>)),
     (c1 :> Pvc(None, None)) @@ (c2 :> Pvc(None, None)),
     (c1 :> Pvc(None, <<"unknown">>)) @@ (c2 :> Pvc(<<"default">>, None))}
==============================================================================
