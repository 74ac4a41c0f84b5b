------------------------------ MODULE MCMemory ------------------------------
(***************************************************************************)
(* Small instances of Memory: a and A have one normal form, a and b are    *)
(* similar, m is what Qwen makes of them. m has a capital that SQLite does *)
(* not know, so that its form there is another one.                        *)
(***************************************************************************)
EXTENDS Memory, TLC

MCTexts == {"a", "A", "b", "m"}
MCPyForm == [t \in MCTexts |-> IF t = "A" THEN "a" ELSE t]
MCSqlForm == [MCPyForm EXCEPT !["m"] = "M"]
MCNear == {<<"a", "a">>, <<"a", "A">>, <<"A", "a">>, <<"A", "A">>, <<"b", "b">>}
MCSimilar == {<<"a", "b">>, <<"A", "b">>}
MCFiles == {<<>>, <<"a", "m">>}
Symmetry == Permutations(Procs)
=============================================================================
