---------------------------- MODULE MCIndexSync ----------------------------
(* The instance of IndexSync for TLC: calls are interchangeable; of the two *)
(* values, the text of the second contains that of the first.  An artifact's *)
(* content holds the first text, and its metadata, its file name, the second. *)
EXTENDS IndexTraces, TLC

CONSTANTS v1, v2, t1, t2

MCTextOf == (v1 :> t1) @@ (v2 :> t2)
MCInText == {<<t1, t1>>, <<t2, t2>>, <<t2, t1>>}
              \cup {<<ArtifactText(a, "content"), t1>> : a \in Artifacts}
MCInMeta == {<<<<"artifact", a>>, t2>> : a \in Artifacts}

Symmetry == Permutations(Calls)
=============================================================================
