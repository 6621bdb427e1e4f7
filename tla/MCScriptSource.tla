--------------------------- MODULE MCScriptSource ---------------------------
(* TLC instance of ScriptSource. *)
EXTENDS ScriptSource, TLC

CONSTANTS first, again, other, n, m

\* Two objects of one name and one of another.
Names == [s \in {first, again, other} |-> IF s = other THEN m ELSE n]

Symmetry == Permutations({first, again})
=============================================================================
