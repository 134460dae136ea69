--------------------------- MODULE MCUtilization ---------------------------
(* Instances of Utilization for TLC.                                       *)
EXTENDS Utilization, TLC

CONSTANTS a, b

(* The first workspace has a second name, such as "./a".                   *)
DirOfName == [n \in Names |-> IF n = "b" THEN b ELSE a]

KeyOfWorkspace == [w \in Workspaces |-> IF w = b THEN "b" ELSE "a"]

Symmetry == Permutations(Tasks) \cup Permutations(Updates)
            \cup Permutations(Values)
=============================================================================
