-------------------------- MODULE MCTaskSubmission --------------------------
(* Instances of TaskSubmission for TLC.                                    *)
EXTENDS TaskSubmission, TLC

(* Two workspaces side by side: one with a directory of uploaded files     *)
(* inside and its output directory the workspace itself, one whose output  *)
(* directory was sent as a directory of its own.                           *)
FlatDirs == {"a", "a/src", "b", "out"}

FlatBelow == [d \in FlatDirs |->
                IF d = "a" THEN {"a", "a/src"} ELSE {d}]

FlatConfigs == {"a", "b", "../x"}

FlatResolve == [c \in FlatConfigs |->
    CASE c = "a" -> [dir |-> "a", out |-> "a", slash |-> FALSE,
                     path_slash |-> FALSE]
      [] c = "b" -> [dir |-> "b", out |-> "out", slash |-> FALSE,
                     path_slash |-> FALSE]
      [] c = "../x" -> NoPaths]

(* One task directory inside another, and one named with and without a     *)
(* trailing slash.                                                         *)
NestedDirs == {"a", "a/b"}

NestedBelow == [d \in NestedDirs |-> IF d = "a" THEN NestedDirs ELSE {d}]

NestedConfigs == {"a", "a/", "a/b"}

NestedResolve == [c \in NestedConfigs |->
    IF c = "a/" THEN [dir |-> "a", out |-> "a", slash |-> TRUE,
                      path_slash |-> TRUE]
    ELSE [dir |-> c, out |-> c, slash |-> FALSE, path_slash |-> FALSE]]

(* One directory.                                                          *)
OneDir == {"a"}

OneBelow == [d \in OneDir |-> {d}]

OneResolve == [c \in OneDir |->
    [dir |-> "a", out |-> "a", slash |-> FALSE, path_slash |-> FALSE]]

SessionSymmetry == Permutations(Sessions)
=============================================================================
