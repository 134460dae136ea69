--------------------------- MODULE MCTaskMonitor ---------------------------
(* Instances of TaskMonitor for TLC: the .cfg files give every constant.   *)
EXTENDS TaskMonitor

AllBehaviours == BehaviourKinds

(* A shell that keeps its output open until it exits, and a waitpid() that *)
(* finds it then.                                                          *)
OutputKeptOpen == BehaviourKinds \ {"closes_output", "wait_error"}
=============================================================================
