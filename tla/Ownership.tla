----------------------------- MODULE Ownership -----------------------------
(***************************************************************************)
(* What WorkspaceLockGuard promises: a submission owns a private subtree   *)
(* of the workspace, writes only there, and hands it on empty (the comment *)
(* at src/server/remote_service_implement.cc 224-225).  There are no       *)
(* threads, messages or statuses here.                                     *)
(***************************************************************************)
CONSTANTS
    Sessions,       \* the submissions
    Dirs,           \* the directories of the workspace tree
    Nobody          \* no submission: the owner of a free directory

VARIABLES
    owner,          \* the submission each directory belongs to
    files           \* the submissions that have files in a directory

Init ==
    /\ owner = [d \in Dirs |-> Nobody]
    /\ files = [d \in Dirs |-> {}]

Owned(s) == {d \in Dirs : owner[d] = s}

(* Only directories that are free and empty can be taken.                  *)
Take(s, A) ==
    /\ \A d \in A : owner[d] = Nobody /\ files[d] = {}
    /\ owner' = [d \in Dirs |-> IF d \in A THEN s ELSE owner[d]]
    /\ UNCHANGED files

Write(s, d) ==
    /\ owner[d] = s
    /\ files' = [files EXCEPT ![d] = @ \cup {s}]
    /\ UNCHANGED owner

Erase(s, A) ==
    /\ A \subseteq Owned(s)
    /\ files' = [d \in Dirs |-> IF d \in A THEN {} ELSE files[d]]
    /\ UNCHANGED owner

Give(s) ==
    /\ \A d \in Owned(s) : files[d] = {}
    /\ owner' = [d \in Dirs |-> IF owner[d] = s THEN Nobody ELSE owner[d]]
    /\ UNCHANGED files

Next ==
    \E s \in Sessions :
        \/ \E A \in SUBSET Dirs : Take(s, A) \/ Erase(s, A)
        \/ \E d \in Dirs : Write(s, d)
        \/ Give(s)

Spec == Init /\ [][Next]_<<owner, files>>
=============================================================================
