--------------------------- MODULE OwnershipProofs ---------------------------
(***************************************************************************)
(* The workspace guard of remote_server implements Ownership: for any      *)
(* number of sessions, any separate workspaces and commands that leave no  *)
(* process behind, every step of a session takes, writes, erases or gives  *)
(* back what the session owns, or is none of the guard's business.         *)
(*                                                                         *)
(* The owner of a directory is the session whose guard is locked and in    *)
(* whose area it lies; that there is one at most is what the isolation     *)
(* proved in TaskSubmissionProofs comes from.                              *)
(***************************************************************************)
EXTENDS TaskSubmissionProofs

(* The areas of two locked guards have no directory in common.             *)
LEMMA LockedApart ==
    ASSUME IsolationInv, SeparateWorkspaces,
           NEW s \in Sessions, NEW t \in Sessions, s # t, locked_[s], locked_[t]
    PROVE  Area(paths[s]) \cap Area(paths[t]) = {}
<1>1. paths[s] # NoPaths /\ paths[t] # NoPaths
    BY DEF IsolationInv, LockInv, LockExact
<1>2. Key(s) # Key(t)
    BY DEF IsolationInv, LockInv, LockExact
<1>3. PICK c \in Configs, e \in Configs : paths[s] = Resolve[c] /\ paths[t] = Resolve[e]
    BY <1>1 DEF IsolationInv, GuardInv
<1>4. ~Resolve[c].slash /\ ~Resolve[e].slash
    BY <1>1, <1>3 DEF SeparateWorkspaces
<1>5. Resolve[c] \in ResolvedTaskPaths /\ Resolve[e] \in ResolvedTaskPaths
    BY <1>1, <1>3, ConfigsAssumption
<1>6. Resolve[c].dir # Resolve[e].dir
    BY <1>2, <1>3, <1>4, <1>5 DEF Key, KeyOf, ResolvedTaskPaths
<1> QED
    BY <1>1, <1>3, <1>6 DEF SeparateWorkspaces

(* A directory in the area of a locked guard belongs to its session.       *)
LEMMA HolderOfArea ==
    ASSUME IsolationInv, SeparateWorkspaces,
           NEW s \in Sessions, NEW d \in Dirs
    PROVE  /\ locked_[s] /\ d \in Area(paths[s]) <=> Holder(d) = s
           /\ Holder(d) = s => Holders(d) = {s}
<1>1. CASE s \in Holders(d)
    <2>1. \A t \in Holders(d) : t = s
        BY <1>1, LockedApart DEF Holders
    <2>2. Holders(d) = {s}
        BY <1>1, <2>1
    <2> QED
        BY <1>1, <2>2 DEF Holder, Holders
<1>2. CASE s \notin Holders(d)
    <2>1. Holder(d) # s
        BY <1>2, EnvironmentAssumption DEF Holder
    <2> QED
        BY <1>2, <2>1 DEF Holders
<1> QED
    BY <1>1, <1>2

(* Whoever has a file in a directory owns it, before the end of Cleanup(). *)
LEMMA FilesAreHeld ==
    ASSUME IsolationInv, SeparateWorkspaces,
           NEW d \in Dirs, NEW t \in tree[d]
    PROVE  /\ t \in Sessions /\ locked_[t] /\ cleanup_registered_[t]
           /\ d \in Area(paths[t])
<1>1. t \in Sessions
    BY DEF IsolationInv, LockInv, TypeOK
<1>2. cleanup_registered_[t] /\ d \in Area(paths[t])
    BY <1>1 DEF IsolationInv, FilesInv
<1>3. paths[t] # NoPaths /\ pc[t] # "returned"
    BY <1>1, <1>2 DEF IsolationInv, LockInv, LockedWhileInside, GuardInv
<1> QED
    BY <1>1, <1>2, <1>3 DEF IsolationInv, LockInv, LockedWhileInside

(* The handler of a session stands inside its area.                        *)
LEMMA InsideItsArea ==
    ASSUME IsolationInv, NEW s \in Sessions, paths[s] # NoPaths, pc[s] # "returned"
    PROVE  /\ locked_[s] /\ paths[s] \in ResolvedTaskPaths
           /\ paths[s].dir \in Dirs /\ paths[s].dir \in Area(paths[s])
           /\ Workspace(s) \subseteq Area(paths[s])
           /\ Below[paths[s].out] \subseteq Area(paths[s])
           /\ Area(paths[s]) \subseteq Dirs
<1>1. locked_[s] /\ paths[s] \in ResolvedTaskPaths
    BY DEF IsolationInv, LockInv, LockedWhileInside, TypeOK
<1> QED
    BY <1>1, DirsAssumption DEF ResolvedTaskPaths, Area, Workspace

(* The owners are the same while no guard is locked or unlocked.           *)
LEMMA SameOwner ==
    ASSUME UNCHANGED <<paths, locked_>>
    PROVE  UNCHANGED [d \in Dirs |-> Holder(d)]
<1>1. \A d \in Dirs : Holders(d)' = Holders(d)
    BY DEF Holders
<1>2. \A d \in Dirs : Holder(d)' = Holder(d)
    <2> TAKE d \in Dirs
    <2>1. Holders(d)' = Holders(d)
        BY <1>1
    <2> QED
        BY <2>1 DEF Holder
<1> QED
    BY <1>2

-----------------------------------------------------------------------------
(* Acquire() takes the area of the config's workspace, free and empty.     *)
LEMMA AcquireTakes ==
    ASSUME IsolationInv, SeparateWorkspaces,
           NEW s \in Sessions, NEW c \in Configs, AcquireWorkspace(s, c)
    PROVE  \E A \in SUBSET Dirs : Abstract!Take(s, A)
<1> DEFINE p == Resolve[c]
           A == Area(p)
<1>1. p \in ResolvedTaskPaths /\ p # NoPaths
    BY ConfigsAssumption DEF AcquireWorkspace
<1>2. ~p.slash /\ ResolveTaskPaths(c) = p
    <2>1. ~p.slash
        BY <1>1 DEF SeparateWorkspaces
    <2>2. ResolveTaskPaths(c) = [p EXCEPT !.slash = p.slash /\ ~Exists(p.dir)]
        BY DEF ResolveTaskPaths
    <2>3. (p.slash /\ ~Exists(p.dir)) = p.slash
        BY <1>1, <2>1, Zenon DEF ResolvedTaskPaths
    <2>4. [p EXCEPT !.slash = p.slash] = p
        BY <1>1 DEF ResolvedTaskPaths
    <2> QED
        BY <2>1, <2>2, <2>3, <2>4
<1>3. /\ pc[s] = "download" /\ paths[s] = NoPaths /\ KeyOf(p) \notin g_locked_subdirs
      /\ paths' = [paths EXCEPT ![s] = p]
      /\ locked_' = [locked_ EXCEPT ![s] = TRUE]
      /\ tree' = tree
    BY <1>2 DEF AcquireWorkspace, Reads, Free
<1>4. ~locked_[s]
    BY <1>3 DEF IsolationInv, LockInv, LockExact
<1>5. A \subseteq Dirs
    BY <1>1, DirsAssumption DEF Area, ResolvedTaskPaths
<1>6. ASSUME NEW t \in Sessions, locked_[t]
      PROVE  Area(paths[t]) \cap A = {}
    <2>1. Key(t) # KeyOf(p) /\ paths[t] # NoPaths
        BY <1>3, <1>6, LockedKey DEF IsolationInv, LockInv, LockExact
    <2>2. PICK e \in Configs : paths[t] = Resolve[e]
        BY <2>1 DEF IsolationInv, GuardInv
    <2>3. Resolve[e] \in ResolvedTaskPaths /\ ~Resolve[e].slash
        BY <2>1, <2>2, ConfigsAssumption DEF SeparateWorkspaces
    <2>4. Resolve[e].dir # p.dir
        BY <1>1, <1>2, <2>1, <2>2, <2>3 DEF Key, KeyOf, ResolvedTaskPaths
    <2> QED
        BY <1>1, <2>1, <2>2, <2>4 DEF SeparateWorkspaces
<1> HIDE DEF p, A
<1>7. \A d \in A : Holders(d) = {} /\ tree[d] = {}
    <2> TAKE d \in A
    <2>1. Holders(d) = {}
        BY <1>6 DEF Holders
    <2>2. \A t \in tree[d] : FALSE
        BY <1>5, <1>6, FilesAreHeld
    <2> QED
        BY <2>1, <2>2
<1>8. \A t \in Sessions : /\ paths'[t] = IF t = s THEN p ELSE paths[t]
                          /\ locked_'[t] <=> t = s \/ locked_[t]
    BY <1>3 DEF IsolationInv, LockInv, TypeOK
<1>9. \A d \in Dirs : Holders(d)' = IF d \in A THEN {s} ELSE Holders(d)
    <2> TAKE d \in Dirs
    <2>1. Holders(d)' = {t \in Sessions : locked_'[t] /\ d \in Area(paths'[t])}
        BY DEF Holders
    <2>2. \A t \in Sessions \ {s} : (locked_'[t] /\ d \in Area(paths'[t])) <=> t \in Holders(d)
        BY <1>8 DEF Holders
    <2>3. (locked_'[s] /\ d \in Area(paths'[s])) <=> d \in A
        BY <1>8 DEF A
    <2>4. s \notin Holders(d) /\ Holders(d) \subseteq Sessions
        BY <1>4 DEF Holders
    <2> QED
        BY <1>7, <2>1, <2>2, <2>3, <2>4
<1>10. \A d \in Dirs : Holder(d)' = IF d \in A THEN s ELSE Holder(d)
    <2> TAKE d \in Dirs
    <2>1. CASE d \in A
        <3>1. Holders(d)' = {s}
            BY <1>9, <2>1
        <3>2. \A t \in {s} : t = s
            OBVIOUS
        <3> QED
            BY <2>1, <3>1, <3>2 DEF Holder
    <2>2. CASE d \notin A
        <3>1. Holders(d)' = Holders(d)
            BY <1>9, <2>2
        <3> QED
            BY <2>2, <3>1 DEF Holder
    <2> QED
        BY <2>1, <2>2
<1>11. \A d \in A : Holder(d) = NoPgid
    BY <1>7 DEF Holder
<1>12. Abstract!Take(s, A)
    BY <1>3, <1>5, <1>7, <1>10, <1>11 DEF Abstract!Take
<1> QED
    BY <1>5, <1>12

(* A file is put into a directory of the session's own.                    *)
LEMMA WritesItsOwn ==
    ASSUME IsolationInv, SeparateWorkspaces, NEW s \in Sessions, NEW d \in Dirs,
           locked_[s], d \in Area(paths[s]),
           tree' = [tree EXCEPT ![d] = @ \cup {s}],
           UNCHANGED <<paths, locked_>>
    PROVE  Abstract!Write(s, d)
BY HolderOfArea, SameOwner DEF Abstract!Write

(* Cleanup() of one of the two targets erases what is the session's own.   *)
LEMMA ErasesItsOwn ==
    ASSUME IsolationInv, SeparateWorkspaces, NEW s \in Sessions, NEW e \in Dirs,
           locked_[s], Below[e] \subseteq Area(paths[s]),
           tree' = Removed(e), UNCHANGED <<paths, locked_>>
    PROVE  \E A \in SUBSET Dirs : Abstract!Erase(s, A)
<1>1. Below[e] \subseteq Dirs
    BY DirsAssumption
<1>2. Below[e] \subseteq Abstract!Owned(s)
    BY <1>1, HolderOfArea DEF Abstract!Owned
<1> QED
    BY <1>1, <1>2, SameOwner DEF Abstract!Erase, Removed

(* Release() gives the area back, empty.                                   *)
LEMMA ReleaseGives ==
    ASSUME IsolationInv, SeparateWorkspaces, NEW s \in Sessions, Release(s), locked_[s]
    PROVE  Abstract!Give(s)
<1>1. /\ pc[s] = "release" /\ tree' = tree /\ paths' = paths
      /\ locked_' = [locked_ EXCEPT ![s] = FALSE]
    BY DEF Release
<1>2. ~cleanup_registered_[s]
    BY <1>1 DEF IsolationInv, GuardInv
<1>3. \A d \in Abstract!Owned(s) : tree[d] = {}
    <2> SUFFICES ASSUME NEW d \in Dirs, Holder(d) = s, NEW t \in tree[d]
                 PROVE  FALSE
        BY DEF Abstract!Owned
    <2>1. locked_[s] /\ d \in Area(paths[s])
        BY HolderOfArea
    <2>2. t \in Sessions /\ locked_[t] /\ d \in Area(paths[t]) /\ t # s
        BY <1>2, FilesAreHeld
    <2> QED
        BY <2>1, <2>2, LockedApart
<1>4. \A t \in Sessions : locked_'[t] <=> t # s /\ locked_[t]
    BY <1>1 DEF IsolationInv, LockInv, TypeOK
<1>5. \A d \in Dirs : Holders(d)' = Holders(d) \ {s}
    BY <1>1, <1>4 DEF Holders
<1>6. \A d \in Dirs : Holder(d)' = IF Holder(d) = s THEN NoPgid ELSE Holder(d)
    <2> TAKE d \in Dirs
    <2>1. CASE Holder(d) = s
        <3>1. Holders(d)' = {}
            BY <1>5, <2>1, HolderOfArea
        <3> QED
            BY <2>1, <3>1 DEF Holder
    <2>2. CASE Holder(d) # s
        <3>1. s \notin Holders(d)
            BY <2>2, HolderOfArea DEF Holders
        <3>2. Holders(d)' = Holders(d)
            BY <1>5, <3>1
        <3> QED
            BY <2>2, <3>2 DEF Holder
    <2> QED
        BY <2>1, <2>2
<1> QED
    BY <1>1, <1>3, <1>6 DEF Abstract!Give

-----------------------------------------------------------------------------
(* Every step is one of Ownership, or changes neither owners nor files.    *)
LEMMA StepImplements ==
    ASSUME IsolationInv, SeparateWorkspaces, Faults = {}, [Next]_vars
    PROVE  [Abstract!Next]_<<[d \in Dirs |-> Holder(d)], tree>>
<1> DEFINE Quiet == UNCHANGED <<paths, locked_, tree>>
<1>q. ASSUME Quiet
      PROVE  UNCHANGED <<[d \in Dirs |-> Holder(d)], tree>>
    BY <1>q, SameOwner
<1>1. CASE UNCHANGED vars
    BY <1>1, <1>q DEF vars, handlerVars
<1> SUFFICES ASSUME NEW s \in Sessions,
                    \/ Accept(s) \/ Cancel(s) \/ HalfClose(s)
                    \/ ClientSends(s) \/ HandlerStep(s)
                    \/ CancelThreadKills(s) \/ MonitorReaps(s)
                    \/ MonitorTimesOut(s) \/ MonitorFails(s) \/ ProcessStep(s)
             PROVE  \/ \E A \in SUBSET Dirs : Abstract!Take(s, A) \/ Abstract!Erase(s, A)
                    \/ \E d \in Dirs : Abstract!Write(s, d)
                    \/ Abstract!Give(s)
                    \/ Quiet
    BY <1>1, <1>q DEF Next, Abstract!Next
<1>2. CASE Accept(s) \/ Cancel(s) \/ HalfClose(s)
    BY <1>2 DEF Accept, Cancel, HalfClose, Advance, Fail, handlerVars
<1>3. CASE ClientSends(s)
    <2>1. ASSUME NEW c \in Configs, AcquireWorkspace(s, c)
          PROVE  \E A \in SUBSET Dirs : Abstract!Take(s, A)
        BY <2>1, AcquireTakes
    <2>2. ASSUME NEW d \in Dirs, WriteChunk(s, d)
          PROVE  Abstract!Write(s, d)
        <3>1. /\ pc[s] = "download" /\ paths[s] # NoPaths /\ d \in Workspace(s)
              /\ tree' = [tree EXCEPT ![d] = @ \cup {s}]
              /\ UNCHANGED <<paths, locked_>>
            BY <2>2 DEF WriteChunk, Reads
        <3>2. locked_[s] /\ d \in Area(paths[s])
            BY <3>1, InsideItsArea
        <3> QED
            BY <3>1, <3>2, WritesItsOwn
    <2>3. CASE DuplicateConfig(s) \/ ChunkBeforeConfig(s)
        BY <2>3 DEF DuplicateConfig, ChunkBeforeConfig, Fail
    <2>4. ASSUME NEW c \in Configs, EscapingConfig(s, c) \/ OccupiedWorkspace(s, c)
          PROVE  Quiet
        BY <2>4 DEF EscapingConfig, OccupiedWorkspace, Fail
    <2>5. ASSUME NEW code, BadChunk(s, code)
          PROVE  Quiet
        BY <2>5 DEF BadChunk, Fail
    <2> QED
        BY <1>3, <2>1, <2>2, <2>3, <2>4, <2>5 DEF ClientSends
<1>4. CASE HandlerStep(s)
    <2>1. CASE ReadCancelled(s) \/ EmptyCommand(s) \/ StartFails(s) \/ EndOfStream(s)
        BY <2>1 DEF ReadCancelled, EmptyCommand, StartFails, EndOfStream, Advance, Fail
    <2>2. CASE PrepareRunDirectory(s)
        <3>1. CASE Fail(s, "INTERNAL")
            BY <3>1 DEF Fail
        <3>2. CASE ~Fail(s, "INTERNAL")
            <4>1. /\ pc[s] = "execute" /\ UNCHANGED <<paths, locked_>>
                  /\ tree' = [tree EXCEPT ![paths[s].dir] = @ \cup {s}]
                BY <2>2, <3>2 DEF PrepareRunDirectory, Advance
            <4>2. paths[s] # NoPaths
                BY <4>1 DEF IsolationInv, LockInv, LockedWhileInside
            <4>3. locked_[s] /\ paths[s].dir \in Dirs /\ paths[s].dir \in Area(paths[s])
                BY <4>1, <4>2, InsideItsArea
            <4> QED
                BY <4>1, <4>3, WritesItsOwn
        <3> QED
            BY <3>1, <3>2
    <2>3. CASE \/ StartChildProcess(s) \/ RegisterTaskProcessGroup(s)
               \/ UnregisterTaskProcessGroup(s)
        BY <2>3 DEF StartChildProcess, RegisterTaskProcessGroup,
            UnregisterTaskProcessGroup, Advance
    <2>4. CASE CleanupWorkspace(s)
        <3>1. CASE cleanup_registered_[s]
            <4>1. /\ pc[s] = "cleanup" /\ UNCHANGED <<paths, locked_>>
                  /\ tree' = Removed(paths[s].dir)
                BY <2>4, <3>1 DEF CleanupWorkspace, RemovePath, Advance
            <4>2. paths[s] # NoPaths
                BY <3>1 DEF IsolationInv, LockInv, LockedWhileInside
            <4>3. /\ locked_[s] /\ paths[s].dir \in Dirs
                  /\ Below[paths[s].dir] \subseteq Area(paths[s])
                BY <4>1, <4>2, InsideItsArea DEF Workspace
            <4> QED
                BY <4>1, <4>3, ErasesItsOwn
        <3>2. CASE ~cleanup_registered_[s]
            BY <2>4, <3>2 DEF CleanupWorkspace, Advance
        <3> QED
            BY <3>1, <3>2
    <2>5. CASE CleanupOutput(s)
        <3>1. /\ pc[s] = "cleanup_output" /\ UNCHANGED <<paths, locked_>>
              /\ tree' = IF paths[s].out # paths[s].dir THEN Removed(paths[s].out) ELSE tree
            BY <2>5 DEF CleanupOutput, RemovePath
        <3>2. paths[s] # NoPaths
            BY <3>1 DEF IsolationInv, LockInv, LockedWhileInside
        <3>3. /\ locked_[s] /\ paths[s].out \in Dirs
              /\ Below[paths[s].out] \subseteq Area(paths[s])
            BY <3>1, <3>2, InsideItsArea DEF ResolvedTaskPaths
        <3>4. CASE paths[s].out # paths[s].dir
            BY <3>1, <3>3, <3>4, ErasesItsOwn
        <3>5. CASE paths[s].out = paths[s].dir
            BY <3>1, <3>5
        <3> QED
            BY <3>4, <3>5
    <2>6. CASE Release(s)
        <3>1. CASE locked_[s]
            BY <2>6, <3>1, ReleaseGives
        <3>2. CASE ~locked_[s]
            BY <2>6, <3>2 DEF Release, IsolationInv, LockInv, TypeOK
        <3> QED
            BY <3>1, <3>2
    <2> QED
        BY <1>4, <2>1, <2>2, <2>3, <2>4, <2>5, <2>6 DEF HandlerStep
<1>5. CASE \/ CancelThreadKills(s) \/ MonitorReaps(s)
           \/ MonitorTimesOut(s) \/ MonitorFails(s)
    BY <1>5 DEF CancelThreadKills, MonitorReaps, MonitorTimesOut, MonitorFails, MonitorReturns,
        handlerVars
<1>6. CASE ProcessStep(s)
    <2>1. ASSUME NEW d \in Dirs, TaskWrites(s, d)
          PROVE  Abstract!Write(s, d)
        <3>1. /\ child[s] = "running" /\ d \in Area(paths[s])
              /\ tree' = [tree EXCEPT ![d] = @ \cup {s}]
              /\ UNCHANGED <<paths, locked_>>
            BY <2>1 DEF TaskWrites, Alive, IsolationInv, ProcessInv, handlerVars
        <3>2. pc[s] \in {"register", "monitor"}
            BY <3>1 DEF IsolationInv, ProcessInv
        <3>3. locked_[s]
            BY <3>2 DEF IsolationInv, LockInv, LockedWhileInside
        <3> QED
            BY <3>1, <3>3, WritesItsOwn
    <2>2. CASE ChildExits(s) \/ HelpersExit(s)
        BY <2>2 DEF ChildExits, HelpersExit, handlerVars
    <2> QED
        BY <1>6, <2>1, <2>2 DEF ProcessStep
<1> QED
    BY <1>2, <1>3, <1>4, <1>5, <1>6

(* What the guard promises of a workspace (the comment at                  *)
(* remote_service_implement.cc:224), it keeps: as long as no two           *)
(* workspaces overlap and no process outlives its shell, directories are   *)
(* taken free and empty, written and erased by their owner only, and given *)
(* back empty.                                                             *)
THEOREM GuardImplementsOwnership ==
    ASSUME SeparateWorkspaces, Faults = {}
    PROVE  Spec => ImplementsOwnership
<1>1. Init => Abstract!Init
    <2> SUFFICES ASSUME Init
                 PROVE  Abstract!Init
        OBVIOUS
    <2>1. \A d \in Dirs : Holders(d) = {}
        BY DEF Init, Holders
    <2>2. \A d \in Dirs : Holder(d) = NoPgid
        BY <2>1 DEF Holder
    <2> QED
        BY <2>2 DEF Init, Abstract!Init
<1>2. IsolationInv /\ [Next]_vars
        => [Abstract!Next]_<<[d \in Dirs |-> Holder(d)], tree>>
    BY StepImplements
<1> QED
    BY <1>1, <1>2, IsolationAlways, PTL DEF Spec, ImplementsOwnership, Abstract!Spec
=============================================================================
