------------------------ MODULE TaskSubmissionProofs ------------------------
(***************************************************************************)
(* Theorems about TaskSubmission, for any set of sessions, any workspace   *)
(* tree and any configs.                                                   *)
(***************************************************************************)
EXTENDS TaskSubmission, TLAPS

-----------------------------------------------------------------------------
(* Type correctness.                                                       *)

LEMMA ResolvedPathsType ==
    ASSUME TypeOK, NEW c \in Configs, Resolve[c] # NoPaths
    PROVE  ResolveTaskPaths(c) \in ResolvedTaskPaths
<1>1. Resolve[c] \in ResolvedTaskPaths
    BY ConfigsAssumption
<1>2. (Resolve[c].slash /\ ~Exists(Resolve[c].dir)) \in BOOLEAN
    OBVIOUS
<1> QED BY <1>1, <1>2 DEF ResolveTaskPaths, ResolvedTaskPaths

LEMMA TypeInductive ==
    ASSUME TypeOK, [Next]_vars
    PROVE  TypeOK'
<1> USE DEF TypeOK
<1>1. CASE UNCHANGED vars
    BY <1>1 DEF vars, handlerVars, clientVars, processVars
<1> SUFFICES ASSUME NEW s \in Sessions,
                    \/ Accept(s) \/ Cancel(s) \/ HalfClose(s)
                    \/ ClientSends(s) \/ HandlerStep(s)
                    \/ CancelThreadKills(s) \/ MonitorReaps(s)
                    \/ MonitorTimesOut(s) \/ MonitorFails(s) \/ ProcessStep(s)
             PROVE  TypeOK'
    BY <1>1 DEF Next
<1>f. ASSUME NEW code \in Codes, Fail(s, code)
      PROVE  TypeOK'
    BY <1>f DEF Fail, Return, Goto, Locations, handlerVars, clientVars, processVars
<1>2. CASE Accept(s)
    BY <1>2, <1>f DEF Accept, Advance, Goto, Locations, Codes,
                        clientVars, processVars
<1>3. CASE Cancel(s) \/ HalfClose(s)
    BY <1>3 DEF Cancel, HalfClose, handlerVars, clientVars, processVars
<1>4. CASE ClientSends(s)
  <2>1. CASE DuplicateConfig(s) \/ ChunkBeforeConfig(s)
      BY <2>1, <1>f DEF DuplicateConfig, ChunkBeforeConfig, Codes
  <2>2. ASSUME NEW c \in Configs, EscapingConfig(s, c) \/ OccupiedWorkspace(s, c)
        PROVE  TypeOK'
      BY <2>2, <1>f DEF EscapingConfig, OccupiedWorkspace, Codes
  <2>3. ASSUME NEW c \in Configs, AcquireWorkspace(s, c)
        PROVE  TypeOK'
    <3> DEFINE p == ResolveTaskPaths(c)
    <3>1. p \in ResolvedTaskPaths
        BY <2>3, ResolvedPathsType DEF AcquireWorkspace
    <3>2. KeyOf(p) \in Keys
        BY <3>1 DEF KeyOf, Keys, ResolvedTaskPaths
    <3> HIDE DEF p
    <3>3. /\ g_locked_subdirs' = g_locked_subdirs \cup {KeyOf(p)}
          /\ paths' = [paths EXCEPT ![s] = p]
        BY <2>3 DEF AcquireWorkspace, p
    <3> QED BY <2>3, <3>1, <3>2, <3>3 DEF AcquireWorkspace, clientVars, processVars
  <2>4. ASSUME NEW code \in {"INVALID_ARGUMENT", "PERMISSION_DENIED", "INTERNAL"},
               BadChunk(s, code)
        PROVE  TypeOK'
      BY <2>4, <1>f DEF BadChunk, Codes
  <2>5. ASSUME NEW d \in Dirs, WriteChunk(s, d)
        PROVE  TypeOK'
      BY <2>5 DEF WriteChunk, clientVars, processVars
  <2> QED BY <1>4, <2>1, <2>2, <2>3, <2>4, <2>5 DEF ClientSends
<1>5. CASE HandlerStep(s)
  <2>1. CASE \/ ReadCancelled(s) \/ EmptyCommand(s) \/ StartFails(s)
      BY <2>1, <1>f DEF ReadCancelled, EmptyCommand, StartFails, Codes
  <2>2. CASE EndOfStream(s)
      BY <2>2, <1>f DEF EndOfStream, Advance, Goto, Locations, Codes,
                          clientVars, processVars
  <2>3. CASE PrepareRunDirectory(s)
      BY <2>3, <1>f
         DEF PrepareRunDirectory, Advance, Goto, Locations, Codes,
             clientVars, processVars
  <2>4. CASE StartChildProcess(s)
      BY <2>4 DEF StartChildProcess, Advance, Goto, Locations, clientVars
  <2>5. CASE RegisterTaskProcessGroup(s)
      BY <2>5 DEF RegisterTaskProcessGroup, Advance, Goto, Locations,
                  clientVars, processVars
  <2>7. CASE UnregisterTaskProcessGroup(s)
      BY <2>7 DEF UnregisterTaskProcessGroup, Unregistered, Advance, Goto,
                  Locations, clientVars, processVars
  <2>8. CASE CleanupWorkspace(s)
      BY <2>8 DEF CleanupWorkspace, RemovePath, Removed, Advance, Goto,
                  Locations, clientVars
  <2>9. CASE CleanupOutput(s)
      BY <2>9 DEF CleanupOutput, RemovePath, Removed, Goto, Locations,
                  clientVars
  <2>10. CASE Release(s)
      BY <2>10 DEF Release, Goto, Locations, clientVars, processVars
  <2> QED BY <1>5, <2>1, <2>2, <2>3, <2>4, <2>5, <2>7, <2>8, <2>9, <2>10
          DEF HandlerStep
<1>6. CASE CancelThreadKills(s)
    BY <1>6 DEF CancelThreadKills, handlerVars, clientVars
<1>r. CASE MonitorReaps(s)
  <2>1. PICK code \in {"OK", "INTERNAL", "CANCELLED"} : MonitorReturns(s, code)
      BY <1>r DEF MonitorReaps
  <2>2. helpers' = helpers \/ helpers' = [helpers EXCEPT ![s] = FALSE]
      BY <1>r DEF MonitorReaps
  <2>3. child' = [child EXCEPT ![s] = "reaped"]
      BY <1>r DEF MonitorReaps
  <2> QED BY <2>1, <2>2, <2>3
          DEF MonitorReturns, Goto, Locations, Codes, clientVars
<1>7. CASE MonitorTimesOut(s)
  <2>1. \/ child' = [child EXCEPT ![s] = "reaped"]
        \/ child' = [child EXCEPT ![s] = "zombie"]
      BY <1>7 DEF MonitorTimesOut
  <2>2. /\ helpers' = [helpers EXCEPT ![s] = FALSE]
        /\ MonitorReturns(s, "DEADLINE_EXCEEDED")
      BY <1>7 DEF MonitorTimesOut
  <2> QED BY <2>1, <2>2 DEF MonitorReturns, Goto, Locations, Codes, clientVars
<1>8. CASE MonitorFails(s)
    BY <1>8 DEF MonitorFails, MonitorReturns, Goto, Locations, Codes,
                clientVars, processVars
<1>9. CASE ProcessStep(s)
  <2>1. ASSUME NEW d \in Dirs, TaskWrites(s, d)
        PROVE  TypeOK'
      BY <2>1 DEF TaskWrites, handlerVars, clientVars, processVars
  <2>2. CASE ChildExits(s)
    <3>1. PICK b \in BOOLEAN : helpers' = [helpers EXCEPT ![s] = b]
        BY <2>2 DEF ChildExits
    <3> QED BY <2>2, <3>1 DEF ChildExits, handlerVars, clientVars
  <2>3. CASE HelpersExit(s)
      BY <2>3 DEF HelpersExit, handlerVars, clientVars
  <2> QED BY <1>9, <2>1, <2>2, <2>3 DEF ProcessStep
<1> QED BY <1>2, <1>3, <1>4, <1>5, <1>6, <1>r, <1>7, <1>8, <1>9

(* Every variable keeps its type, whatever the clients send and whatever   *)
(* goes wrong around the children.                                         *)
THEOREM TypeCorrect == Spec => []TypeOK
<1>1. Init => TypeOK
    BY SMTT(30) DEF Init, TypeOK, Locations, Codes
<1> QED BY <1>1, TypeInductive, PTL DEF Spec
-----------------------------------------------------------------------------
(* The lock and the registry.  LockExact and RegistryExact are not         *)
(* inductive: a session acquires and registers only once because of where  *)
(* its handler stands.                                                     *)

LockedWhileInside ==
    \A s \in Sessions :
        /\ paths[s] # NoPaths /\ pc[s] # "returned" => locked_[s]
        /\ pc[s] \in {"execute", "fork", "register", "monitor", "unregister",
                      "cleanup_output"} => paths[s] # NoPaths
        /\ cleanup_registered_[s] => paths[s] # NoPaths

LockInv ==
    /\ TypeOK
    /\ LockedWhileInside
    /\ LockExact
    /\ RegistryExact

LEMMA LockedKey ==
    ASSUME LockInv, NEW s \in Sessions, locked_[s]
    PROVE  Key(s) \in Keys /\ Key(s) \in g_locked_subdirs
<1>1. paths[s] \in ResolvedTaskPaths
    BY DEF LockInv, LockExact, TypeOK
<1>2. Key(s) \in Keys
    BY <1>1 DEF Key, KeyOf, Keys, ResolvedTaskPaths
<1> QED BY <1>2 DEF LockInv, LockExact

(* A step that moves one handler on and touches neither the guard nor the  *)
(* registry.                                                               *)
LEMMA LockInvMove ==
    ASSUME LockInv, TypeOK',
           NEW s \in Sessions, NEW l \in Locations \ {"returned"},
           pc' = [pc EXCEPT ![s] = l],
           UNCHANGED <<paths, locked_, g_locked_subdirs, g_workspace_to_pgid>>,
           \A t \in Sessions : cleanup_registered_'[t] => cleanup_registered_[t],
           pc[s] # "returned",
           l \in {"execute", "fork", "register", "monitor", "unregister",
                 "cleanup_output"} => paths[s] # NoPaths,
           l \in {"monitor", "unregister"}
                <=> pc[s] \in {"monitor", "unregister"}
    PROVE  LockInv'
<1> USE DEF LockInv
<1>1. \A t \in Sessions : pc'[t] = IF t = s THEN l ELSE pc[t]
    BY DEF TypeOK
<1>2. LockedWhileInside'
    BY <1>1 DEF LockedWhileInside
<1>3. \A t \in Sessions : Key(t)' = Key(t)
    BY DEF Key, KeyOf
<1>4. LockExact'
    BY <1>3 DEF LockExact
<1>5. RegistryExact'
    BY <1>1, <1>3, EnvironmentAssumption DEF RegistryExact, TypeOK
<1> QED BY <1>2, <1>4, <1>5

(* A step of a client or of a task's processes.                            *)
LEMMA LockInvStutter ==
    ASSUME LockInv, TypeOK',
           UNCHANGED <<pc, paths, locked_, cleanup_registered_,
                       g_locked_subdirs, g_workspace_to_pgid>>
    PROVE  LockInv'
BY DEF LockInv, LockedWhileInside, LockExact, RegistryExact, Key, KeyOf

LEMMA LockInvAcquire ==
    ASSUME LockInv, TypeOK', NEW s \in Sessions, NEW c \in Configs,
           AcquireWorkspace(s, c)
    PROVE  LockInv'
<1> DEFINE p == ResolveTaskPaths(c)
<1>1. p # NoPaths
    BY ResolvedPathsType, ConfigsAssumption DEF AcquireWorkspace, LockInv
<1>2. KeyOf(p) \notin g_locked_subdirs
    BY DEF AcquireWorkspace, Free
<1>3. /\ g_locked_subdirs' = g_locked_subdirs \cup {KeyOf(p)}
      /\ paths' = [paths EXCEPT ![s] = p]
      /\ locked_' = [locked_ EXCEPT ![s] = TRUE]
      /\ cleanup_registered_' = [cleanup_registered_ EXCEPT ![s] = TRUE]
      /\ pc[s] = "download" /\ paths[s] = NoPaths
      /\ UNCHANGED <<pc, g_workspace_to_pgid>>
    BY DEF AcquireWorkspace, Reads
<1> HIDE DEF p
<1>4. ~locked_[s]
    BY <1>3 DEF LockInv, LockExact
<1>5. \A t \in Sessions : /\ paths'[t] = IF t = s THEN p ELSE paths[t]
                          /\ locked_'[t] = IF t = s THEN TRUE ELSE locked_[t]
    BY <1>3 DEF LockInv, TypeOK
<1>6. \A t \in Sessions : Key(t)' = IF t = s THEN KeyOf(p) ELSE Key(t)
    BY <1>5 DEF Key
<1>7. LockedWhileInside'
    BY <1>1, <1>3, <1>5 DEF LockInv, LockedWhileInside, TypeOK
<1>8. LockExact'
  <2>1. \A t \in Sessions : locked_'[t] => paths'[t] # NoPaths
      BY <1>1, <1>5 DEF LockInv, LockExact
  <2>2. \A t \in Sessions : locked_[t] => Key(t) \in g_locked_subdirs
      BY LockedKey
  <2>3. \A k \in Keys :
            k \in g_locked_subdirs'
                <=> \E t \in Sessions : locked_'[t] /\ Key(t)' = k
      BY <1>3, <1>4, <1>5, <1>6 DEF LockInv, LockExact
  <2>4. \A t, u \in Sessions :
            locked_'[t] /\ locked_'[u] /\ Key(t)' = Key(u)' => t = u
    <3>1. ASSUME NEW t \in Sessions, t # s, locked_[t]
          PROVE  Key(t)' # Key(s)'
        BY <1>2, <1>6, <2>2, <3>1
    <3>2. ASSUME NEW t \in Sessions, NEW u \in Sessions, t # s, u # s,
                 locked_[t], locked_[u], Key(t)' = Key(u)'
          PROVE  t = u
        BY <1>6, <3>2 DEF LockInv, LockExact
    <3> QED BY <1>5, <3>1, <3>2
  <2> QED BY <2>1, <2>3, <2>4 DEF LockExact
<1>9. RegistryExact'
  <2>1. \A t \in Sessions :
            pc[t] \in {"monitor", "unregister"} => t # s /\ locked_[t]
      BY <1>3 DEF LockInv, LockedWhileInside
  <2> QED BY <1>3, <1>5, <1>6, <2>1 DEF LockInv, RegistryExact, TypeOK
<1> QED BY <1>7, <1>8, <1>9 DEF LockInv

LEMMA LockInvRegister ==
    ASSUME LockInv, TypeOK', NEW s \in Sessions, RegisterTaskProcessGroup(s)
    PROVE  LockInv'
<1>1. /\ g_workspace_to_pgid' = [g_workspace_to_pgid EXCEPT ![Key(s)] = s]
      /\ pc' = [pc EXCEPT ![s] = "monitor"]
      /\ pc[s] = "register"
      /\ UNCHANGED <<paths, locked_, cleanup_registered_, g_locked_subdirs>>
    BY DEF RegisterTaskProcessGroup, Advance, Goto
<1>2. \A t \in Sessions : pc'[t] = IF t = s THEN "monitor" ELSE pc[t]
    BY <1>1 DEF LockInv, TypeOK
<1>3. \A t \in Sessions : Key(t)' = Key(t)
    BY <1>1 DEF Key
<1>4. paths[s] # NoPaths /\ locked_[s]
    BY <1>1 DEF LockInv, LockedWhileInside
<1>5. Key(s) \in Keys
    BY <1>4 DEF LockInv, TypeOK, Key, KeyOf, Keys, ResolvedTaskPaths
<1>6. \A k \in Keys : g_workspace_to_pgid'[k] =
                        IF k = Key(s) THEN s ELSE g_workspace_to_pgid[k]
    BY <1>1, <1>5 DEF LockInv, TypeOK
<1>7. \A t \in Sessions : pc[t] \in {"monitor", "unregister"} =>
            /\ locked_[t]
            /\ Key(t) \in Keys
            /\ Key(t) # Key(s)
  <2>1. ASSUME NEW t \in Sessions, pc[t] \in {"monitor", "unregister"}
        PROVE  locked_[t] /\ paths[t] # NoPaths
      BY <2>1 DEF LockInv, LockedWhileInside
  <2>2. ASSUME NEW t \in Sessions, paths[t] # NoPaths
        PROVE  Key(t) \in Keys
      BY <2>2 DEF LockInv, TypeOK, Key, KeyOf, Keys, ResolvedTaskPaths
  <2> QED BY <1>1, <1>4, <2>1, <2>2 DEF LockInv, LockExact
<1>8. LockedWhileInside' /\ LockExact'
  <2>1. LockedWhileInside'
      BY <1>1, <1>2, <1>4 DEF LockInv, LockedWhileInside
  <2>2. LockExact'
      BY <1>1, <1>3 DEF LockInv, LockExact
  <2> QED BY <2>1, <2>2
<1>9. RegistryExact'
    BY <1>1, <1>2, <1>3, <1>4, <1>6, <1>7 DEF LockInv, RegistryExact, TypeOK
<1> QED BY <1>8, <1>9 DEF LockInv

LEMMA LockInvUnregister ==
    ASSUME LockInv, TypeOK', NEW s \in Sessions, UnregisterTaskProcessGroup(s)
    PROVE  LockInv'
<1>1. /\ g_workspace_to_pgid' = Unregistered(s)
      /\ pc' = [pc EXCEPT ![s] = "cleanup"]
      /\ pc[s] = "unregister"
      /\ UNCHANGED <<paths, locked_, cleanup_registered_, g_locked_subdirs>>
    BY DEF UnregisterTaskProcessGroup, Advance, Goto
<1>2. \A t \in Sessions : pc'[t] = IF t = s THEN "cleanup" ELSE pc[t]
    BY <1>1 DEF LockInv, TypeOK
<1>3. \A t \in Sessions : Key(t)' = Key(t)
    BY <1>1 DEF Key
<1>4. paths[s] # NoPaths /\ locked_[s] /\ g_workspace_to_pgid[Key(s)] = s
    BY <1>1 DEF LockInv, LockedWhileInside, RegistryExact
<1>5. \A k \in Keys : g_workspace_to_pgid'[k] =
                        IF k = Key(s) THEN NoPgid ELSE g_workspace_to_pgid[k]
    BY <1>1, <1>4 DEF LockInv, TypeOK, Unregistered
<1>6. \A t \in Sessions : pc[t] \in {"monitor", "unregister"} =>
            Key(t) \in Keys
  <2>1. ASSUME NEW t \in Sessions, pc[t] \in {"monitor", "unregister"}
        PROVE  paths[t] # NoPaths
      BY <2>1 DEF LockInv, LockedWhileInside
  <2> QED BY <2>1 DEF LockInv, TypeOK, Key, KeyOf, Keys, ResolvedTaskPaths
<1>7. \A t \in Sessions : pc'[t] \in {"monitor", "unregister"} =>
            Key(t) # Key(s)
    BY <1>1, <1>2, <1>4 DEF LockInv, RegistryExact
<1>8. LockedWhileInside' /\ LockExact'
  <2>1. LockedWhileInside'
      BY <1>1, <1>2, <1>4 DEF LockInv, LockedWhileInside
  <2>2. LockExact'
      BY <1>1, <1>3 DEF LockInv, LockExact
  <2> QED BY <2>1, <2>2
<1>9. RegistryExact'
  <2>1. \A t \in Sessions : pc'[t] \in {"monitor", "unregister"} =>
            g_workspace_to_pgid'[Key(t)'] = t
      BY <1>2, <1>3, <1>5, <1>6, <1>7 DEF LockInv, RegistryExact
  <2>2. ASSUME NEW t \in Sessions, NEW k \in Keys, g_workspace_to_pgid'[k] = t
        PROVE  locked_'[t] /\ Key(t)' = k /\ pc'[t] \in {"monitor", "unregister"}
    <3>1. k # Key(s) /\ g_workspace_to_pgid[k] = t
        BY <1>5, <2>2, EnvironmentAssumption
    <3>2. locked_[t] /\ Key(t) = k /\ pc[t] \in {"monitor", "unregister"}
        BY <3>1 DEF LockInv, RegistryExact
    <3> QED BY <1>1, <1>2, <1>3, <3>1, <3>2
  <2> QED BY <2>1, <2>2 DEF RegistryExact
<1> QED BY <1>8, <1>9 DEF LockInv

LEMMA LockInvRelease ==
    ASSUME LockInv, TypeOK', NEW s \in Sessions, Release(s)
    PROVE  LockInv'
<1>1. /\ g_locked_subdirs' = IF locked_[s] THEN g_locked_subdirs \ {Key(s)}
                                           ELSE g_locked_subdirs
      /\ locked_' = [locked_ EXCEPT ![s] = FALSE]
      /\ pc' = [pc EXCEPT ![s] = "returned"]
      /\ pc[s] = "release"
      /\ UNCHANGED <<paths, cleanup_registered_, g_workspace_to_pgid>>
    BY DEF Release, Goto
<1>2. \A t \in Sessions :
        /\ pc'[t] = IF t = s THEN "returned" ELSE pc[t]
        /\ locked_'[t] <=> t # s /\ locked_[t]
    BY <1>1 DEF LockInv, TypeOK
<1>3. \A t \in Sessions : Key(t)' = Key(t)
    BY <1>1 DEF Key
<1>4. LockedWhileInside'
    BY <1>1, <1>2 DEF LockInv, LockedWhileInside
<1>5. LockExact'
  <2>1. \A k \in Keys :
            k \in g_locked_subdirs'
                <=> \E t \in Sessions : locked_'[t] /\ Key(t)' = k
    <3> SUFFICES ASSUME NEW k \in Keys
                 PROVE  k \in g_locked_subdirs'
                          <=> \E t \in Sessions : locked_'[t] /\ Key(t)' = k
        OBVIOUS
    <3>1. k \in g_locked_subdirs <=> \E t \in Sessions : locked_[t] /\ Key(t) = k
        BY DEF LockInv, LockExact
    <3>2. \A t \in Sessions : locked_[s] /\ locked_[t] /\ Key(t) = Key(s) => t = s
        BY DEF LockInv, LockExact
    <3>3. CASE locked_[s]
        BY <1>1, <1>2, <1>3, <3>1, <3>2, <3>3
    <3>4. CASE ~locked_[s]
        BY <1>1, <1>2, <1>3, <3>1, <3>4
    <3> QED BY <3>3, <3>4
  <2> QED BY <1>1, <1>2, <1>3, <2>1 DEF LockInv, LockExact
<1>6. RegistryExact'
  <2>1. \A k \in Keys : g_workspace_to_pgid[k] # s
      BY <1>1 DEF LockInv, RegistryExact
  <2> QED BY <1>1, <1>2, <1>3, <2>1 DEF LockInv, RegistryExact
<1> QED BY <1>4, <1>5, <1>6 DEF LockInv

LEMMA LockInvInductive ==
    ASSUME LockInv, [Next]_vars
    PROVE  LockInv'
<1>0. TypeOK'
    BY TypeInductive DEF LockInv
<1>1. CASE UNCHANGED vars
    BY <1>0, <1>1, LockInvStutter DEF vars, handlerVars
<1> SUFFICES ASSUME NEW s \in Sessions,
                    \/ Accept(s) \/ Cancel(s) \/ HalfClose(s)
                    \/ ClientSends(s) \/ HandlerStep(s)
                    \/ CancelThreadKills(s) \/ MonitorReaps(s)
                    \/ MonitorTimesOut(s) \/ MonitorFails(s) \/ ProcessStep(s)
             PROVE  LockInv'
    BY <1>1 DEF Next
<1>f. ASSUME NEW code, Fail(s, code),
             pc[s] \in {"idle", "download", "execute", "fork"}
      PROVE  LockInv'
    BY <1>0, <1>f, LockInvMove DEF Fail, Return, Goto, Locations
<1>2. CASE Accept(s)
    BY <1>0, <1>2, <1>f, LockInvMove DEF Accept, Advance, Goto, Locations
<1>3. CASE Cancel(s) \/ HalfClose(s)
    BY <1>0, <1>3, LockInvStutter DEF Cancel, HalfClose, handlerVars
<1>4. CASE ClientSends(s)
  <2>1. CASE DuplicateConfig(s) \/ ChunkBeforeConfig(s)
      BY <2>1, <1>f DEF DuplicateConfig, ChunkBeforeConfig, Reads
  <2>2. ASSUME NEW c \in Configs, EscapingConfig(s, c) \/ OccupiedWorkspace(s, c)
        PROVE  LockInv'
      BY <2>2, <1>f DEF EscapingConfig, OccupiedWorkspace, Reads
  <2>3. ASSUME NEW c \in Configs, AcquireWorkspace(s, c)
        PROVE  LockInv'
      BY <1>0, <2>3, LockInvAcquire
  <2>4. ASSUME NEW code, BadChunk(s, code)
        PROVE  LockInv'
      BY <2>4, <1>f DEF BadChunk, Reads
  <2>5. ASSUME NEW d \in Dirs, WriteChunk(s, d)
        PROVE  LockInv'
      BY <1>0, <2>5, LockInvStutter DEF WriteChunk
  <2> QED BY <1>4, <2>1, <2>2, <2>3, <2>4, <2>5 DEF ClientSends
<1>5. CASE HandlerStep(s)
  <2>1. CASE ReadCancelled(s) \/ EmptyCommand(s) \/ StartFails(s)
      BY <2>1, <1>f DEF ReadCancelled, EmptyCommand, StartFails
  <2>2. CASE EndOfStream(s)
      BY <1>0, <2>2, <1>f, LockInvMove
         DEF EndOfStream, Reads, Advance, Goto, Locations
  <2>3. CASE PrepareRunDirectory(s)
      BY <1>0, <2>3, <1>f, LockInvMove
         DEF PrepareRunDirectory, Advance, Goto, Locations, LockInv,
             LockedWhileInside
  <2>4. CASE StartChildProcess(s)
      BY <1>0, <2>4, LockInvMove
         DEF StartChildProcess, Advance, Goto, Locations, LockInv,
             LockedWhileInside
  <2>5. CASE RegisterTaskProcessGroup(s)
      BY <1>0, <2>5, LockInvRegister
  <2>7. CASE UnregisterTaskProcessGroup(s)
      BY <1>0, <2>7, LockInvUnregister
  <2>8. CASE CleanupWorkspace(s)
    <3>1. /\ pc[s] = "cleanup"
          /\ \/ pc' = [pc EXCEPT ![s] = "release"]
             \/ /\ pc' = [pc EXCEPT ![s] = "cleanup_output"]
                /\ paths[s] # NoPaths
          /\ UNCHANGED <<paths, locked_, cleanup_registered_,
                         g_locked_subdirs, g_workspace_to_pgid>>
        BY <2>8 DEF CleanupWorkspace, Advance, Goto, LockInv, LockedWhileInside
    <3> QED BY <1>0, <3>1, LockInvMove DEF Locations
  <2>9. CASE CleanupOutput(s)
    <3>1. \A t \in Sessions : cleanup_registered_'[t] => cleanup_registered_[t]
        BY <2>9 DEF CleanupOutput, LockInv, TypeOK
    <3> QED BY <1>0, <2>9, <3>1, LockInvMove DEF CleanupOutput, Goto, Locations
  <2>10. CASE Release(s)
      BY <1>0, <2>10, LockInvRelease
  <2> QED BY <1>5, <2>1, <2>2, <2>3, <2>4, <2>5, <2>7, <2>8, <2>9, <2>10
          DEF HandlerStep
<1>6. CASE CancelThreadKills(s)
    BY <1>0, <1>6, LockInvStutter DEF CancelThreadKills, handlerVars
<1>7. CASE MonitorReaps(s) \/ MonitorTimesOut(s) \/ MonitorFails(s)
    BY <1>0, <1>7, LockInvMove
       DEF MonitorReaps, MonitorTimesOut, MonitorFails, MonitorReturns, Goto, Locations,
           LockInv, LockedWhileInside
<1>8. CASE ProcessStep(s)
    BY <1>0, <1>8, LockInvStutter
       DEF ProcessStep, TaskWrites, ChildExits, HelpersExit, handlerVars
<1> QED BY <1>2, <1>3, <1>4, <1>5, <1>6, <1>7, <1>8

(* Acquire() and Release() keep g_locked_subdirs equal to the set of keys  *)
(* held, one holder each, and the registry names a group exactly while it  *)
(* is monitored - whatever the clients send, whatever fails, and for any   *)
(* workspace tree, nested or not.                                          *)
THEOREM LockAndRegistryExact == Spec => [](LockExact /\ RegistryExact)
<1>1. Init => LockInv
  <2> SUFFICES ASSUME Init
               PROVE  LockInv
      OBVIOUS
  <2>1. TypeOK
      BY SMTT(30) DEF Init, TypeOK, Locations, Codes
  <2>2. LockedWhileInside
      BY DEF Init, LockedWhileInside
  <2>3. LockExact
      BY DEF Init, LockExact
  <2>4. RegistryExact
      BY EnvironmentAssumption DEF Init, RegistryExact
  <2> QED BY <2>1, <2>2, <2>3, <2>4 DEF LockInv
<1>2. LockInv => LockExact /\ RegistryExact
    BY DEF LockInv
<1> QED BY <1>1, <1>2, LockInvInductive, PTL DEF Spec

(* UpdateUtilization finds in g_workspace_to_pgid the group of the task    *)
(* that runs in a workspace, exactly while it is monitored: another call   *)
(* neither overwrites nor erases the entry (task_runtime_control.cc).      *)
THEOREM RegistryIsExact == Spec => []RegistryExact
BY LockAndRegistryExact, PTL

-----------------------------------------------------------------------------
(* The files.  With separate workspaces and no process that outlives its   *)
(* shell, a file of a session lies in the session's own area, and only     *)
(* while the guard is to clean it up.                                      *)

GuardInv ==
    \A s \in Sessions :
        /\ paths[s] # NoPaths => \E c \in Configs : paths[s] = Resolve[c]
        /\ paths[s] # NoPaths /\ pc[s] \notin {"release", "returned"}
                => cleanup_registered_[s]
        /\ pc[s] \in {"release", "returned"} => ~cleanup_registered_[s]
        /\ paths[s] = NoPaths => sent[s] = {}

ProcessInv ==
    \A s \in Sessions :
        /\ child[s] \in {"running", "zombie"} <=> pc[s] \in {"register", "monitor"}
        /\ ~helpers[s]

FilesInv ==
    \A s \in Sessions, d \in Dirs :
        s \in tree[d] =>
            /\ cleanup_registered_[s]
            /\ d \in Area(paths[s])
            /\ pc[s] = "cleanup_output" => d \notin Workspace(s)

IsolationInv ==
    /\ LockInv
    /\ GuardInv
    /\ ProcessInv
    /\ FilesInv
    /\ UploadIntact

(* The two owners of two workspaces have disjoint areas.                   *)
LEMMA OwnersApart ==
    ASSUME LockInv, GuardInv, SeparateWorkspaces,
           NEW s \in Sessions, NEW t \in Sessions, s # t,
           cleanup_registered_[s], cleanup_registered_[t]
    PROVE  Area(paths[s]) \cap Area(paths[t]) = {}
<1>1. /\ paths[s] # NoPaths /\ pc[s] # "returned"
      /\ paths[t] # NoPaths /\ pc[t] # "returned"
    BY DEF LockInv, LockedWhileInside, GuardInv
<1>2. locked_[s] /\ locked_[t]
    BY <1>1 DEF LockInv, LockedWhileInside
<1>3. Key(s) # Key(t)
    BY <1>2 DEF LockInv, LockExact
<1>4. PICK c \in Configs, e \in Configs : paths[s] = Resolve[c] /\ paths[t] = Resolve[e]
    BY <1>1 DEF GuardInv
<1>5. ~Resolve[c].slash /\ ~Resolve[e].slash
    BY <1>1, <1>4 DEF SeparateWorkspaces
<1>6. Resolve[c] \in ResolvedTaskPaths /\ Resolve[e] \in ResolvedTaskPaths
    BY <1>1, <1>4, ConfigsAssumption
<1>7. Resolve[c].dir # Resolve[e].dir
    BY <1>3, <1>4, <1>5, <1>6 DEF Key, KeyOf, ResolvedTaskPaths
<1> QED BY <1>1, <1>4, <1>7 DEF SeparateWorkspaces

LEMMA PrivateFromInv ==
    ASSUME IsolationInv, SeparateWorkspaces
    PROVE  PrivateSubtree
<1> SUFFICES ASSUME NEW s \in Sessions, Owns(s), NEW d \in Area(paths[s]), d \in Dirs,
                    NEW t \in tree[d]
             PROVE  t = s
  <2>1. ASSUME NEW s \in Sessions, Owns(s)
        PROVE  Area(paths[s]) \subseteq Dirs
    <3>1. paths[s] \in ResolvedTaskPaths
        BY <2>1 DEF Owns, IsolationInv, LockInv, LockedWhileInside, TypeOK
    <3> QED BY <3>1, DirsAssumption DEF Area, ResolvedTaskPaths
  <2> QED BY <2>1 DEF PrivateSubtree
<1>1. t \in Sessions
    BY DEF IsolationInv, LockInv, TypeOK
<1>2. cleanup_registered_[t] /\ d \in Area(paths[t])
    BY <1>1 DEF IsolationInv, FilesInv
<1> QED BY <1>1, <1>2, OwnersApart DEF Owns, IsolationInv

-----------------------------------------------------------------------------
LEMMA GuardInductive ==
    ASSUME LockInv, GuardInv, SeparateWorkspaces, Faults = {}, [Next]_vars
    PROVE  GuardInv'
<1> USE DEF GuardInv
<1>1. CASE UNCHANGED vars
    BY <1>1 DEF vars, handlerVars
<1> SUFFICES ASSUME NEW s \in Sessions,
                    \/ Accept(s) \/ Cancel(s) \/ HalfClose(s)
                    \/ ClientSends(s) \/ HandlerStep(s)
                    \/ CancelThreadKills(s) \/ MonitorReaps(s)
                    \/ MonitorTimesOut(s) \/ MonitorFails(s) \/ ProcessStep(s)
             PROVE  GuardInv'
    BY <1>1 DEF Next
<1>m. ASSUME NEW l, pc' = [pc EXCEPT ![s] = l],
             UNCHANGED <<paths, cleanup_registered_, sent>>,
             l \in {"release", "returned"} => ~cleanup_registered_[s],
             l \notin {"release", "returned"} => pc[s] \notin {"release", "returned"}
      PROVE  GuardInv'
  <2>1. \A t \in Sessions : pc'[t] = IF t = s THEN l ELSE pc[t]
      BY <1>m DEF LockInv, TypeOK
  <2> QED BY <1>m, <2>1
<1>f. ASSUME NEW code, Fail(s, code), pc[s] \notin {"release", "returned"}
      PROVE  GuardInv'
    BY <1>f, <1>m DEF Fail, Return, Goto
<1>u. ASSUME UNCHANGED <<pc, paths, cleanup_registered_, sent>>
      PROVE  GuardInv'
    BY <1>u
<1>2. CASE Accept(s)
    BY <1>2, <1>f, <1>m DEF Accept, Advance, Goto
<1>3. CASE \/ Cancel(s) \/ HalfClose(s) \/ CancelThreadKills(s)
           \/ ProcessStep(s)
    BY <1>3, <1>u DEF Cancel, HalfClose, CancelThreadKills, ProcessStep, TaskWrites,
                      ChildExits, HelpersExit, handlerVars
<1>4. CASE ClientSends(s)
  <2>1. CASE DuplicateConfig(s) \/ ChunkBeforeConfig(s)
      BY <2>1, <1>f DEF DuplicateConfig, ChunkBeforeConfig, Reads
  <2>2. ASSUME NEW c \in Configs, EscapingConfig(s, c) \/ OccupiedWorkspace(s, c)
        PROVE  GuardInv'
      BY <2>2, <1>f DEF EscapingConfig, OccupiedWorkspace, Reads
  <2>3. ASSUME NEW c \in Configs, AcquireWorkspace(s, c)
        PROVE  GuardInv'
    <3>1. Resolve[c] \in ResolvedTaskPaths /\ ~Resolve[c].slash
        BY <2>3, ConfigsAssumption DEF AcquireWorkspace, SeparateWorkspaces
    <3>2. ResolveTaskPaths(c) = Resolve[c]
        BY <3>1 DEF ResolveTaskPaths, ResolvedTaskPaths
    <3>3. /\ paths' = [paths EXCEPT ![s] = Resolve[c]]
          /\ cleanup_registered_' = [cleanup_registered_ EXCEPT ![s] = TRUE]
          /\ pc[s] = "download" /\ Resolve[c] # NoPaths
          /\ UNCHANGED <<pc, sent>>
        BY <2>3, <3>2 DEF AcquireWorkspace, Reads
    <3>4. \A t \in Sessions :
            /\ paths'[t] = IF t = s THEN Resolve[c] ELSE paths[t]
            /\ cleanup_registered_'[t] <=> t = s \/ cleanup_registered_[t]
        BY <3>3 DEF LockInv, TypeOK
    <3> QED BY <3>3, <3>4
  <2>4. ASSUME NEW code, BadChunk(s, code)
        PROVE  GuardInv'
      BY <2>4, <1>f DEF BadChunk, Reads
  <2>5. ASSUME NEW d \in Dirs, WriteChunk(s, d)
        PROVE  GuardInv'
      BY <2>5 DEF WriteChunk, LockInv, TypeOK
  <2> QED BY <1>4, <2>1, <2>2, <2>3, <2>4, <2>5 DEF ClientSends
<1>5. CASE HandlerStep(s)
  <2>1. CASE ReadCancelled(s) \/ EmptyCommand(s) \/ StartFails(s)
      BY <2>1, <1>f DEF ReadCancelled, EmptyCommand, StartFails
  <2>2. CASE EndOfStream(s) \/ PrepareRunDirectory(s)
      BY <2>2, <1>f, <1>m DEF EndOfStream, PrepareRunDirectory, Reads, Advance, Goto
  <2>3. CASE \/ StartChildProcess(s) \/ RegisterTaskProcessGroup(s)
             \/ UnregisterTaskProcessGroup(s)
      BY <2>3, <1>m DEF StartChildProcess, RegisterTaskProcessGroup,
                        UnregisterTaskProcessGroup, Advance, Goto
  <2>5. CASE CleanupWorkspace(s)
      BY <2>5, <1>m DEF CleanupWorkspace, Advance, Goto
  <2>6. CASE CleanupOutput(s)
    <3>1. \A t \in Sessions :
            /\ pc'[t] = IF t = s THEN "release" ELSE pc[t]
            /\ cleanup_registered_'[t] <=> t # s /\ cleanup_registered_[t]
        BY <2>6 DEF CleanupOutput, Goto, LockInv, TypeOK
    <3> QED BY <2>6, <3>1 DEF CleanupOutput
  <2>7. CASE Release(s)
      BY <2>7, <1>m DEF Release, Goto
  <2> QED BY <1>5, <2>1, <2>2, <2>3, <2>5, <2>6, <2>7 DEF HandlerStep
<1>6. CASE MonitorReaps(s) \/ MonitorTimesOut(s) \/ MonitorFails(s)
    BY <1>6, <1>m DEF MonitorReaps, MonitorTimesOut, MonitorFails,
                      MonitorReturns, Goto
<1> QED BY <1>2, <1>3, <1>4, <1>5, <1>6

LEMMA ProcessInductive ==
    ASSUME TypeOK, ProcessInv, Faults = {}, [Next]_vars
    PROVE  ProcessInv'
<1> USE DEF ProcessInv
<1>1. CASE UNCHANGED vars
    BY <1>1 DEF vars, handlerVars, processVars
<1> SUFFICES ASSUME NEW s \in Sessions,
                    \/ Accept(s) \/ Cancel(s) \/ HalfClose(s)
                    \/ ClientSends(s) \/ HandlerStep(s)
                    \/ CancelThreadKills(s) \/ MonitorReaps(s)
                    \/ MonitorTimesOut(s) \/ MonitorFails(s) \/ ProcessStep(s)
             PROVE  ProcessInv'
    BY <1>1 DEF Next
<1>m. ASSUME NEW l, pc' = [pc EXCEPT ![s] = l], UNCHANGED <<child, helpers>>,
             pc[s] \notin {"register", "monitor"}, l \notin {"register", "monitor"}
      PROVE  ProcessInv'
  <2>1. \A t \in Sessions : pc'[t] = IF t = s THEN l ELSE pc[t]
      BY <1>m DEF TypeOK
  <2>2. child' = child /\ helpers' = helpers
      BY <1>m
  <2> SUFFICES ASSUME NEW t \in Sessions
               PROVE  /\ child'[t] \in {"running", "zombie"}
                            <=> pc'[t] \in {"register", "monitor"}
                      /\ ~helpers'[t]
      OBVIOUS
  <2>3. CASE t = s
      BY <1>m, <2>1, <2>2, <2>3
  <2>4. CASE t # s
      BY <2>1, <2>2, <2>4
  <2> QED BY <2>3, <2>4
<1>f. ASSUME NEW code, Fail(s, code), pc[s] \notin {"register", "monitor"}
      PROVE  ProcessInv'
    BY <1>f, <1>m DEF Fail, Return, Goto, processVars
<1>2. CASE Accept(s)
    BY <1>2, <1>f, <1>m DEF Accept, Advance, Goto, processVars
<1>3. CASE Cancel(s) \/ HalfClose(s)
    BY <1>3 DEF Cancel, HalfClose, handlerVars, processVars
<1>4. CASE ClientSends(s)
    BY <1>4, <1>f DEF ClientSends, DuplicateConfig, ChunkBeforeConfig, BadChunk,
                      EscapingConfig, OccupiedWorkspace, AcquireWorkspace,
                      WriteChunk, Reads, processVars
<1>5. CASE HandlerStep(s)
  <2>1. CASE ReadCancelled(s) \/ EmptyCommand(s) \/ StartFails(s)
      BY <2>1, <1>f DEF ReadCancelled, EmptyCommand, StartFails
  <2>2. CASE EndOfStream(s) \/ PrepareRunDirectory(s)
      BY <2>2, <1>f, <1>m DEF EndOfStream, PrepareRunDirectory, Reads,
                              Advance, Goto, processVars
  <2>3. CASE StartChildProcess(s)
      BY <2>3 DEF StartChildProcess, Advance, Goto, TypeOK
  <2>4. CASE RegisterTaskProcessGroup(s)
    <3>1. /\ pc[s] = "register"
          /\ \A t \in Sessions : pc'[t] = IF t = s THEN "monitor" ELSE pc[t]
          /\ UNCHANGED processVars
        BY <2>4 DEF RegisterTaskProcessGroup, Advance, Goto, TypeOK
    <3> QED BY <3>1 DEF processVars
  <2>6. CASE UnregisterTaskProcessGroup(s)
      BY <2>6, <1>m DEF UnregisterTaskProcessGroup, Advance, Goto, processVars
  <2>7. CASE CleanupWorkspace(s)
      BY <2>7, <1>m DEF CleanupWorkspace, Advance, Goto
  <2>8. CASE CleanupOutput(s) \/ Release(s)
      BY <2>8, <1>m DEF CleanupOutput, Release, Goto, processVars
  <2> QED BY <1>5, <2>1, <2>2, <2>3, <2>4, <2>6, <2>7, <2>8 DEF HandlerStep
<1>6. CASE CancelThreadKills(s)
  <2>1. child[s] = "running" /\ child' = [child EXCEPT ![s] = "zombie"]
      BY <1>6 DEF CancelThreadKills, Alive
  <2>2. \A t \in Sessions : ~helpers'[t]
      BY <1>6 DEF CancelThreadKills, TypeOK
  <2> QED BY <1>6, <2>1, <2>2 DEF CancelThreadKills, handlerVars, TypeOK
<1>r. CASE MonitorReaps(s)
  <2>1. /\ child' = [child EXCEPT ![s] = "reaped"]
        /\ pc' = [pc EXCEPT ![s] = "unregister"]
      BY <1>r DEF MonitorReaps, MonitorReturns, Goto
  <2>2. \A t \in Sessions : ~helpers'[t]
      BY <1>r DEF MonitorReaps, TypeOK
  <2> QED BY <2>1, <2>2 DEF TypeOK
<1>7. CASE MonitorTimesOut(s)
  <2>1. \A t \in Sessions : ~helpers'[t]
      BY <1>7 DEF MonitorTimesOut, TypeOK
  <2> QED BY <1>7, <2>1 DEF MonitorTimesOut, MonitorReturns, Goto, TypeOK
<1>8. CASE MonitorFails(s)
    BY <1>8 DEF MonitorFails
<1>9. CASE ProcessStep(s)
  <2>1. ASSUME NEW d \in Dirs, TaskWrites(s, d)
        PROVE  ProcessInv'
      BY <2>1 DEF TaskWrites, handlerVars, processVars
  <2>2. CASE ChildExits(s)
    <3>1. helpers' = [helpers EXCEPT ![s] = FALSE]
        BY <2>2 DEF ChildExits
    <3> QED BY <2>2, <3>1 DEF ChildExits, handlerVars, TypeOK
  <2>3. CASE HelpersExit(s)
      BY <2>3 DEF HelpersExit
  <2> QED BY <1>9, <2>1, <2>2, <2>3 DEF ProcessStep
<1> QED BY <1>2, <1>3, <1>4, <1>5, <1>6, <1>r, <1>7, <1>8, <1>9

-----------------------------------------------------------------------------
FilesAndUploads == FilesInv /\ UploadIntact

LEMMA FilesInductive ==
    ASSUME IsolationInv, SeparateWorkspaces, Faults = {}, [Next]_vars
    PROVE  FilesAndUploads'
<1> USE DEF FilesAndUploads, IsolationInv
<1>1. CASE UNCHANGED vars
    BY <1>1 DEF vars, handlerVars, FilesInv, UploadIntact, Owns, Workspace
<1> SUFFICES ASSUME NEW s \in Sessions,
                    \/ Accept(s) \/ Cancel(s) \/ HalfClose(s)
                    \/ ClientSends(s) \/ HandlerStep(s)
                    \/ CancelThreadKills(s) \/ MonitorReaps(s)
                    \/ MonitorTimesOut(s) \/ MonitorFails(s) \/ ProcessStep(s)
             PROVE  FilesAndUploads'
    BY <1>1 DEF Next
<1>t. TypeOK
    BY DEF LockInv
<1>u. ASSUME UNCHANGED <<pc, paths, cleanup_registered_, sent, tree>>
      PROVE  FilesAndUploads'
    BY <1>u DEF FilesInv, UploadIntact, Owns, Workspace
<1>m. ASSUME NEW l, pc' = [pc EXCEPT ![s] = l],
             UNCHANGED <<paths, cleanup_registered_, sent, tree>>,
             l # "cleanup_output", pc[s] # "cleanup_output"
      PROVE  FilesAndUploads'
  <2>1. \A t \in Sessions : pc'[t] = IF t = s THEN l ELSE pc[t]
      BY <1>m, <1>t DEF TypeOK
  <2>2. \A t \in Sessions : Workspace(t)' = Workspace(t)
      BY <1>m DEF Workspace
  <2> QED BY <1>m, <2>1, <2>2 DEF FilesInv, UploadIntact, Owns
<1>f. ASSUME NEW code, Fail(s, code), pc[s] # "cleanup_output"
      PROVE  FilesAndUploads'
    BY <1>f, <1>m DEF Fail, Return, Goto
\* A file of s appears in d; nothing else moves but the handler of s.
<1>w. ASSUME NEW d \in Dirs, NEW l, l # "cleanup_output",
             pc[s] # "cleanup_output", cleanup_registered_[s],
             d \in Area(paths[s]),
             tree' = [tree EXCEPT ![d] = @ \cup {s}],
             pc' = [pc EXCEPT ![s] = l],
             sent' = sent \/ sent' = [sent EXCEPT ![s] = @ \cup {d}],
             UNCHANGED <<paths, cleanup_registered_>>
      PROVE  FilesAndUploads'
  <2>1. \A t \in Sessions : pc'[t] = IF t = s THEN l ELSE pc[t]
      BY <1>w, <1>t DEF TypeOK
  <2>2. \A e \in Dirs : tree'[e] = IF e = d THEN tree[e] \cup {s} ELSE tree[e]
      BY <1>w, <1>t DEF TypeOK
  <2>3. \A t \in Sessions : Workspace(t)' = Workspace(t)
      BY <1>w DEF Workspace
  <2>4. \A t \in Sessions : \A e \in sent'[t] : e \in sent[t] \/ (t = s /\ e = d)
      BY <1>w, <1>t DEF TypeOK
  <2>5. FilesInv'
      BY <1>w, <2>1, <2>2, <2>3 DEF FilesInv
  <2>6. UploadIntact'
      BY <1>w, <1>t, <2>1, <2>2, <2>4 DEF UploadIntact, Owns, TypeOK
  <2> QED BY <2>5, <2>6
<1>2. CASE Accept(s)
    BY <1>2, <1>f, <1>m DEF Accept, Advance, Goto
<1>3. CASE Cancel(s) \/ HalfClose(s) \/ CancelThreadKills(s)
    BY <1>3, <1>u DEF Cancel, HalfClose, CancelThreadKills, handlerVars
<1>4. CASE ClientSends(s)
  <2>1. CASE DuplicateConfig(s) \/ ChunkBeforeConfig(s)
      BY <2>1, <1>f DEF DuplicateConfig, ChunkBeforeConfig, Reads
  <2>2. ASSUME NEW c \in Configs, EscapingConfig(s, c) \/ OccupiedWorkspace(s, c)
        PROVE  FilesAndUploads'
      BY <2>2, <1>f DEF EscapingConfig, OccupiedWorkspace, Reads
  <2>3. ASSUME NEW c \in Configs, AcquireWorkspace(s, c)
        PROVE  FilesAndUploads'
    <3>1. /\ ~cleanup_registered_[s] /\ sent[s] = {}
          /\ pc[s] = "download"
          /\ UNCHANGED <<pc, sent, tree>>
        BY <2>3 DEF AcquireWorkspace, Reads, LockInv, LockedWhileInside, GuardInv
    <3>2. \A d \in Dirs : s \notin tree[d]
        BY <3>1 DEF FilesInv
    <3>3. \A t \in Sessions : t # s =>
            paths'[t] = paths[t] /\ (cleanup_registered_'[t] <=> cleanup_registered_[t])
        BY <2>3, <1>t DEF AcquireWorkspace, TypeOK
    <3>4. \A t \in Sessions : t # s => Workspace(t)' = Workspace(t)
        BY <3>3 DEF Workspace
    <3>5. FilesInv'
        BY <3>1, <3>2, <3>3, <3>4 DEF FilesInv
    <3>6. UploadIntact'
        BY <3>1, <3>3 DEF UploadIntact, Owns
    <3> QED BY <3>5, <3>6
  <2>4. ASSUME NEW code, BadChunk(s, code)
        PROVE  FilesAndUploads'
      BY <2>4, <1>f DEF BadChunk, Reads
  <2>5. ASSUME NEW d \in Dirs, WriteChunk(s, d)
        PROVE  FilesAndUploads'
    <3>1. /\ pc[s] = "download" /\ paths[s] # NoPaths
          /\ d \in Area(paths[s])
          /\ pc' = [pc EXCEPT ![s] = "download"]
        BY <2>5, <1>t DEF WriteChunk, Reads, Workspace, Area, TypeOK
    <3> QED BY <2>5, <3>1, <1>w DEF WriteChunk, GuardInv
  <2> QED BY <1>4, <2>1, <2>2, <2>3, <2>4, <2>5 DEF ClientSends
<1>5. CASE HandlerStep(s)
  <2>1. CASE ReadCancelled(s) \/ EmptyCommand(s) \/ StartFails(s)
      BY <2>1, <1>f DEF ReadCancelled, EmptyCommand, StartFails
  <2>2. CASE EndOfStream(s)
      BY <2>2, <1>f, <1>m DEF EndOfStream, Reads, Advance, Goto
  <2>3. CASE PrepareRunDirectory(s)
    <3>1. CASE Fail(s, "INTERNAL")
        BY <2>3, <3>1, <1>f DEF PrepareRunDirectory
    <3>2. CASE /\ tree' = [tree EXCEPT ![paths[s].dir] = @ \cup {s}]
               /\ Advance(s, "fork")
      <4>1. pc[s] = "execute" /\ paths[s] \in ResolvedTaskPaths
          BY <2>3, <1>t DEF PrepareRunDirectory, LockInv, LockedWhileInside, TypeOK
      <4>2. paths[s].dir \in Dirs /\ paths[s].dir \in Area(paths[s])
          BY <4>1, DirsAssumption DEF Area, ResolvedTaskPaths
      <4>3. cleanup_registered_[s]
          BY <4>1, ConfigsAssumption DEF GuardInv
      <4> QED BY <3>2, <4>1, <4>2, <4>3, <1>w DEF Advance, Goto
    <3> QED BY <2>3, <3>1, <3>2 DEF PrepareRunDirectory
  <2>4. CASE \/ StartChildProcess(s) \/ RegisterTaskProcessGroup(s)
             \/ UnregisterTaskProcessGroup(s)
      BY <2>4, <1>m DEF StartChildProcess, RegisterTaskProcessGroup,
                        UnregisterTaskProcessGroup, Advance, Goto
  <2>6. CASE CleanupWorkspace(s)
    <3>1. CASE ~cleanup_registered_[s]
        BY <2>6, <3>1, <1>m DEF CleanupWorkspace, Advance, Goto
    <3>2. CASE cleanup_registered_[s]
      <4>1. /\ tree' = Removed(paths[s].dir)
            /\ pc' = [pc EXCEPT ![s] = "cleanup_output"]
            /\ UNCHANGED <<paths, cleanup_registered_, sent>>
          BY <2>6, <3>2 DEF CleanupWorkspace, RemovePath, Advance, Goto
      <4>2. \A d \in Dirs :
                tree'[d] = IF d \in Workspace(s) THEN {} ELSE tree[d]
          BY <4>1 DEF Removed, Workspace
      <4>3. \A t \in Sessions : pc'[t] = IF t = s THEN "cleanup_output" ELSE pc[t]
          BY <4>1, <1>t DEF TypeOK
      <4>4. \A t \in Sessions : Workspace(t)' = Workspace(t)
          BY <4>1 DEF Workspace
      <4>5. FilesInv'
          BY <4>1, <4>2, <4>3, <4>4 DEF FilesInv
      <4>6. UploadIntact'
        <5> SUFFICES ASSUME NEW t \in Sessions, t # s, cleanup_registered_[t],
                            pc[t] # "cleanup_output", NEW d \in sent[t]
                     PROVE  t \in tree'[d]
            BY <4>1, <4>3 DEF UploadIntact, Owns
        <5>1. d \in Dirs /\ t \in tree[d]
            BY <1>t DEF UploadIntact, Owns, TypeOK
        <5>2. d \in Area(paths[t])
            BY <5>1 DEF FilesInv
        <5>3. d \notin Area(paths[s])
            BY <3>2, <5>2, OwnersApart
        <5> QED BY <4>2, <5>1, <5>3 DEF Area, Workspace
      <4> QED BY <4>5, <4>6
    <3> QED BY <3>1, <3>2
  <2>7. CASE CleanupOutput(s)
    <3>1. /\ pc[s] = "cleanup_output"
          /\ tree' = IF paths[s].out # paths[s].dir
                        THEN Removed(paths[s].out) ELSE tree
          /\ pc' = [pc EXCEPT ![s] = "release"]
          /\ UNCHANGED <<paths, sent>>
        BY <2>7 DEF CleanupOutput, RemovePath, Goto
    <3>2. \A t \in Sessions :
            /\ pc'[t] = IF t = s THEN "release" ELSE pc[t]
            /\ cleanup_registered_'[t] <=> t # s /\ cleanup_registered_[t]
        BY <2>7, <1>t DEF CleanupOutput, Goto, TypeOK
    <3>3. cleanup_registered_[s]
        BY <3>1 DEF LockInv, LockedWhileInside, GuardInv
    <3>4. \A d \in Dirs : s \notin tree'[d]
      <4> SUFFICES ASSUME NEW d \in Dirs, s \in tree'[d]
                   PROVE  FALSE
          OBVIOUS
      <4>1. s \in tree[d]
          BY <3>1 DEF Removed
      <4>2. d \in Below[paths[s].out] /\ d \notin Below[paths[s].dir]
          BY <3>1, <4>1 DEF FilesInv, Area, Workspace
      <4> QED BY <3>1, <4>2 DEF Removed
    <3>5. \A d \in Dirs :
            /\ tree'[d] \subseteq tree[d]
            /\ d \notin Area(paths[s]) => tree'[d] = tree[d]
        BY <3>1 DEF Removed, Area
    <3>6. \A t \in Sessions : Workspace(t)' = Workspace(t)
        BY <3>1 DEF Workspace
    <3>7. FilesInv'
        BY <3>1, <3>2, <3>4, <3>5, <3>6 DEF FilesInv
    <3>8. UploadIntact'
      <4> SUFFICES ASSUME NEW t \in Sessions, t # s, cleanup_registered_[t],
                          pc[t] # "cleanup_output", NEW d \in sent[t]
                   PROVE  t \in tree'[d]
          BY <3>1, <3>2 DEF UploadIntact, Owns
      <4>1. d \in Dirs /\ t \in tree[d]
          BY <1>t DEF UploadIntact, Owns, TypeOK
      <4>2. d \in Area(paths[t])
          BY <4>1 DEF FilesInv
      <4>3. d \notin Area(paths[s])
          BY <3>3, <4>2, OwnersApart
      <4> QED BY <3>5, <4>1, <4>3
    <3> QED BY <3>7, <3>8
  <2>8. CASE Release(s)
      BY <2>8, <1>m DEF Release, Goto
  <2> QED BY <1>5, <2>1, <2>2, <2>3, <2>4, <2>6, <2>7, <2>8 DEF HandlerStep
<1>6. CASE MonitorReaps(s) \/ MonitorTimesOut(s) \/ MonitorFails(s)
    BY <1>6, <1>m DEF MonitorReaps, MonitorTimesOut, MonitorFails,
                      MonitorReturns, Goto
<1>7. CASE ProcessStep(s)
  <2>1. ASSUME NEW d \in Dirs, TaskWrites(s, d)
        PROVE  FilesAndUploads'
    <3>1. pc[s] \in {"register", "monitor"}
        BY <2>1 DEF TaskWrites, Alive, ProcessInv
    <3>2. cleanup_registered_[s]
        BY <3>1 DEF LockInv, LockedWhileInside, GuardInv
    <3>3. pc' = [pc EXCEPT ![s] = pc[s]]
        BY <2>1, <1>t DEF TaskWrites, handlerVars, TypeOK
    <3> QED BY <2>1, <3>1, <3>2, <3>3, <1>w DEF TaskWrites, handlerVars
  <2>2. CASE ChildExits(s) \/ HelpersExit(s)
      BY <2>2, <1>u DEF ChildExits, HelpersExit, handlerVars
  <2> QED BY <1>7, <2>1, <2>2 DEF ProcessStep
<1> QED BY <1>2, <1>3, <1>4, <1>5, <1>6, <1>7

-----------------------------------------------------------------------------
LEMMA IsolationAlways ==
    ASSUME SeparateWorkspaces, Faults = {}
    PROVE  Spec => []IsolationInv
<1>1. Init => IsolationInv
  <2> SUFFICES ASSUME Init
               PROVE  IsolationInv
      OBVIOUS
  <2>1. LockInv
    <3>1. TypeOK
        BY SMTT(30) DEF Init, TypeOK, Locations, Codes
    <3> QED BY <3>1, EnvironmentAssumption
            DEF Init, LockInv, LockedWhileInside, LockExact, RegistryExact
  <2>2. GuardInv /\ ProcessInv /\ FilesInv /\ UploadIntact
      BY DEF Init, GuardInv, ProcessInv, FilesInv, UploadIntact, Owns
  <2> QED BY <2>1, <2>2 DEF IsolationInv
<1>2. IsolationInv /\ [Next]_vars => IsolationInv'
    BY LockInvInductive, GuardInductive, ProcessInductive, FilesInductive
       DEF IsolationInv, FilesAndUploads, LockInv
<1> QED BY <1>1, <1>2, PTL DEF Spec

(* With separate workspaces and no process that outlives its shell, a      *)
(* submission never finds a file in its area that is not its own, and what *)
(* it uploaded stays until its own cleanup (the comment at                 *)
(* remote_service_implement.cc:224).                                       *)
THEOREM WorkspacesIsolated ==
    ASSUME SeparateWorkspaces, Faults = {}
    PROVE  Spec => [](PrivateSubtree /\ UploadIntact)
<1>1. IsolationInv => PrivateSubtree /\ UploadIntact
    BY PrivateFromInv DEF IsolationInv
<1> QED BY <1>1, IsolationAlways, PTL

(* Under the same assumptions what a submission has uploaded stays in its  *)
(* workspace until its own Cleanup(), whatever the other calls do.         *)
THEOREM UploadsStay ==
    ASSUME SeparateWorkspaces, Faults = {}
    PROVE  Spec => []UploadIntact
BY WorkspacesIsolated, PTL

-----------------------------------------------------------------------------
(* What is left behind, for any workspaces and with every fault.  A file   *)
(* of a session lies in the session's own area; past the removal of that   *)
(* area it is still there only if something remained.                      *)

Monitored == {"register", "monitor"}

Removing == {"cleanup_output", "release", "returned"}

GuardOf(s) ==
    /\ child[s] # "none" => paths[s] # NoPaths
    /\ paths[s] # NoPaths /\ pc[s] \notin {"release", "returned"}
          => cleanup_registered_[s]
    /\ pc[s] = "cleanup_output" => paths[s] # NoPaths

FilesOf(s) ==
    \A d \in Dirs :
        s \in tree[d] =>
            /\ paths[s] # NoPaths
            /\ d \in Area(paths[s])
            /\ pc[s] = "cleanup_output" /\ d \in Workspace(s) => remains[s] # {}
            /\ pc[s] \in {"release", "returned"} => remains[s] # {}

ProcessesOf(s) ==
    /\ pc[s] \in {"idle", "download", "execute", "fork"} => child[s] = "none"
    /\ child[s] = "none" => ~helpers[s]
    /\ pc[s] \in Monitored => child[s] # "none"
    /\ helpers[s] => "helper" \in Faults
    /\ pc[s] \notin Monitored =>
          /\ Alive(s) => /\ status[s] \in {"OK", "INTERNAL"}
                         /\ Faults \cap {"poll", "wait", "helper"} # {}
          /\ child[s] = "running" => status[s] = "INTERNAL"
          /\ child[s] = "zombie" =>
                status[s] \in {"INTERNAL", "DEADLINE_EXCEEDED"}
          /\ child[s] # "none" =>
                pc[s] \in {"unregister", "cleanup"} \cup Removing

RemainsOf(s) ==
    /\ remains[s] # {} => pc[s] \in Removing
    /\ pc[s] \in Removing /\ Alive(s) => "process" \in remains[s]
    /\ "process" \in remains[s] =>
          /\ status[s] \in {"OK", "INTERNAL"}
          /\ Faults \cap {"poll", "wait", "helper"} # {}
    /\ "files" \in remains[s] => "remove" \in Faults

LeftOf(s) == GuardOf(s) /\ FilesOf(s) /\ ProcessesOf(s) /\ RemainsOf(s)

LeftInv == LockInv /\ \A s \in Sessions : LeftOf(s)

Untouched(t) ==
    /\ pc'[t] = pc[t]
    /\ paths'[t] = paths[t]
    /\ cleanup_registered_'[t] = cleanup_registered_[t]
    /\ status'[t] = status[t]
    /\ child'[t] = child[t]
    /\ helpers'[t] = helpers[t]
    /\ remains'[t] = remains[t]
    /\ \A d \in Dirs : t \in tree'[d] => t \in tree[d]

LEMMA UntouchedKeeps ==
    ASSUME NEW t \in Sessions, LeftOf(t), Untouched(t)
    PROVE  LeftOf(t)'
<1>1. GuardOf(t)'
    BY DEF LeftOf, GuardOf, Untouched
<1>2. FilesOf(t)'
    BY DEF LeftOf, FilesOf, Untouched, Area, Workspace
<1>3. ProcessesOf(t)'
    BY DEF LeftOf, ProcessesOf, Untouched, Alive
<1>4. RemainsOf(t)'
    BY DEF LeftOf, RemainsOf, Untouched, Alive
<1> QED BY <1>1, <1>2, <1>3, <1>4 DEF LeftOf

(* A step of one session leaves the others alone, but that a removal may   *)
(* take their files.                                                       *)
LEMMA OthersUntouched ==
    ASSUME TypeOK, NEW s \in Sessions, NEW t \in Sessions, t # s,
           \/ Accept(s) \/ Cancel(s) \/ HalfClose(s)
           \/ ClientSends(s) \/ HandlerStep(s)
           \/ CancelThreadKills(s) \/ MonitorReaps(s)
           \/ MonitorTimesOut(s) \/ MonitorFails(s) \/ ProcessStep(s)
    PROVE  Untouched(t)
<1> USE DEF TypeOK, Untouched, handlerVars, processVars
<1>f. ASSUME NEW code, Fail(s, code)
      PROVE  Untouched(t)
    BY <1>f DEF Fail, Return, Goto
<1>r. ASSUME NEW d, RemovePath(s, d)
      PROVE  /\ remains'[t] = remains[t]
             /\ \A e \in Dirs : tree'[e] \subseteq tree[e]
    BY <1>r DEF RemovePath, Removed
<1>2. CASE Accept(s)
    BY <1>2, <1>f DEF Accept, Advance, Goto
<1>3. CASE Cancel(s) \/ HalfClose(s)
    BY <1>3 DEF Cancel, HalfClose
<1>4. CASE ClientSends(s)
  <2>1. CASE DuplicateConfig(s) \/ ChunkBeforeConfig(s)
      BY <2>1, <1>f DEF DuplicateConfig, ChunkBeforeConfig
  <2>2. ASSUME NEW c \in Configs, EscapingConfig(s, c) \/ OccupiedWorkspace(s, c)
        PROVE  Untouched(t)
      BY <2>2, <1>f DEF EscapingConfig, OccupiedWorkspace
  <2>3. ASSUME NEW c \in Configs, AcquireWorkspace(s, c)
        PROVE  Untouched(t)
      BY <2>3 DEF AcquireWorkspace
  <2>4. ASSUME NEW code, BadChunk(s, code)
        PROVE  Untouched(t)
      BY <2>4, <1>f DEF BadChunk
  <2>5. ASSUME NEW d \in Dirs, WriteChunk(s, d)
        PROVE  Untouched(t)
      BY <2>5 DEF WriteChunk
  <2> QED BY <1>4, <2>1, <2>2, <2>3, <2>4, <2>5 DEF ClientSends
<1>5. CASE HandlerStep(s)
  <2>1. CASE ReadCancelled(s) \/ EmptyCommand(s) \/ StartFails(s)
      BY <2>1, <1>f DEF ReadCancelled, EmptyCommand, StartFails
  <2>2. CASE EndOfStream(s) \/ PrepareRunDirectory(s)
      BY <2>2, <1>f DEF EndOfStream, PrepareRunDirectory, Advance, Goto
  <2>3. CASE \/ StartChildProcess(s) \/ RegisterTaskProcessGroup(s)
             \/ UnregisterTaskProcessGroup(s)
      BY <2>3 DEF StartChildProcess, RegisterTaskProcessGroup,
                  UnregisterTaskProcessGroup, Advance, Goto
  <2>4. CASE CleanupWorkspace(s)
      BY <2>4, <1>r DEF CleanupWorkspace, Advance, Goto
  <2>5. CASE CleanupOutput(s)
      BY <2>5, <1>r DEF CleanupOutput, Goto
  <2>6. CASE Release(s)
      BY <2>6 DEF Release, Goto
  <2> QED BY <1>5, <2>1, <2>2, <2>3, <2>4, <2>5, <2>6 DEF HandlerStep
<1>6. CASE CancelThreadKills(s)
    BY <1>6 DEF CancelThreadKills
<1>7. CASE MonitorReaps(s) \/ MonitorTimesOut(s) \/ MonitorFails(s)
  <2>1. PICK code : MonitorReturns(s, code)
      BY <1>7 DEF MonitorReaps, MonitorTimesOut, MonitorFails
  <2>2. \/ child' = [child EXCEPT ![s] = "reaped"]
        \/ child' = [child EXCEPT ![s] = "zombie"]
        \/ child' = child
      BY <1>7 DEF MonitorReaps, MonitorTimesOut, MonitorFails
  <2>3. helpers' = [helpers EXCEPT ![s] = FALSE] \/ helpers' = helpers
      BY <1>7 DEF MonitorReaps, MonitorTimesOut, MonitorFails
  <2>4. child'[t] = child[t] /\ helpers'[t] = helpers[t]
      BY <2>2, <2>3
  <2>5. /\ UNCHANGED <<paths, cleanup_registered_, remains, tree>>
        /\ pc'[t] = pc[t] /\ status'[t] = status[t]
      BY <2>1 DEF MonitorReturns, Goto
  <2> QED BY <2>4, <2>5
<1>8. CASE ProcessStep(s)
  <2>1. ASSUME NEW d \in Dirs, TaskWrites(s, d)
        PROVE  Untouched(t)
      BY <2>1 DEF TaskWrites
  <2>2. CASE ChildExits(s) \/ HelpersExit(s)
      BY <2>2 DEF ChildExits, HelpersExit
  <2> QED BY <1>8, <2>1, <2>2 DEF ProcessStep
<1> QED BY <1>2, <1>3, <1>4, <1>5, <1>6, <1>7, <1>8

(* The step of the session itself.                                         *)
LEMMA OwnStep ==
    ASSUME LockInv, NEW s \in Sessions, LeftOf(s),
           \/ Accept(s) \/ Cancel(s) \/ HalfClose(s)
           \/ ClientSends(s) \/ HandlerStep(s)
           \/ CancelThreadKills(s) \/ MonitorReaps(s)
           \/ MonitorTimesOut(s) \/ MonitorFails(s) \/ ProcessStep(s)
    PROVE  LeftOf(s)'
<1> USE DEF Monitored, Removing
<1>t. TypeOK
    BY DEF LockInv
\* No process, and nothing written: the handler moves on.
<1>f. ASSUME NEW code, Fail(s, code),
             pc[s] \in {"idle", "download", "execute", "fork"}
      PROVE  LeftOf(s)'
  <2>1. /\ pc'[s] = "cleanup" /\ child'[s] = "none"
        /\ ~helpers'[s] /\ remains'[s] = {} /\ paths'[s] = paths[s]
        /\ cleanup_registered_'[s] = cleanup_registered_[s] /\ tree' = tree
      BY <1>f, <1>t DEF Fail, Return, Goto, LeftOf, ProcessesOf, RemainsOf,
                        processVars, TypeOK
  <2>2. GuardOf(s)'
      BY <1>f, <2>1 DEF LeftOf, GuardOf
  <2>3. FilesOf(s)'
      BY <2>1 DEF LeftOf, FilesOf, Area
  <2>4. ProcessesOf(s)' /\ RemainsOf(s)'
      BY <2>1 DEF ProcessesOf, RemainsOf, Alive
  <2> QED BY <2>2, <2>3, <2>4 DEF LeftOf
<1>m. ASSUME NEW l, pc' = [pc EXCEPT ![s] = l],
             UNCHANGED <<paths, cleanup_registered_, status, processVars, tree>>,
             \/ /\ pc[s] \in {"idle", "download", "execute", "fork"}
                /\ l \in {"download", "execute", "fork"}
             \/ pc[s] \in Monitored /\ l \in Monitored
             \/ pc[s] = "unregister" /\ l = "cleanup"
             \/ pc[s] = "cleanup" /\ l = "release" /\ ~cleanup_registered_[s]
             \/ pc[s] = "release" /\ l = "returned"
      PROVE  LeftOf(s)'
  <2>1. pc'[s] = l
      BY <1>m, <1>t DEF TypeOK
  <2>2. GuardOf(s)'
      BY <1>m, <2>1 DEF LeftOf, GuardOf, processVars
  <2>3. FilesOf(s)'
      BY <1>m, <2>1 DEF LeftOf, FilesOf, GuardOf, Area, Workspace, processVars
  <2>4. ProcessesOf(s)'
      BY <1>m, <2>1 DEF LeftOf, ProcessesOf, Alive, processVars
  <2>5. RemainsOf(s)'
      BY <1>m, <2>1 DEF LeftOf, RemainsOf, GuardOf, ProcessesOf, Alive, processVars
  <2> QED BY <2>2, <2>3, <2>4, <2>5 DEF LeftOf
\* A file is written; the handler may move on to the start of the command.
<1>w. ASSUME NEW d \in Dirs,
             \/ pc'[s] = pc[s]
             \/ pc[s] = "execute" /\ pc'[s] = "fork",
             paths[s] # NoPaths, d \in Area(paths[s]),
             pc[s] \in Removing => remains[s] # {},
             tree' = [tree EXCEPT ![d] = @ \cup {s}],
             UNCHANGED <<paths, cleanup_registered_, status, processVars>>
      PROVE  LeftOf(s)'
  <2>2. \A e \in Dirs : e # d => tree'[e] = tree[e]
      BY <1>w, <1>t DEF TypeOK
  <2>3. GuardOf(s)'
      BY <1>w DEF LeftOf, GuardOf, processVars
  <2>4. FilesOf(s)'
      BY <1>w, <2>2 DEF LeftOf, FilesOf, Area, Workspace, processVars
  <2>5. ProcessesOf(s)' /\ RemainsOf(s)'
      BY <1>w DEF LeftOf, ProcessesOf, RemainsOf, Alive, processVars
  <2> QED BY <2>3, <2>4, <2>5 DEF LeftOf
\* A process ends, or all of them; handler and files stay as they are.
<1>p. ASSUME UNCHANGED <<pc, paths, cleanup_registered_, status, remains, tree>>,
             \/ child'[s] = child[s]
             \/ child[s] = "running" /\ child'[s] = "zombie",
             Alive(s)' => Alive(s), child[s] # "none",
             helpers'[s] => "helper" \in Faults
      PROVE  LeftOf(s)'
  <2>1. GuardOf(s)'
      BY <1>p DEF LeftOf, GuardOf
  <2>2. FilesOf(s)'
      BY <1>p DEF LeftOf, FilesOf, Area, Workspace
  <2>3. ProcessesOf(s)'
      BY <1>p DEF LeftOf, ProcessesOf, Alive
  <2>4. RemainsOf(s)'
      BY <1>p DEF LeftOf, RemainsOf
  <2> QED BY <2>1, <2>2, <2>3, <2>4 DEF LeftOf
\* The monitor returns.
<1>u. ASSUME NEW code, MonitorReturns(s, code), pc[s] = "monitor",
             child'[s] # "none",
             Alive(s)' => /\ code \in {"OK", "INTERNAL"}
                          /\ Faults \cap {"poll", "wait", "helper"} # {},
             helpers'[s] => helpers[s],
             child'[s] = "running" => code = "INTERNAL",
             child'[s] = "zombie" => code \in {"INTERNAL", "DEADLINE_EXCEEDED"}
      PROVE  LeftOf(s)'
  <2>1. /\ pc'[s] = "unregister" /\ status'[s] = code
        /\ UNCHANGED <<paths, cleanup_registered_, remains, tree>>
      BY <1>u, <1>t DEF MonitorReturns, Goto, TypeOK
  <2>2. paths[s] # NoPaths
      BY <1>u DEF LockInv, LockedWhileInside
  <2>3. GuardOf(s)'
      BY <1>u, <2>1, <2>2 DEF LeftOf, GuardOf
  <2>4. FilesOf(s)'
      BY <2>1 DEF LeftOf, FilesOf, Area
  <2>5. ProcessesOf(s)'
      BY <1>u, <2>1 DEF LeftOf, ProcessesOf
  <2>6. RemainsOf(s)'
      BY <1>u, <2>1 DEF LeftOf, RemainsOf
  <2> QED BY <2>3, <2>4, <2>5, <2>6 DEF LeftOf
<1>2. CASE Accept(s)
    BY <1>2, <1>f, <1>m DEF Accept, Advance, Goto
<1>3. CASE Cancel(s) \/ HalfClose(s)
  <2>1. UNCHANGED <<pc, paths, cleanup_registered_, status, processVars, tree>>
      BY <1>3 DEF Cancel, HalfClose, handlerVars
  <2>2. GuardOf(s)' /\ FilesOf(s)' /\ ProcessesOf(s)' /\ RemainsOf(s)'
      BY <2>1 DEF LeftOf, GuardOf, FilesOf, ProcessesOf, RemainsOf, Area,
                  Workspace, Alive, processVars
  <2> QED BY <2>2 DEF LeftOf
<1>4. CASE ClientSends(s)
  <2>1. CASE DuplicateConfig(s) \/ ChunkBeforeConfig(s)
      BY <2>1, <1>f DEF DuplicateConfig, ChunkBeforeConfig, Reads
  <2>2. ASSUME NEW c \in Configs, EscapingConfig(s, c) \/ OccupiedWorkspace(s, c)
        PROVE  LeftOf(s)'
      BY <2>2, <1>f DEF EscapingConfig, OccupiedWorkspace, Reads
  <2>3. ASSUME NEW c \in Configs, AcquireWorkspace(s, c)
        PROVE  LeftOf(s)'
    <3>1. /\ pc[s] = "download" /\ paths[s] = NoPaths
          /\ paths'[s] = ResolveTaskPaths(c)
          /\ cleanup_registered_'[s]
          /\ UNCHANGED <<pc, status, processVars, tree>>
        BY <2>3, <1>t DEF AcquireWorkspace, Reads, TypeOK
    <3>2. paths'[s] # NoPaths
        BY <3>1, <2>3, <1>t, ResolvedPathsType, ConfigsAssumption
           DEF AcquireWorkspace
    <3>3. GuardOf(s)' /\ FilesOf(s)'
        BY <3>1, <3>2 DEF LeftOf, GuardOf, FilesOf
    <3>4. ProcessesOf(s)' /\ RemainsOf(s)'
        BY <3>1 DEF LeftOf, ProcessesOf, RemainsOf, Alive, processVars
    <3> QED BY <3>3, <3>4 DEF LeftOf
  <2>4. ASSUME NEW code, BadChunk(s, code)
        PROVE  LeftOf(s)'
      BY <2>4, <1>f DEF BadChunk, Reads
  <2>5. ASSUME NEW d \in Dirs, WriteChunk(s, d)
        PROVE  LeftOf(s)'
    <3>1. /\ pc[s] = "download" /\ paths[s] # NoPaths
          /\ d \in Area(paths[s])
          /\ tree' = [tree EXCEPT ![d] = @ \cup {s}]
          /\ UNCHANGED <<pc, paths, cleanup_registered_, status, processVars>>
        BY <2>5 DEF WriteChunk, Reads, Workspace, Area
    <3> QED BY <3>1, <1>w
  <2> QED BY <1>4, <2>1, <2>2, <2>3, <2>4, <2>5 DEF ClientSends
<1>5. CASE HandlerStep(s)
  <2>1. CASE ReadCancelled(s) \/ EmptyCommand(s) \/ StartFails(s)
      BY <2>1, <1>f DEF ReadCancelled, EmptyCommand, StartFails
  <2>2. CASE EndOfStream(s)
      BY <2>2, <1>f, <1>m DEF EndOfStream, Reads, Advance, Goto
  <2>3. CASE PrepareRunDirectory(s)
    <3>1. CASE Fail(s, "INTERNAL")
        BY <2>3, <3>1, <1>f DEF PrepareRunDirectory
    <3>2. CASE ~Fail(s, "INTERNAL")
      <4>1. pc[s] = "execute" /\ paths[s] # NoPaths /\ paths[s] \in ResolvedTaskPaths
          BY <2>3, <1>t DEF PrepareRunDirectory, LockInv, LockedWhileInside, TypeOK
      <4>2. paths[s].dir \in Dirs /\ paths[s].dir \in Area(paths[s])
          BY <4>1, DirsAssumption DEF Area, ResolvedTaskPaths
      <4>3. /\ tree' = [tree EXCEPT ![paths[s].dir] = @ \cup {s}]
            /\ pc'[s] = "fork"
            /\ UNCHANGED <<paths, cleanup_registered_, status, processVars>>
          BY <2>3, <3>2, <1>t DEF PrepareRunDirectory, Advance, Goto, TypeOK
      <4> QED BY <4>1, <4>2, <4>3, <1>w
    <3> QED BY <3>1, <3>2
  <2>4. CASE StartChildProcess(s)
    <3>1. /\ pc[s] = "fork" /\ pc'[s] = "register" /\ child'[s] = "running"
          /\ UNCHANGED <<paths, cleanup_registered_, status, helpers, remains, tree>>
        BY <2>4, <1>t DEF StartChildProcess, Advance, Goto, TypeOK
    <3>2. paths[s] # NoPaths
        BY <3>1 DEF LockInv, LockedWhileInside
    <3>3. GuardOf(s)' /\ FilesOf(s)'
        BY <3>1, <3>2 DEF LeftOf, GuardOf, FilesOf, Area
    <3>4. ProcessesOf(s)' /\ RemainsOf(s)'
        BY <3>1 DEF LeftOf, ProcessesOf, RemainsOf
    <3> QED BY <3>3, <3>4 DEF LeftOf
  <2>5. CASE RegisterTaskProcessGroup(s) \/ UnregisterTaskProcessGroup(s)
      BY <2>5, <1>m DEF RegisterTaskProcessGroup, UnregisterTaskProcessGroup,
                        Advance, Goto
  <2>6. CASE CleanupWorkspace(s)
    <3>1. CASE ~cleanup_registered_[s]
        BY <2>6, <3>1, <1>m DEF CleanupWorkspace, Advance, Goto, processVars
    <3>2. CASE cleanup_registered_[s]
      <4>1. /\ pc[s] = "cleanup" /\ pc'[s] = "cleanup_output"
            /\ RemovePath(s, paths[s].dir)
            /\ UNCHANGED <<paths, cleanup_registered_, status, child, helpers>>
          BY <2>6, <3>2, <1>t DEF CleanupWorkspace, Advance, Goto, TypeOK
      <4>2. paths[s] # NoPaths
          BY <3>2 DEF LockInv, LockedWhileInside
      <4>3. remains[s] = {}
          BY <4>1 DEF LeftOf, RemainsOf
      <4>4. /\ Alive(s) <=> "process" \in remains'[s]
            /\ "files" \in remains'[s] => "remove" \in Faults
          BY <4>1, <4>3, <1>t DEF RemovePath, TypeOK
      <4>9. \A d \in Dirs : /\ tree'[d] \subseteq tree[d]
                            /\ \/ d \in Workspace(s) => tree'[d] = {}
                               \/ remains'[s] # {}
        <5>1. CASE tree' = Removed(paths[s].dir)
            BY <5>1 DEF Removed, Workspace
        <5>2. CASE tree' # Removed(paths[s].dir)
          <6>1. /\ tree' = tree
                /\ \E r \in {{}, {"process"}} :
                      remains' = [remains EXCEPT ![s] = @ \cup {"files"} \cup r]
              BY <4>1, <5>2 DEF RemovePath
          <6>2. remains \in [Sessions -> SUBSET {"process", "files"}]
              BY <1>t DEF TypeOK
          <6>3. "files" \in remains'[s]
              BY <6>1, <6>2
          <6> QED BY <6>1, <6>3
        <5> QED BY <5>1, <5>2
      <4>5. GuardOf(s)'
          BY <4>1, <4>2 DEF LeftOf, GuardOf
      <4>6. FilesOf(s)'
          BY <4>1, <4>9 DEF LeftOf, FilesOf, Area, Workspace
      <4>7. ProcessesOf(s)'
          BY <4>1 DEF LeftOf, ProcessesOf, Alive
      <4>8. RemainsOf(s)'
          BY <4>1, <4>4 DEF LeftOf, RemainsOf, ProcessesOf, Alive
      <4> QED BY <4>5, <4>6, <4>7, <4>8 DEF LeftOf
    <3> QED BY <3>1, <3>2
  <2>7. CASE CleanupOutput(s)
    <3>1. /\ pc[s] = "cleanup_output" /\ pc'[s] = "release"
          /\ IF paths[s].out # paths[s].dir THEN RemovePath(s, paths[s].out)
                                            ELSE UNCHANGED <<tree, remains>>
          /\ UNCHANGED <<paths, status, child, helpers>>
        BY <2>7, <1>t DEF CleanupOutput, Goto, TypeOK
    <3>2. paths[s] # NoPaths
        BY <3>1 DEF LockInv, LockedWhileInside
    <3>3. /\ Alive(s) => "process" \in remains'[s]
          /\ "process" \in remains'[s] => Alive(s) \/ "process" \in remains[s]
          /\ "files" \in remains'[s] => "files" \in remains[s] \/ "remove" \in Faults
          /\ remains[s] \subseteq remains'[s]
        BY <3>1, <1>t DEF RemovePath, LeftOf, RemainsOf, TypeOK
    <3>4. \A d \in Dirs : s \in tree'[d] => remains'[s] # {}
      <4> SUFFICES ASSUME NEW d \in Dirs, s \in tree'[d], remains'[s] = {}
                   PROVE  FALSE
          OBVIOUS
      <4>1. remains[s] = {}
          BY <3>3
      <4>2. s \in tree[d]
          BY <3>1 DEF RemovePath, Removed
      <4>3. d \in Below[paths[s].out] /\ d \notin Below[paths[s].dir]
          BY <3>1, <4>1, <4>2 DEF LeftOf, FilesOf, Area, Workspace
      <4>4. paths[s].out # paths[s].dir /\ RemovePath(s, paths[s].out)
          BY <3>1, <4>3
      <4>5. tree' = Removed(paths[s].out)
          BY <4>4, <1>t DEF RemovePath, TypeOK
      <4> QED BY <4>3, <4>5 DEF Removed
    <3>5. \A d \in Dirs : tree'[d] \subseteq tree[d]
        BY <3>1 DEF RemovePath, Removed
    <3>6. GuardOf(s)'
        BY <3>1, <3>2 DEF LeftOf, GuardOf
    <3>7. FilesOf(s)'
        BY <3>1, <3>4, <3>5 DEF LeftOf, FilesOf, Area
    <3>8. ProcessesOf(s)'
        BY <3>1 DEF LeftOf, ProcessesOf, Alive
    <3>9. RemainsOf(s)'
        BY <3>1, <3>3 DEF LeftOf, RemainsOf, ProcessesOf, Alive
    <3> QED BY <3>6, <3>7, <3>8, <3>9 DEF LeftOf
  <2>8. CASE Release(s)
      BY <2>8, <1>m DEF Release, Goto
  <2> QED BY <1>5, <2>1, <2>2, <2>3, <2>4, <2>5, <2>6, <2>7, <2>8 DEF HandlerStep
<1>6. CASE CancelThreadKills(s)
  <2>1. /\ pc[s] = "monitor" /\ ~helpers'[s]
        /\ child'[s] = IF child[s] = "running" THEN "zombie" ELSE child[s]
        /\ UNCHANGED <<pc, paths, cleanup_registered_, status, remains, tree>>
      BY <1>6, <1>t DEF CancelThreadKills, handlerVars, TypeOK
  <2>2. child[s] # "none"
      BY <2>1 DEF LeftOf, ProcessesOf
  <2>3. ~Alive(s)'
      BY <2>1 DEF Alive
  <2> QED BY <2>1, <2>2, <2>3, <1>p
<1>7. CASE MonitorReaps(s)
  <2>1. PICK code : MonitorReturns(s, code)
      BY <1>7 DEF MonitorReaps
  <2>2. /\ pc[s] = "monitor" /\ child'[s] = "reaped"
        /\ helpers'[s] => code \in {"OK", "INTERNAL"} /\ helpers[s]
      BY <1>7, <1>t, <2>1 DEF MonitorReaps, MonitorReturns, TypeOK
  <2>3. helpers[s] => "helper" \in Faults
      BY DEF LeftOf, ProcessesOf
  <2> QED BY <2>1, <2>2, <2>3, <1>u DEF Alive
<1>8. CASE MonitorTimesOut(s)
  <2>1. /\ MonitorReturns(s, "DEADLINE_EXCEEDED") /\ pc[s] = "monitor"
        /\ child'[s] \in {"reaped", "zombie"} /\ ~helpers'[s]
      BY <1>8, <1>t DEF MonitorTimesOut, TypeOK
  <2> QED BY <2>1, <1>u DEF Alive
<1>9. CASE MonitorFails(s)
  <2>1. /\ MonitorReturns(s, "INTERNAL") /\ pc[s] = "monitor"
        /\ child' = child /\ helpers' = helpers
        /\ Faults \cap {"poll", "wait", "helper"} # {}
      BY <1>9 DEF MonitorFails, processVars
  <2>2. child[s] # "none"
      BY <2>1 DEF LeftOf, ProcessesOf
  <2> QED BY <2>1, <2>2, <1>u
<1>10. CASE ProcessStep(s)
  <2>1. ASSUME NEW d \in Dirs, TaskWrites(s, d)
        PROVE  LeftOf(s)'
    <3>1. /\ Alive(s) /\ d \in Area(paths[s])
          /\ tree' = [tree EXCEPT ![d] = @ \cup {s}]
          /\ UNCHANGED <<pc, paths, cleanup_registered_, status, processVars>>
        BY <2>1 DEF TaskWrites, handlerVars
    <3>2. paths[s] # NoPaths
        BY <3>1 DEF LeftOf, GuardOf, ProcessesOf, Alive
    <3>3. pc[s] \in Removing => remains[s] # {}
        BY <3>1 DEF LeftOf, RemainsOf
    <3> QED BY <3>1, <3>2, <3>3, <1>w
  <2>2. CASE ChildExits(s)
    <3>1. PICK b \in BOOLEAN : /\ helpers' = [helpers EXCEPT ![s] = b]
                               /\ b => "helper" \in Faults
        BY <2>2 DEF ChildExits
    <3>2. /\ child[s] = "running" /\ child'[s] = "zombie"
          /\ helpers'[s] => "helper" \in Faults
          /\ UNCHANGED <<pc, paths, cleanup_registered_, status, remains, tree>>
        BY <2>2, <3>1, <1>t DEF ChildExits, handlerVars, TypeOK
    <3> QED BY <3>2, <1>p DEF Alive
  <2>3. CASE HelpersExit(s)
    <3>1. /\ helpers[s] /\ ~helpers'[s] /\ child' = child
          /\ UNCHANGED <<pc, paths, cleanup_registered_, status, remains, tree>>
        BY <2>3, <1>t DEF HelpersExit, handlerVars, TypeOK
    <3>2. child[s] # "none"
        BY <3>1 DEF LeftOf, ProcessesOf
    <3>3. Alive(s)
        BY <3>1 DEF Alive
    <3> QED BY <3>1, <3>2, <3>3, <1>p
  <2> QED BY <1>10, <2>1, <2>2, <2>3 DEF ProcessStep
<1> QED BY <1>2, <1>3, <1>4, <1>5, <1>6, <1>7, <1>8, <1>9, <1>10

LEMMA LeftInductive ==
    ASSUME LeftInv, [Next]_vars
    PROVE  LeftInv'
<1>1. LockInv'
    BY LockInvInductive DEF LeftInv
<1>2. ASSUME NEW t \in Sessions
      PROVE  LeftOf(t)'
  <2>1. LockInv /\ TypeOK /\ LeftOf(t)
      BY DEF LeftInv, LockInv
  <2>2. CASE UNCHANGED vars
    <3>1. Untouched(t)
        BY <2>2 DEF vars, handlerVars, processVars, Untouched
    <3> QED BY <2>1, <3>1, UntouchedKeeps
  <2>3. CASE Next
    <3>1. PICK s \in Sessions :
            \/ Accept(s) \/ Cancel(s) \/ HalfClose(s)
            \/ ClientSends(s) \/ HandlerStep(s)
            \/ CancelThreadKills(s) \/ MonitorReaps(s)
            \/ MonitorTimesOut(s) \/ MonitorFails(s) \/ ProcessStep(s)
        BY <2>3, Zenon DEF Next
    <3>2. CASE t = s
        BY <2>1, <3>1, <3>2, OwnStep
    <3>3. CASE t # s
        BY <2>1, <3>1, <3>3, OthersUntouched, UntouchedKeeps
    <3> QED BY <3>2, <3>3
  <2> QED BY <2>2, <2>3
<1> QED BY <1>1, <1>2 DEF LeftInv

(* A call that has returned leaves a file of its own only where the        *)
(* guard's Cleanup() failed or a process was still running when it began,  *)
(* leaves a process only after OK or INTERNAL and a zombie only after      *)
(* INTERNAL or DEADLINE_EXCEEDED: for any workspaces, overlapping or not,  *)
(* and with every fault (the exits of MonitorChildProcess and the guard's  *)
(* destructor).                                                            *)
THEOREM LeftoversAreAccounted == Spec => []LeftoversAccounted
<1>1. Init => LeftInv
  <2> SUFFICES ASSUME Init
               PROVE  LeftInv
      OBVIOUS
  <2>1. TypeOK
      BY SMTT(30) DEF Init, TypeOK, Locations, Codes
  <2>2. LockInv
      BY <2>1, EnvironmentAssumption
         DEF Init, LockInv, LockedWhileInside, LockExact, RegistryExact
  <2>3. \A s \in Sessions : LeftOf(s)
      BY DEF Init, LeftOf, GuardOf, FilesOf, ProcessesOf, RemainsOf, Alive,
             Monitored, Removing
  <2> QED BY <2>2, <2>3 DEF LeftInv
<1>2. LeftInv => LeftoversAccounted
  <2> SUFFICES ASSUME LeftInv, NEW s \in Sessions, pc[s] = "returned"
               PROVE  /\ (\E d \in Dirs : s \in tree[d]) => remains[s] # {}
                      /\ Alive(s) => "process" \in remains[s]
                      /\ "process" \in remains[s] =>
                            /\ status[s] \in {"OK", "INTERNAL"}
                            /\ Faults \cap {"poll", "wait", "helper"} # {}
                      /\ "files" \in remains[s] => "remove" \in Faults
                      /\ child[s] = "running" => status[s] = "INTERNAL"
                      /\ child[s] = "zombie" =>
                            status[s] \in {"INTERNAL", "DEADLINE_EXCEEDED"}
      BY DEF LeftoversAccounted
  <2>1. FilesOf(s) /\ ProcessesOf(s) /\ RemainsOf(s)
      BY DEF LeftInv, LeftOf
  <2> QED BY <2>1 DEF FilesOf, ProcessesOf, RemainsOf, Monitored, Removing
<1> QED BY <1>1, <1>2, LeftInductive, PTL DEF Spec
=============================================================================
