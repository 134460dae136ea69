--------------------------- MODULE TaskSubmission ---------------------------
(***************************************************************************)
(* The TaskSubmission RPC of remote_server: the workspace lock, the upload *)
(* session, the execution of the command and the cleanup, for any number   *)
(* of concurrent calls (src/server/remote_service_implement.cc 156-431 and *)
(* the parts of src/server/task_executor.cc and                            *)
(* src/server/task_runtime_control.cc a call goes through).                *)
(*                                                                         *)
(* A session is one call, served by one gRPC handler thread.  A directory  *)
(* of the workspace tree holds a set of sessions: those that made it or    *)
(* put a file into it and whose entry is still there.  What a file holds,  *)
(* and when a chunk truncates it, is left to a module of its own; the loop *)
(* that monitors the child is here one step (TaskMonitor refines it).      *)
(***************************************************************************)
EXTENDS FiniteSets

CONSTANTS
    Sessions,       \* TaskSubmission calls
    Dirs,           \* directories at or below workspace/, in normal form
    Below,          \* Below[d]: d and every directory under it
    Configs,        \* the TaskConfig messages a client may send
    Resolve,        \* Resolve[c]: what ResolveTaskPaths makes of c
    NoPaths,        \* the paths of a session that has none, or may have none
    NoPgid,         \* "no process group" in the runtime registry
    IdleTimeout,    \* is RPC_WORK_IDLE_TIMEOUT_MS set to a value >= 0?
    Faults          \* what may go wrong around the child, see FaultKinds

FaultKinds == {"poll",      \* poll() or read() on the child's output fails
               "wait",      \* the blocking waitpid() fails
               "helper",    \* the command leaves a background process behind
               "remove"}    \* remove_all() fails; the code ignores its error

(* slash and path_slash: do workspace_subdir, which is the key, and        *)
(* workspace_path end in a slash?                                          *)
ResolvedTaskPaths ==
    [dir : Dirs, out : Dirs, slash : BOOLEAN, path_slash : BOOLEAN]

Keys == Dirs \X BOOLEAN

ASSUME DirsAssumption ==
    /\ Below \in [Dirs -> SUBSET Dirs]
    /\ \A d \in Dirs : d \in Below[d]

ASSUME ConfigsAssumption ==
    /\ NoPaths \notin ResolvedTaskPaths
    /\ Resolve \in [Configs -> ResolvedTaskPaths \cup {NoPaths}]
    /\ \A c \in Configs :
          Resolve[c] # NoPaths => Resolve[c].path_slash = Resolve[c].slash

ASSUME EnvironmentAssumption ==
    /\ NoPgid \notin Sessions
    /\ IdleTimeout \in BOOLEAN
    /\ Faults \subseteq FaultKinds

VARIABLES
    pc,                     \* where the handler of each session stands
    cancelled,              \* ServerContext::IsCancelled()
    ended,                  \* the client has half-closed its stream
    paths,                  \* paths_, set once received_config_
    locked_,                \* WorkspaceLockGuard::locked_
    cleanup_registered_,    \* WorkspaceLockGuard::cleanup_registered_
    status,                 \* the code of the grpc::Status to be returned
    sent,                   \* directories the session has put files into
    child,                  \* the /bin/sh the session forked
    helpers,                \* live background processes of its group
    remains,                \* history: what outlived the guard's Cleanup()
    g_locked_subdirs,       \* the keys locked, under g_workspace_lock_mu
    g_workspace_to_pgid,    \* the registry, under g_task_mu
    tree                    \* the workspace tree on disk

handlerVars == <<pc, paths, locked_, cleanup_registered_, status, sent>>
clientVars == <<cancelled, ended>>
processVars == <<child, helpers, remains>>
vars == <<handlerVars, clientVars, processVars,
          g_locked_subdirs, g_workspace_to_pgid, tree>>

-----------------------------------------------------------------------------
(* Keys and directories.                                                   *)

Exists(d) == \E e \in Below[d] : tree[e] # {}

(* fs::relative() runs weakly_canonical() first, which drops a trailing    *)
(* slash only when the directory exists: "my_task/" is the key "my_task/"  *)
(* before the directory is made and the key "my_task" afterwards.          *)
ResolveTaskPaths(c) ==
    LET p == Resolve[c] IN [p EXCEPT !.slash = @ /\ ~Exists(p.dir)]

KeyOf(p) == <<p.dir, p.slash>>

Key(s) == KeyOf(paths[s])

(* Mutant: the key is inserted without the test that nobody holds it.      *)
FreeUntested(p) == TRUE

(* The test of Acquire().                                                  *)
Free(p) == KeyOf(p) \notin g_locked_subdirs

Workspace(s) == Below[paths[s].dir]

(* Everything the guard removes, and where the command puts its files.     *)
Area(p) == Below[p.dir] \cup Below[p.out]

(* From the accepted config to the end of the guard's Cleanup().           *)
Owns(s) == cleanup_registered_[s]

-----------------------------------------------------------------------------
Locations == {"idle", "download", "execute", "fork", "register", "monitor",
              "unregister", "cleanup", "cleanup_output", "release",
              "returned"}

Codes == {"none", "OK", "CANCELLED", "INVALID_ARGUMENT", "PERMISSION_DENIED",
          "RESOURCE_EXHAUSTED", "FAILED_PRECONDITION", "INTERNAL",
          "DEADLINE_EXCEEDED"}

Init ==
    /\ pc = [s \in Sessions |-> "idle"]
    /\ cancelled = [s \in Sessions |-> FALSE]
    /\ ended = [s \in Sessions |-> FALSE]
    /\ paths = [s \in Sessions |-> NoPaths]
    /\ locked_ = [s \in Sessions |-> FALSE]
    /\ cleanup_registered_ = [s \in Sessions |-> FALSE]
    /\ status = [s \in Sessions |-> "none"]
    /\ sent = [s \in Sessions |-> {}]
    /\ child = [s \in Sessions |-> "none"]
    /\ helpers = [s \in Sessions |-> FALSE]
    /\ remains = [s \in Sessions |-> {}]
    /\ g_locked_subdirs = {}
    /\ g_workspace_to_pgid = [k \in Keys |-> NoPgid]
    /\ tree = [d \in Dirs |-> {}]

Goto(s, l) == pc' = [pc EXCEPT ![s] = l]

(* The handler is left with this status: the destructor of the lock guard  *)
(* runs next.                                                              *)
Return(s, code) ==
    /\ status' = [status EXCEPT ![s] = code]
    /\ Goto(s, "cleanup")

(* Return from the middle of a handler that changed nothing else.          *)
Fail(s, code) ==
    /\ Return(s, code)
    /\ UNCHANGED <<paths, locked_, cleanup_registered_, sent, clientVars,
                   processVars, g_locked_subdirs, g_workspace_to_pgid, tree>>

Advance(s, l) ==
    /\ Goto(s, l)
    /\ UNCHANGED <<paths, locked_, cleanup_registered_, status, sent,
                   clientVars>>

-----------------------------------------------------------------------------
(* The call starts; the client may cancel it (Ctrl+C, a lost connection).  *)

Accept(s) ==
    /\ pc[s] = "idle"
    /\ \/ /\ Advance(s, "download")
          /\ UNCHANGED <<processVars, g_locked_subdirs, g_workspace_to_pgid,
                         tree>>
       \/ Fail(s, "INTERNAL")

Cancel(s) ==
    /\ pc[s] \notin {"idle", "returned"}
    /\ ~cancelled[s]
    /\ cancelled' = [cancelled EXCEPT ![s] = TRUE]
    /\ UNCHANGED <<handlerVars, ended, processVars, g_locked_subdirs,
                   g_workspace_to_pgid, tree>>

-----------------------------------------------------------------------------
(* WorkspaceDownloadSession::Run, one message of the stream a step.        *)

Reads(s) == pc[s] = "download" /\ ~cancelled[s]

ReadCancelled(s) ==
    /\ pc[s] = "download"
    /\ cancelled[s]
    /\ Fail(s, "CANCELLED")

DuplicateConfig(s) ==
    /\ Reads(s)
    /\ paths[s] # NoPaths
    /\ Fail(s, "INVALID_ARGUMENT")

EscapingConfig(s, c) ==
    /\ Reads(s)
    /\ paths[s] = NoPaths
    /\ Resolve[c] = NoPaths
    /\ Fail(s, "PERMISSION_DENIED")

(* Mutant: the cleanup targets are registered before the lock is taken.    *)
OccupiedRegistersCleanup(s, c) ==
    /\ Reads(s)
    /\ paths[s] = NoPaths
    /\ Resolve[c] # NoPaths
    /\ ~Free(ResolveTaskPaths(c))
    /\ Return(s, "RESOURCE_EXHAUSTED")
    /\ paths' = [paths EXCEPT ![s] = ResolveTaskPaths(c)]
    /\ cleanup_registered_' = [cleanup_registered_ EXCEPT ![s] = TRUE]
    /\ UNCHANGED <<locked_, sent, clientVars, processVars, g_locked_subdirs,
                   g_workspace_to_pgid, tree>>

OccupiedWorkspace(s, c) ==
    /\ Reads(s)
    /\ paths[s] = NoPaths
    /\ Resolve[c] # NoPaths
    /\ ~Free(ResolveTaskPaths(c))
    /\ Fail(s, "RESOURCE_EXHAUSTED")

(* Acquire() and RegisterCleanupTargets().                                 *)
AcquireWorkspace(s, c) ==
    /\ Reads(s)
    /\ paths[s] = NoPaths
    /\ Resolve[c] # NoPaths
    /\ LET p == ResolveTaskPaths(c) IN
        /\ Free(p)
        /\ g_locked_subdirs' = g_locked_subdirs \cup {KeyOf(p)}
        /\ paths' = [paths EXCEPT ![s] = p]
    /\ locked_' = [locked_ EXCEPT ![s] = TRUE]
    /\ cleanup_registered_' = [cleanup_registered_ EXCEPT ![s] = TRUE]
    /\ UNCHANGED <<pc, status, sent, clientVars, processVars,
                   g_workspace_to_pgid, tree>>

ChunkBeforeConfig(s) ==
    /\ Reads(s)
    /\ paths[s] = NoPaths
    /\ Fail(s, "FAILED_PRECONDITION")

(* The path of a chunk may be empty, may leave the workspace, and making   *)
(* or writing the file may fail.                                           *)
BadChunk(s, code) ==
    /\ Reads(s)
    /\ paths[s] # NoPaths
    /\ Fail(s, code)

(* The chunk that makes a file in directory d, and d itself where it is    *)
(* missing (EnsureOutputFile).  IsSubPath() finds no file below a          *)
(* workspace_path that ends in a slash.                                    *)
WriteChunk(s, d) ==
    /\ Reads(s)
    /\ paths[s] # NoPaths
    /\ ~paths[s].path_slash
    /\ d \in Workspace(s)
    /\ tree' = [tree EXCEPT ![d] = @ \cup {s}]
    /\ sent' = [sent EXCEPT ![s] = @ \cup {d}]
    /\ UNCHANGED <<pc, paths, locked_, cleanup_registered_, status, clientVars,
                   processVars, g_locked_subdirs, g_workspace_to_pgid>>

(* WritesDone(): nothing more will come.                                   *)
HalfClose(s) ==
    /\ pc[s] = "download"
    /\ ~ended[s]
    /\ ended' = [ended EXCEPT ![s] = TRUE]
    /\ UNCHANGED <<handlerVars, cancelled, processVars, g_locked_subdirs,
                   g_workspace_to_pgid, tree>>

(* Read() returns false.                                                   *)
EndOfStream(s) ==
    /\ Reads(s)
    /\ ended[s]
    /\ \/ /\ paths[s] = NoPaths
          /\ Fail(s, "INVALID_ARGUMENT")
       \/ /\ paths[s] # NoPaths
          /\ Advance(s, "execute")
          /\ UNCHANGED <<processVars, g_locked_subdirs, g_workspace_to_pgid,
                         tree>>

-----------------------------------------------------------------------------
(* TaskExecutor::Execute and RunCommand.                                   *)

EmptyCommand(s) ==
    /\ pc[s] = "execute"
    /\ Fail(s, "INVALID_ARGUMENT")

(* create_directories() and the utilization file of the run directory.     *)
PrepareRunDirectory(s) ==
    /\ pc[s] = "execute"
    /\ \/ /\ tree' = [tree EXCEPT ![paths[s].dir] = @ \cup {s}]
          /\ Advance(s, "fork")
          /\ UNCHANGED <<processVars, g_locked_subdirs, g_workspace_to_pgid>>
       \/ Fail(s, "INTERNAL")

StartChildProcess(s) ==
    /\ pc[s] = "fork"
    /\ child' = [child EXCEPT ![s] = "running"]
    /\ Advance(s, "register")
    /\ UNCHANGED <<helpers, remains, g_locked_subdirs, g_workspace_to_pgid, tree>>

(* pipe(), fork() or fcntl() fails; after fcntl() the child is killed and  *)
(* waited for at once.                                                     *)
StartFails(s) ==
    /\ pc[s] = "fork"
    /\ Fail(s, "INTERNAL")

RegisterTaskProcessGroup(s) ==
    /\ pc[s] = "register"
    /\ g_workspace_to_pgid' = [g_workspace_to_pgid EXCEPT ![Key(s)] = s]
    /\ Advance(s, "monitor")
    /\ UNCHANGED <<processVars, g_locked_subdirs, tree>>

(* Mutant: the raw wait status is returned in place of a status code.      *)
MonitorReturnsRaw(s, code) ==
    /\ status' = [status EXCEPT ![s] = child[s]]
    /\ Goto(s, "unregister")
    /\ UNCHANGED <<paths, locked_, cleanup_registered_, sent, clientVars,
                   remains, g_locked_subdirs, g_workspace_to_pgid, tree>>

MonitorReturns(s, code) ==
    /\ status' = [status EXCEPT ![s] = code]
    /\ Goto(s, "unregister")
    /\ UNCHANGED <<paths, locked_, cleanup_registered_, sent, clientVars,
                   remains, g_locked_subdirs, g_workspace_to_pgid, tree>>

Alive(s) == child[s] = "running" \/ helpers[s]

(* The cancel thread saw the cancellation: SIGTERM, then SIGKILL, to the   *)
(* whole group.                                                            *)
CancelThreadKills(s) ==
    /\ pc[s] = "monitor"
    /\ cancelled[s]
    /\ Alive(s)
    /\ child' = [child EXCEPT ![s] = IF @ = "running" THEN "zombie" ELSE @]
    /\ helpers' = [helpers EXCEPT ![s] = FALSE]
    /\ UNCHANGED <<handlerVars, clientVars, remains, g_locked_subdirs,
                   g_workspace_to_pgid, tree>>

(* Mutant: a cancellation signals the shell and not its group.             *)
MonitorReapsLeader(s) ==
    /\ pc[s] = "monitor"
    /\ child[s] = "zombie"
    /\ child' = [child EXCEPT ![s] = "reaped"]
    /\ \/ \E code \in {"OK", "INTERNAL"} : MonitorReturns(s, code)
       \/ cancelled[s] /\ MonitorReturns(s, "CANCELLED")
    /\ UNCHANGED helpers

(* waitpid() got the child.  A cancellation turns the result into          *)
(* CANCELLED only if the cancel thread saw it in time; it has then killed  *)
(* the group before it was joined.                                         *)
MonitorReaps(s) ==
    /\ pc[s] = "monitor"
    /\ child[s] = "zombie"
    /\ child' = [child EXCEPT ![s] = "reaped"]
    /\ \/ /\ \E code \in {"OK", "INTERNAL"} : MonitorReturns(s, code)
          /\ UNCHANGED helpers
       \/ /\ cancelled[s]
          /\ MonitorReturns(s, "CANCELLED")
          /\ helpers' = [helpers EXCEPT ![s] = FALSE]

(* The group has been killed; what waitpid() says is not looked at.        *)
MonitorTimesOut(s) ==
    /\ pc[s] = "monitor"
    /\ IdleTimeout
    /\ child[s] \in {"running", "zombie"}
    /\ \/ child' = [child EXCEPT ![s] = "reaped"]
       \/ "wait" \in Faults /\ child' = [child EXCEPT ![s] = "zombie"]
    /\ helpers' = [helpers EXCEPT ![s] = FALSE]
    /\ MonitorReturns(s, "DEADLINE_EXCEEDED")

(* poll(), read() or the waitpid() after the loop failed: the monitor      *)
(* returns and the child is neither killed nor waited for.                 *)
MonitorFails(s) ==
    /\ pc[s] = "monitor"
    /\ Faults \cap {"poll", "wait"} # {}
    /\ UNCHANGED processVars
    /\ MonitorReturns(s, "INTERNAL")

(* Mutant: a cancelled session leaves its entry in the registry.           *)
UnregisteredUnlessCancelled(s) ==
    IF cancelled[s] THEN g_workspace_to_pgid
    ELSE [g_workspace_to_pgid EXCEPT ![Key(s)] = NoPgid]

(* The entry is erased only if it still names this group.                  *)
Unregistered(s) ==
    [g_workspace_to_pgid EXCEPT ![Key(s)] = IF @ = s THEN NoPgid ELSE @]

UnregisterTaskProcessGroup(s) ==
    /\ pc[s] = "unregister"
    /\ g_workspace_to_pgid' = Unregistered(s)
    /\ Advance(s, "cleanup")
    /\ UNCHANGED <<processVars, g_locked_subdirs, tree>>

-----------------------------------------------------------------------------
(* ~WorkspaceLockGuard: Cleanup() of both targets, then Release().         *)

(* Mutant: remove() in place of remove_all().                              *)
RemovedShallow(d) == [tree EXCEPT ![d] = {}]

Removed(d) == [e \in Dirs |-> IF e \in Below[d] THEN {} ELSE tree[e]]

(* The removal of a target, which may fail and is not looked at.           *)
RemovePath(s, d) ==
    \/ /\ tree' = Removed(d)
       /\ remains' = [remains EXCEPT ![s] =
                          @ \cup IF Alive(s) THEN {"process"} ELSE {}]
    \/ /\ "remove" \in Faults
       /\ tree' = tree
       /\ remains' = [remains EXCEPT ![s] = @ \cup {"files"}
                          \cup IF Alive(s) THEN {"process"} ELSE {}]

CleanupWorkspace(s) ==
    /\ pc[s] = "cleanup"
    /\ IF cleanup_registered_[s]
        THEN RemovePath(s, paths[s].dir) /\ Advance(s, "cleanup_output")
        ELSE Advance(s, "release") /\ UNCHANGED <<tree, remains>>
    /\ UNCHANGED <<child, helpers, g_locked_subdirs, g_workspace_to_pgid>>

CleanupOutput(s) ==
    /\ pc[s] = "cleanup_output"
    /\ IF paths[s].out # paths[s].dir
        THEN RemovePath(s, paths[s].out)
        ELSE UNCHANGED <<tree, remains>>
    /\ cleanup_registered_' = [cleanup_registered_ EXCEPT ![s] = FALSE]
    /\ Goto(s, "release")
    /\ UNCHANGED <<paths, locked_, status, sent, clientVars, child, helpers,
                   g_locked_subdirs, g_workspace_to_pgid>>

(* Mutant: the key stays locked when the client went away.                 *)
ReleaseUnlessCancelled(s) ==
    /\ pc[s] = "release"
    /\ g_locked_subdirs' = IF locked_[s] /\ ~cancelled[s]
                            THEN g_locked_subdirs \ {Key(s)}
                            ELSE g_locked_subdirs
    /\ locked_' = [locked_ EXCEPT ![s] = FALSE]
    /\ Goto(s, "returned")
    /\ UNCHANGED <<paths, cleanup_registered_, status, sent, clientVars,
                   processVars, g_workspace_to_pgid, tree>>

Release(s) ==
    /\ pc[s] = "release"
    /\ g_locked_subdirs' = IF locked_[s] THEN g_locked_subdirs \ {Key(s)}
                                         ELSE g_locked_subdirs
    /\ locked_' = [locked_ EXCEPT ![s] = FALSE]
    /\ Goto(s, "returned")
    /\ UNCHANGED <<paths, cleanup_registered_, status, sent, clientVars,
                   processVars, g_workspace_to_pgid, tree>>

-----------------------------------------------------------------------------
(* The processes of the task.                                              *)

TaskWrites(s, d) ==
    /\ Alive(s)
    /\ d \in Area(paths[s])
    /\ tree' = [tree EXCEPT ![d] = @ \cup {s}]
    /\ UNCHANGED <<handlerVars, clientVars, processVars, g_locked_subdirs,
                   g_workspace_to_pgid>>

ChildExits(s) ==
    /\ child[s] = "running"
    /\ child' = [child EXCEPT ![s] = "zombie"]
    /\ \E b \in {FALSE} \cup (IF "helper" \in Faults THEN {TRUE} ELSE {}) :
          helpers' = [helpers EXCEPT ![s] = b]
    /\ UNCHANGED <<handlerVars, clientVars, remains, g_locked_subdirs,
                   g_workspace_to_pgid, tree>>

HelpersExit(s) ==
    /\ helpers[s]
    /\ helpers' = [helpers EXCEPT ![s] = FALSE]
    /\ UNCHANGED <<handlerVars, clientVars, child, remains, g_locked_subdirs,
                   g_workspace_to_pgid, tree>>

-----------------------------------------------------------------------------
(* What the client sends next is its choice; the rest of the handler is    *)
(* the server's.                                                           *)
ClientSends(s) ==
    /\ ~ended[s]
    /\ \/ DuplicateConfig(s)
       \/ ChunkBeforeConfig(s)
       \/ \E c \in Configs : \/ EscapingConfig(s, c)
                             \/ OccupiedWorkspace(s, c)
                             \/ AcquireWorkspace(s, c)
       \/ \E code \in {"INVALID_ARGUMENT", "PERMISSION_DENIED", "INTERNAL"} :
             BadChunk(s, code)
       \/ \E d \in Dirs : WriteChunk(s, d)

HandlerStep(s) ==
    \/ ReadCancelled(s)
    \/ EndOfStream(s)
    \/ EmptyCommand(s)
    \/ PrepareRunDirectory(s)
    \/ StartChildProcess(s)
    \/ StartFails(s)
    \/ RegisterTaskProcessGroup(s)
    \/ UnregisterTaskProcessGroup(s)
    \/ CleanupWorkspace(s)
    \/ CleanupOutput(s)
    \/ Release(s)

ProcessStep(s) ==
    \/ \E d \in Dirs : TaskWrites(s, d)
    \/ ChildExits(s)
    \/ HelpersExit(s)

Next ==
    \E s \in Sessions :
        \/ Accept(s)
        \/ Cancel(s)
        \/ ClientSends(s)
        \/ HalfClose(s)
        \/ HandlerStep(s)
        \/ CancelThreadKills(s)
        \/ MonitorReaps(s)
        \/ MonitorTimesOut(s)
        \/ MonitorFails(s)
        \/ ProcessStep(s)

Spec == Init /\ [][Next]_vars

(* A handler thread is scheduled, and a call whose processes are all gone  *)
(* comes out of the monitor (ExitEnds of TaskMonitor).  No client is       *)
(* assumed to send, to half-close or to cancel, and no command to end.     *)
Fairness ==
    \A s \in Sessions : /\ WF_vars(HandlerStep(s))
                        /\ WF_vars(~helpers[s] /\ MonitorReaps(s))

FairSpec == Spec /\ Fairness

-----------------------------------------------------------------------------
TypeOK ==
    /\ pc \in [Sessions -> Locations]
    /\ cancelled \in [Sessions -> BOOLEAN]
    /\ ended \in [Sessions -> BOOLEAN]
    /\ paths \in [Sessions -> ResolvedTaskPaths \cup {NoPaths}]
    /\ locked_ \in [Sessions -> BOOLEAN]
    /\ cleanup_registered_ \in [Sessions -> BOOLEAN]
    /\ status \in [Sessions -> Codes]
    /\ sent \in [Sessions -> SUBSET Dirs]
    /\ child \in [Sessions -> {"none", "running", "zombie", "reaped"}]
    /\ helpers \in [Sessions -> BOOLEAN]
    /\ remains \in [Sessions -> SUBSET {"process", "files"}]
    /\ g_locked_subdirs \in SUBSET Keys
    /\ g_workspace_to_pgid \in [Keys -> Sessions \cup {NoPgid}]
    /\ tree \in [Dirs -> SUBSET Sessions]

(* g_locked_subdirs holds exactly the keys of the guards that are locked,  *)
(* and no two guards hold one key: Acquire() refuses a key that is taken   *)
(* and Release() gives back no key but the guard's own.                    *)
LockExact ==
    /\ \A s \in Sessions : locked_[s] => paths[s] # NoPaths
    /\ \A k \in Keys :
          k \in g_locked_subdirs <=> \E s \in Sessions : locked_[s] /\ Key(s) = k
    /\ \A s, t \in Sessions :
          locked_[s] /\ locked_[t] /\ Key(s) = Key(t) => s = t

(* The registry UpdateUtilization looks processes up in names a session's  *)
(* group exactly while the session monitors its child: no entry outlives   *)
(* its task, and no other session overwrites or erases it.                 *)
RegistryExact ==
    /\ \A s \in Sessions :
          pc[s] \in {"monitor", "unregister"} =>
              g_workspace_to_pgid[Key(s)] = s
    /\ \A s \in Sessions, k \in Keys :
          g_workspace_to_pgid[k] = s =>
              locked_[s] /\ Key(s) = k /\ pc[s] \in {"monitor", "unregister"}

(* A submission finds in its workspace nothing but what it put there       *)
(* itself: no file of an earlier run, none of a concurrent one (the        *)
(* comment at remote_service_implement.cc:224 promises both).              *)
PrivateSubtree ==
    \A s \in Sessions :
        Owns(s) => \A d \in Area(paths[s]) : tree[d] \subseteq {s}

(* What a submission has uploaded stays there until its own cleanup: no    *)
(* other session's Cleanup() or Release() takes it away before or while    *)
(* the command runs.                                                       *)
UploadIntact ==
    \A s \in Sessions :
        Owns(s) /\ pc[s] # "cleanup_output" =>
            \A d \in sent[s] : s \in tree[d]

(* What a call that has returned may leave behind, on every exit path of   *)
(* the handler, the ones that neither kill nor wait for the child          *)
(* (task_executor.cc 365-374, 433-438, 455-457) included.  A file of its   *)
(* own is left only where the guard's Cleanup() failed, or where a process *)
(* was still running when it began; such a process is the command itself   *)
(* only after INTERNAL, or a background process, never after CANCELLED or  *)
(* DEADLINE_EXCEEDED, and a zombie is left only after INTERNAL or          *)
(* DEADLINE_EXCEEDED.                                                      *)
LeftoversAccounted ==
    \A s \in Sessions :
        pc[s] = "returned" =>
            /\ (\E d \in Dirs : s \in tree[d]) => remains[s] # {}
            /\ Alive(s) => "process" \in remains[s]
            /\ "process" \in remains[s] =>
                  /\ status[s] \in {"OK", "INTERNAL"}
                  /\ Faults \cap {"poll", "wait", "helper"} # {}
            /\ "files" \in remains[s] => "remove" \in Faults
            /\ child[s] = "running" => status[s] = "INTERNAL"
            /\ child[s] = "zombie" =>
                  status[s] \in {"INTERNAL", "DEADLINE_EXCEEDED"}

(* A handler that waits for its command, or for what the command started.  *)
Busy(s) == pc[s] = "monitor" /\ Alive(s)

(* The key is free again, or already another call's.                       *)
GivenBack(s) ==
    \/ paths[s] = NoPaths
    \/ Key(s) \notin g_locked_subdirs
    \/ \E t \in Sessions \ {s} : locked_[t] /\ Key(t) = Key(s)

(* A call whose client has half-closed or cancelled gives its workspace    *)
(* back, however it fails, or is busy with a command that runs; when that  *)
(* ends the same holds again.  A client that does neither keeps its        *)
(* workspace: Read() has no deadline (remote_service_implement.cc:252).    *)
WorkspaceGivenBack ==
    \A s \in Sessions :
        locked_[s] /\ (ended[s] \/ cancelled[s]) ~> GivenBack(s) \/ Busy(s)

-----------------------------------------------------------------------------
(* What the isolation of the workspaces takes: no config names a directory *)
(* with a trailing slash, and no two directories configs name overlap.     *)
SeparateWorkspaces ==
    /\ \A c \in Configs : Resolve[c] # NoPaths => ~Resolve[c].slash
    /\ \A c, e \in Configs :
          /\ Resolve[c] # NoPaths
          /\ Resolve[e] # NoPaths
          /\ Resolve[c].dir # Resolve[e].dir
          => Area(Resolve[c]) \cap Area(Resolve[e]) = {}

-----------------------------------------------------------------------------
(* The abstract specification: a directory belongs to the submission whose *)
(* guard is locked and whose area it lies in.                              *)

Holders(d) == {s \in Sessions : locked_[s] /\ d \in Area(paths[s])}

Holder(d) == IF Holders(d) = {} THEN NoPgid ELSE CHOOSE s \in Holders(d) : TRUE

Abstract == INSTANCE Ownership
    WITH Nobody <- NoPgid,
         owner <- [d \in Dirs |-> Holder(d)],
         files <- tree

(* The guard implements private subtrees that change hands only when they  *)
(* are empty, provided that no two areas overlap and nothing outlives the  *)
(* command (remote_service_implement.cc:224).                              *)
ImplementsOwnership == Abstract!Spec
=============================================================================
