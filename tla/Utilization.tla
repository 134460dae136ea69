---------------------------- MODULE Utilization ----------------------------
(***************************************************************************)
(* The utilization of running tasks.  A submission may set it (the file    *)
(* .drex_utilization in the workspace, and the xsched environment of the   *)
(* command: src/server/task_executor.cc 139-182, 184-305, 485-502), the    *)
(* UpdateUtilization call changes it while the command runs (the file and  *)
(* a hint per process: src/server/task_runtime_control.cc, and             *)
(* src/server/remote_service_implement.cc 52-106, 440-467), and the        *)
(* command reads the file (TokenThrottle of                                *)
(* src/application/gpu_token_up/main/up_loop.cpp 45-124).                  *)
(*                                                                         *)
(* The submissions are those of TaskSubmission, with the upload, the lock  *)
(* and the monitor reduced to what the utilization needs: a workspace has  *)
(* one submission at a time, which finds it as the one before left it.     *)
(* A task is the submission, and the number of its process group.          *)
(***************************************************************************)
EXTENDS FiniteSets

CONSTANTS
    Tasks,          \* submissions
    Workspaces,     \* directories of the workspace root
    Names,          \* workspace_subdir as a client may write it
    Dir,            \* Dir[n]: the directory name n denotes
    Key,            \* Key[w]: the normalized name a submission is kept under
    Updates,        \* concurrent UpdateUtilization calls
    Values,         \* utilizations in [0, 100]
    Initial,        \* what a submission may ask for: values, or NoValue
    Faults,         \* what may fail, see FaultKinds
    NoTask, NoValue

FaultKinds ==
    {"hint",        \* xcli is missing, or refuses
     "file"}        \* the file cannot be opened or written

Processes == {"leader", "helper"}

ASSUME UtilizationAssumption ==
    /\ Names # {}
    /\ Dir \in [Names -> Workspaces]
    /\ Key \in [Workspaces -> Names]
    /\ \A w \in Workspaces : Dir[Key[w]] = w
    /\ Initial \subseteq Values \cup {NoValue}
    /\ NoValue \notin Values
    /\ NoTask \notin Tasks
    /\ Faults \subseteq FaultKinds

VARIABLES
    pc,                     \* where the handler of a submission stands
    home,                   \* its workspace
    xsched_utilization,     \* what its config asks for
    processes,              \* the live processes of its group
    stage,                  \* how far its leader has come
    hint,                   \* what xsched was told of each process
    utilization_,           \* the last value its throttle has read
    g_workspace_to_pgid,
    file,                   \* .drex_utilization of each workspace
    upc,                    \* where an UpdateUtilization call stands
    request,                \* its name and value
    pgid,                   \* what it found in the registry
    todo,                   \* processes it has still to hint
    pids,                   \* processes it has hinted
    reply,                  \* the status it returns
    alone                   \* history: nothing else touched the utilization
                            \* of the task since the call began

taskVars == <<pc, home, xsched_utilization, stage>>
updateVars == <<upc, request, pgid, todo, pids, reply>>
vars == <<taskVars, processes, hint, utilization_, g_workspace_to_pgid, file,
          updateVars, alone>>

Locations == {"idle", "prepare", "fork", "register", "monitor", "unregister",
              "cleanup", "returned"}

UpdateLocations == {"idle", "lookup", "scan", "hint", "reply"}

(* Up to its execl(); running the command; the command has started a       *)
(* process of its own; the leader has exited.                              *)
Stages == {"forked", "command", "helper", "gone"}

Replies == {"none", "OK", "FAILED_PRECONDITION", "INTERNAL"}

Setting == Values \cup {NoValue}

Init ==
    /\ pc = [t \in Tasks |-> "idle"]
    /\ home \in [Tasks -> Workspaces]
    /\ xsched_utilization = [t \in Tasks |-> NoValue]
    /\ processes = [t \in Tasks |-> {}]
    /\ stage = [t \in Tasks |-> "forked"]
    /\ hint = [t \in Tasks |-> [p \in Processes |-> NoValue]]
    /\ utilization_ = [t \in Tasks |-> NoValue]
    /\ g_workspace_to_pgid = [n \in Names |-> NoTask]
    /\ file = [w \in Workspaces |-> NoValue]
    /\ upc = [u \in Updates |-> "idle"]
    /\ request = [u \in Updates |-> [name |-> CHOOSE n \in Names : TRUE,
                                     value |-> NoValue]]
    /\ pgid = [u \in Updates |-> NoTask]
    /\ todo = [u \in Updates |-> {}]
    /\ pids = [u \in Updates |-> {}]
    /\ reply = [u \in Updates |-> "none"]
    /\ alone = [u \in Updates |-> FALSE]

Target(u) == Dir[request[u].name]

(* The value of a file after a submission's own setting.                   *)
Configure(w, v) ==
    file' = IF v = NoValue THEN file ELSE [file EXCEPT ![w] = v]

(* Every call in progress for workspace w has been disturbed.              *)
Disturb(w) ==
    alone' = [u \in Updates |-> alone[u] /\ Target(u) # w]

-----------------------------------------------------------------------------
(* A submission, from the moment it has its workspace.                     *)

Goto(t, here, there) ==
    /\ pc[t] = here
    /\ pc' = [pc EXCEPT ![t] = there]
    /\ UNCHANGED home

(* The guard is locked and the upload is over.                             *)
Start(t) ==
    /\ Goto(t, "idle", "prepare")
    /\ \A s \in Tasks : home[s] = home[t] => pc[s] \in {"idle", "returned"}
    /\ \E v \in Initial :
          xsched_utilization' = [xsched_utilization EXCEPT ![t] = v]
    /\ UNCHANGED <<stage, processes, hint, utilization_,
                   g_workspace_to_pgid, file, updateVars, alone>>

(* ConfigureDrexRuntimeEnvironment in the handler.                         *)
Prepare(t) ==
    /\ Goto(t, "prepare", "fork")
    /\ Configure(home[t], xsched_utilization[t])
    /\ Disturb(home[t])
    /\ UNCHANGED <<xsched_utilization, stage, processes, hint, utilization_,
                   g_workspace_to_pgid, updateVars>>

Fork(t) ==
    /\ Goto(t, "fork", "register")
    /\ processes' = [processes EXCEPT ![t] = {"leader"}]
    /\ UNCHANGED <<xsched_utilization, stage, hint, utilization_,
                   g_workspace_to_pgid, file, updateVars, alone>>

Register(t) ==
    /\ Goto(t, "register", "monitor")
    /\ g_workspace_to_pgid' = [g_workspace_to_pgid EXCEPT ![Key[home[t]]] = t]
    /\ UNCHANGED <<xsched_utilization, stage, processes, hint, utilization_,
                   file, updateVars, alone>>

(* The monitor returns when the leader has exited; a process the command   *)
(* has left in the background may still run.                               *)
Monitor(t) ==
    /\ Goto(t, "monitor", "unregister")
    /\ "leader" \notin processes[t]
    /\ UNCHANGED <<xsched_utilization, stage, processes, hint, utilization_,
                   g_workspace_to_pgid, file, updateVars, alone>>

Unregister(t) ==
    /\ Goto(t, "unregister", "cleanup")
    /\ g_workspace_to_pgid' =
          [n \in Names |->
              IF n = Key[home[t]] /\ g_workspace_to_pgid[n] = t
              THEN NoTask ELSE g_workspace_to_pgid[n]]
    /\ UNCHANGED <<xsched_utilization, stage, processes, hint, utilization_,
                   file, updateVars, alone>>

Cleanup(t) ==
    /\ Goto(t, "cleanup", "returned")
    /\ file' = [file EXCEPT ![home[t]] = NoValue]
    /\ Disturb(home[t])
    /\ xsched_utilization' = [xsched_utilization EXCEPT ![t] = NoValue]
    /\ UNCHANGED <<stage, processes, hint, utilization_,
                   g_workspace_to_pgid, updateVars>>

(* The child between fork() and execl(): the same settings once more.      *)
ChildConfigures(t) ==
    /\ "leader" \in processes[t]
    /\ stage[t] = "forked"
    /\ stage' = [stage EXCEPT ![t] = "command"]
    /\ Configure(home[t], xsched_utilization[t])
    /\ hint' = [hint EXCEPT ![t]["leader"] =
                    IF xsched_utilization[t] = NoValue THEN @
                    ELSE xsched_utilization[t]]
    /\ Disturb(home[t])
    /\ UNCHANGED <<pc, home, xsched_utilization, processes, utilization_,
                   g_workspace_to_pgid, updateVars>>

(* Mutant: the file is read once.                                          *)
RefillOnce(t) ==
    /\ "leader" \in processes[t]
    /\ stage[t] # "forked"
    /\ utilization_[t] = NoValue
    /\ utilization_' = [utilization_ EXCEPT ![t] = file[home[t]]]
    /\ UNCHANGED <<taskVars, processes, hint, g_workspace_to_pgid, file,
                   updateVars, alone>>

(* TokenThrottle::Refill: an empty or missing file keeps the last value.   *)
Refill(t) ==
    /\ "leader" \in processes[t]
    /\ stage[t] # "forked"
    /\ utilization_' = [utilization_ EXCEPT ![t] =
                            IF file[home[t]] = NoValue THEN @
                            ELSE file[home[t]]]
    /\ UNCHANGED <<taskVars, processes, hint, g_workspace_to_pgid, file,
                   updateVars, alone>>

(* The command starts a process of its own.                                *)
StartHelper(t) ==
    /\ "leader" \in processes[t]
    /\ stage[t] = "command"
    /\ stage' = [stage EXCEPT ![t] = "helper"]
    /\ processes' = [processes EXCEPT ![t] = Processes]
    /\ hint' = [hint EXCEPT ![t]["helper"] = xsched_utilization[t]]
    /\ UNCHANGED <<pc, home, xsched_utilization, utilization_,
                   g_workspace_to_pgid, file, updateVars, alone>>

(* A process exits by itself or is killed.                                 *)
Exit(t) ==
    /\ \E p \in processes[t] :
          /\ processes' = [processes EXCEPT ![t] = @ \ {p}]
          /\ hint' = [hint EXCEPT ![t][p] = NoValue]
          /\ IF p = "leader"
               THEN /\ stage' = [stage EXCEPT ![t] = "gone"]
                    /\ utilization_' = [utilization_ EXCEPT ![t] = NoValue]
               ELSE UNCHANGED <<stage, utilization_>>
    /\ UNCHANGED <<pc, home, xsched_utilization, g_workspace_to_pgid, file,
                   updateVars, alone>>

-----------------------------------------------------------------------------
(* An UpdateUtilization call.  A name that is empty or leaves the root and *)
(* a value outside [0, 100] are refused before anything is changed, and    *)
(* are left out.                                                           *)

Step(u, here, there) ==
    /\ upc[u] = here
    /\ upc' = [upc EXCEPT ![u] = there]
    /\ UNCHANGED <<taskVars, processes, utilization_, g_workspace_to_pgid>>

Request(u) ==
    /\ Step(u, "idle", "lookup")
    /\ \E n \in Names, v \in Values :
          request' = [request EXCEPT ![u] = [name |-> n, value |-> v]]
    /\ alone' = [v \in Updates |->
          IF v = u THEN \A w \in Updates \ {u} :
                            upc[w] # "idle" => Target(w) # Target(u)'
          ELSE alone[v] /\ Target(v) # Target(u)']
    /\ UNCHANGED <<pgid, todo, pids, reply, hint, file>>

(* The registry is read under its mutex, by the name as it was sent; what  *)
(* was found is used after the mutex is given back.                        *)
LookUp(u) ==
    /\ \/ /\ g_workspace_to_pgid[request[u].name] = NoTask
          /\ Step(u, "lookup", "hint")
       \/ /\ g_workspace_to_pgid[request[u].name] # NoTask
          /\ Step(u, "lookup", "scan")
    /\ pgid' = [pgid EXCEPT ![u] = g_workspace_to_pgid[request[u].name]]
    /\ UNCHANGED <<request, todo, pids, reply, hint, file, alone>>

(* FindPidsInProcessGroup.                                                 *)
Scan(u) ==
    /\ Step(u, "scan", "hint")
    /\ todo' = [todo EXCEPT ![u] = processes[pgid[u]]]
    /\ UNCHANGED <<request, pgid, pids, reply, hint, file, alone>>

(* RunXcliHint for one process; it fails for a process that has exited.    *)
Hint(u) ==
    /\ Step(u, "hint", "hint")
    /\ \E p \in todo[u] :
          /\ todo' = [todo EXCEPT ![u] = @ \ {p}]
          /\ \/ /\ p \in processes[pgid[u]]
                /\ hint' = [hint EXCEPT ![pgid[u]][p] = request[u].value]
                /\ pids' = [pids EXCEPT ![u] = @ \cup {p}]
             \/ /\ p \notin processes[pgid[u]] \/ "hint" \in Faults
                /\ UNCHANGED <<hint, pids>>
    /\ UNCHANGED <<request, pgid, reply, file, alone>>

(* Mutant: whether the file was written is not looked at.                  *)
StatusOfHints(success, written) ==
    IF success THEN "OK" ELSE "FAILED_PRECONDITION"

(* Mutant: a status clients do not know for a task that is not there.      *)
StatusNotFound(success, written) ==
    CASE ~success -> "NOT_FOUND"
      [] success /\ ~written -> "INTERNAL"
      [] OTHER -> "OK"

StatusOf(success, written) ==
    CASE ~success -> "FAILED_PRECONDITION"
      [] success /\ ~written -> "INTERNAL"
      [] OTHER -> "OK"

(* WriteRuntimeUtilizationFile, whatever became of the hints.              *)
WriteFile(u) ==
    /\ Step(u, "hint", "reply")
    /\ todo[u] = {}
    /\ \/ /\ file' = [file EXCEPT ![Target(u)] = request[u].value]
          /\ reply' = [reply EXCEPT ![u] = StatusOf(pids[u] # {}, TRUE)]
       \/ /\ "file" \in Faults
          /\ UNCHANGED file
          /\ reply' = [reply EXCEPT ![u] = StatusOf(pids[u] # {}, FALSE)]
    /\ UNCHANGED <<request, pgid, todo, pids, hint, alone>>

Reply(u) ==
    /\ Step(u, "reply", "idle")
    /\ request' = [request EXCEPT ![u].value = NoValue]
    /\ pgid' = [pgid EXCEPT ![u] = NoTask]
    /\ pids' = [pids EXCEPT ![u] = {}]
    /\ reply' = [reply EXCEPT ![u] = "none"]
    /\ UNCHANGED <<todo, hint, file, alone>>

-----------------------------------------------------------------------------
Submission(t) ==
    \/ Start(t)
    \/ Prepare(t)
    \/ Fork(t)
    \/ Register(t)
    \/ Monitor(t)
    \/ Unregister(t)
    \/ Cleanup(t)
    \/ ChildConfigures(t)

UpdateUtilization(u) ==
    \/ LookUp(u)
    \/ Scan(u)
    \/ Hint(u)
    \/ WriteFile(u)
    \/ Reply(u)

Next ==
    \/ \E t \in Tasks : Submission(t) \/ Refill(t) \/ StartHelper(t) \/ Exit(t)
    \/ \E u \in Updates : Request(u) \/ UpdateUtilization(u)

Spec == Init /\ [][Next]_vars

(* A child gets to its command, and a command that runs refills its        *)
(* tokens; the clients need not call, and the commands need not end.       *)
FairSpec ==
    Spec /\ \A t \in Tasks : WF_vars(ChildConfigures(t)) /\ WF_vars(Refill(t))

-----------------------------------------------------------------------------
TypeOK ==
    /\ pc \in [Tasks -> Locations]
    /\ home \in [Tasks -> Workspaces]
    /\ xsched_utilization \in [Tasks -> Setting]
    /\ processes \in [Tasks -> SUBSET Processes]
    /\ stage \in [Tasks -> Stages]
    /\ hint \in [Tasks -> [Processes -> Setting]]
    /\ utilization_ \in [Tasks -> Setting]
    /\ g_workspace_to_pgid \in [Names -> Tasks \cup {NoTask}]
    /\ file \in [Workspaces -> Setting]
    /\ upc \in [Updates -> UpdateLocations]
    /\ request \in [Updates -> [name : Names, value : Setting]]
    /\ pgid \in [Updates -> Tasks \cup {NoTask}]
    /\ todo \in [Updates -> SUBSET Processes]
    /\ pids \in [Updates -> SUBSET Processes]
    /\ reply \in [Updates -> Replies]
    /\ alone \in [Updates -> BOOLEAN]

(* An update that is acknowledged, and that nothing else disturbed, has    *)
(* taken effect: the processes the response names have the hint, and the   *)
(* file of their workspace has the value, whichever name it was sent with, *)
(* whatever failed and whoever exited on the way.                          *)
AcknowledgedHolds ==
    \A u \in Updates :
        upc[u] = "reply" /\ reply[u] = "OK" /\ alone[u] =>
            /\ pids[u] # {}
            /\ \A p \in pids[u] :
                  p \in processes[pgid[u]] =>
                      hint[pgid[u]][p] = request[u].value
            /\ file[home[pgid[u]]] = request[u].value

(* An acknowledged update reaches the command, which reads the file when   *)
(* it refills its tokens, unless the command ends or another call or a     *)
(* submission changes the file.                                            *)
UpdateReachesCommand ==
    \A u \in Updates, t \in Tasks, v \in Values :
        /\ upc[u] = "reply"
        /\ reply[u] = "OK"
        /\ pgid[u] = t
        /\ request[u].value = v
        ~> \/ utilization_[t] = v
           \/ "leader" \notin processes[t]
           \/ ~alone[u]
           \/ upc[u] = "lookup"

(* A submission that is about to start its command finds no utilization    *)
(* but its own: "Cleanup on every exit path keeps later runs from          *)
(* inheriting stale files" (remote_service_implement.cc:224-225).          *)
FreshWorkspace ==
    \A t \in Tasks : pc[t] = "fork" => file[home[t]] = xsched_utilization[t]
=============================================================================
