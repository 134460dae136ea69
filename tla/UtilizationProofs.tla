------------------------- MODULE UtilizationProofs -------------------------
(***************************************************************************)
(* Proofs about Utilization: whatever the number of submissions, names and *)
(* concurrent updates, an acknowledged update that nothing disturbed has   *)
(* taken effect.                                                           *)
(***************************************************************************)
EXTENDS Utilization, TLAPS

(* The processes of a task: none before the fork, and no helper before the *)
(* command runs.                                                           *)
ProcessInv ==
    \A t \in Tasks :
        /\ pc[t] \in {"idle", "prepare", "fork"} =>
               processes[t] = {} /\ stage[t] = "forked"
        /\ "helper" \in processes[t] => stage[t] \in {"helper", "gone"}

(* The registry has a task under the key of its workspace, while it is     *)
(* monitored.                                                              *)
RegistryInv ==
    \A n \in Names, t \in Tasks :
        g_workspace_to_pgid[n] = t =>
            n = Key[home[t]] /\ pc[t] \in {"monitor", "unregister"}

(* What a call in progress knows: a task that was started in the workspace *)
(* its name denotes, and processes of that task.                           *)
Knows(u) ==
    /\ upc[u] \in {"idle", "lookup"} => pgid[u] = NoTask
    /\ upc[u] = "scan" => pgid[u] # NoTask /\ pids[u] = {}
    /\ upc[u] = "reply" => todo[u] = {}
    /\ pgid[u] = NoTask => todo[u] = {} /\ pids[u] = {}
    /\ pgid[u] # NoTask =>
           /\ home[pgid[u]] = Target(u)
           /\ pc[pgid[u]] \in {"monitor", "unregister", "cleanup", "returned"}
    /\ "helper" \in todo[u] \cup pids[u] => stage[pgid[u]] \in {"helper", "gone"}

(* A call that is alone is the only one for its workspace, and what it has *)
(* done so far still stands.                                               *)
Stands(u) ==
    upc[u] # "idle" /\ alone[u] =>
        /\ \A v \in Updates \ {u} : upc[v] # "idle" => Target(v) # Target(u)
        /\ \A p \in pids[u] :
              p \in processes[pgid[u]] => hint[pgid[u]][p] = request[u].value
        /\ upc[u] = "reply" /\ reply[u] = "OK" =>
              pids[u] # {} /\ file[Target(u)] = request[u].value

CallInv == \A u \in Updates : Knows(u) /\ Stands(u)

IInv ==
    /\ TypeOK
    /\ ProcessInv
    /\ RegistryInv
    /\ CallInv

-----------------------------------------------------------------------------
(* Initially.                                                              *)
LEMMA InitIInv == Init => IInv
<1> SUFFICES ASSUME Init PROVE IInv
    OBVIOUS
<1> USE UtilizationAssumption DEF Init
<1>1. TypeOK
    <2>1. /\ request \in [Updates -> [name : Names, value : Setting]]
          /\ hint \in [Tasks -> [Processes -> Setting]]
        BY DEF Setting
    <2>2. /\ pc \in [Tasks -> Locations]
          /\ xsched_utilization \in [Tasks -> Setting]
          /\ processes \in [Tasks -> SUBSET Processes]
          /\ stage \in [Tasks -> Stages]
          /\ utilization_ \in [Tasks -> Setting]
          /\ file \in [Workspaces -> Setting]
        BY DEF Locations, Stages, Setting
    <2>3. /\ upc \in [Updates -> UpdateLocations]
          /\ todo \in [Updates -> SUBSET Processes]
          /\ pids \in [Updates -> SUBSET Processes]
          /\ reply \in [Updates -> Replies]
        BY DEF UpdateLocations, Replies
    <2> QED
        BY <2>1, <2>2, <2>3 DEF TypeOK
<1>2. ProcessInv /\ RegistryInv
    BY DEF ProcessInv, RegistryInv
<1>3. CallInv
    BY DEF CallInv, Knows, Stands
<1> QED
    BY <1>1, <1>2, <1>3 DEF IInv

-----------------------------------------------------------------------------
(* The types.                                                              *)
LEMMA SubmissionTypes ==
    ASSUME TypeOK, NEW t \in Tasks,
           Submission(t) \/ Refill(t) \/ StartHelper(t) \/ Exit(t)
    PROVE  TypeOK'
<1> USE UtilizationAssumption DEF TypeOK, Setting, Locations, Stages, Processes,
        updateVars
<1>1. CASE Start(t)
    BY <1>1 DEF Start, Goto
<1>2. CASE Prepare(t)
    BY <1>2 DEF Prepare, Goto, Configure, Disturb
<1>3. CASE Fork(t)
    BY <1>3 DEF Fork, Goto
<1>4. CASE Register(t)
    BY <1>4 DEF Register, Goto
<1>5. CASE Monitor(t)
    BY <1>5 DEF Monitor, Goto
<1>6. CASE Unregister(t)
    BY <1>6 DEF Unregister, Goto
<1>7. CASE Cleanup(t)
    BY <1>7 DEF Cleanup, Goto, Disturb
<1>8. CASE ChildConfigures(t)
    BY <1>8 DEF ChildConfigures, Configure, Disturb
<1>9. CASE Refill(t)
    BY <1>9 DEF Refill, taskVars
<1>10. CASE StartHelper(t)
    BY <1>10 DEF StartHelper
<1>11. CASE Exit(t)
    <2>1. PICK p \in processes[t] :
             /\ processes' = [processes EXCEPT ![t] = @ \ {p}]
             /\ hint' = [hint EXCEPT ![t][p] = NoValue]
             /\ IF p = "leader"
                  THEN /\ stage' = [stage EXCEPT ![t] = "gone"]
                       /\ utilization_' = [utilization_ EXCEPT ![t] = NoValue]
                  ELSE UNCHANGED <<stage, utilization_>>
        BY <1>11 DEF Exit
    <2>2. processes' \in [Tasks -> SUBSET Processes]
        BY <2>1
    <2>3. hint' \in [Tasks -> [Processes -> Setting]]
        BY <2>1
    <2>4. /\ stage' \in [Tasks -> Stages]
          /\ utilization_' \in [Tasks -> Setting]
        <3> HIDE DEF TypeOK
        <3>1. stage' = stage \/ stage' = [stage EXCEPT ![t] = "gone"]
            BY <2>1
        <3>2. \/ utilization_' = utilization_
              \/ utilization_' = [utilization_ EXCEPT ![t] = NoValue]
            BY <2>1
        <3>3. [stage EXCEPT ![t] = "gone"] \in [Tasks -> Stages]
            BY DEF TypeOK
        <3>4. [utilization_ EXCEPT ![t] = NoValue] \in [Tasks -> Setting]
            BY DEF TypeOK
        <3>5. stage' \in [Tasks -> Stages]
            <4>1. stage \in [Tasks -> Stages]
                BY DEF TypeOK
            <4> QED
                BY <3>1, <3>3, <4>1, Zenon
        <3>6. utilization_' \in [Tasks -> Setting]
            <4>1. utilization_ \in [Tasks -> Setting]
                BY DEF TypeOK
            <4> QED
                BY <3>2, <3>4, <4>1, Zenon
        <3> QED
            BY <3>5, <3>6
    <2> QED
        BY <2>2, <2>3, <2>4, <1>11 DEF Exit
<1> QED
    BY <1>1, <1>2, <1>3, <1>4, <1>5, <1>6, <1>7, <1>8, <1>9, <1>10, <1>11
       DEF Submission

LEMMA UpdateTypes ==
    ASSUME TypeOK, CallInv, NEW u \in Updates,
           Request(u) \/ UpdateUtilization(u)
    PROVE  TypeOK'
<1> USE UtilizationAssumption DEF TypeOK, Setting, UpdateLocations, Step, taskVars
<1>1. CASE Request(u)
    <2>1. PICK n \in Names, v \in Values :
             request' = [request EXCEPT ![u] = [name |-> n, value |-> v]]
        BY <1>1 DEF Request
    <2>2. request' \in [Updates -> [name : Names, value : Setting]]
        BY <2>1
    <2>3. alone' \in [Updates -> BOOLEAN]
        BY <1>1 DEF Request
    <2> QED
        BY <2>2, <2>3, <1>1 DEF Request
<1>2. CASE LookUp(u)
    BY <1>2 DEF LookUp
<1>3. CASE Scan(u)
    <2>1. pgid[u] \in Tasks
        BY <1>3 DEF Scan, CallInv, Knows
    <2>2. todo' \in [Updates -> SUBSET Processes]
        BY <2>1, <1>3 DEF Scan
    <2> QED
        BY <2>2, <1>3 DEF Scan
<1>4. CASE Hint(u)
    <2>1. PICK p \in todo[u] :
             /\ todo' = [todo EXCEPT ![u] = @ \ {p}]
             /\ \/ /\ hint' = [hint EXCEPT ![pgid[u]][p] = request[u].value]
                   /\ pids' = [pids EXCEPT ![u] = @ \cup {p}]
                \/ UNCHANGED <<hint, pids>>
        BY <1>4 DEF Hint
    <2>2. /\ todo' \in [Updates -> SUBSET Processes]
          /\ pids' \in [Updates -> SUBSET Processes]
        <3>1. p \in Processes
            OBVIOUS
        <3>2. pids' = pids \/ pids' = [pids EXCEPT ![u] = @ \cup {p}]
            BY <2>1
        <3>3. [pids EXCEPT ![u] = @ \cup {p}] \in [Updates -> SUBSET Processes]
            BY <3>1
        <3>4. [todo EXCEPT ![u] = @ \ {p}] \in [Updates -> SUBSET Processes]
            OBVIOUS
        <3> QED
            BY <2>1, <3>2, <3>3, <3>4
    <2>3. hint' \in [Tasks -> [Processes -> Setting]]
        <3>1. request[u] \in [name : Names, value : Setting]
            OBVIOUS
        <3>2. request[u].value \in Setting /\ p \in Processes
            BY <3>1
        <3>3. pgid[u] \in Tasks
            BY DEF CallInv, Knows
        <3>4. [hint[pgid[u]] EXCEPT ![p] = request[u].value]
                 \in [Processes -> Setting]
            BY <3>2, <3>3
        <3> QED
            BY <2>1, <3>3, <3>4
    <2> QED
        BY <2>2, <2>3, <1>4 DEF Hint
<1>5. CASE WriteFile(u)
    <2>1. \A success, written \in BOOLEAN : StatusOf(success, written) \in Replies
        BY DEF StatusOf, Replies
    <2>2. reply' \in [Updates -> Replies]
        BY <2>1, <1>5 DEF WriteFile
    <2>3. file' \in [Workspaces -> Setting]
        <3>1. request[u] \in [name : Names, value : Setting]
            OBVIOUS
        <3>2. request[u].value \in Setting
            BY <3>1
        <3> QED
            BY <3>2, <1>5 DEF WriteFile
    <2> QED
        BY <2>2, <2>3, <1>5 DEF WriteFile
<1>6. CASE Reply(u)
    <2>1. request' \in [Updates -> [name : Names, value : Setting]]
        BY <1>6 DEF Reply
    <2>2. reply' \in [Updates -> Replies]
        BY <1>6 DEF Reply, Replies
    <2> QED
        BY <2>1, <2>2, <1>6 DEF Reply
<1> QED
    BY <1>1, <1>2, <1>3, <1>4, <1>5, <1>6 DEF UpdateUtilization

-----------------------------------------------------------------------------
(* The tasks and the registry.                                             *)
LEMMA ProcessStep ==
    ASSUME TypeOK, ProcessInv, NEW t \in Tasks,
           Submission(t) \/ Refill(t) \/ StartHelper(t) \/ Exit(t)
    PROVE  ProcessInv'
<1> USE DEF TypeOK, ProcessInv, Processes, Stages, Locations
<1>1. CASE Start(t)
    BY <1>1 DEF Start, Goto
<1>2. CASE Prepare(t)
    BY <1>2 DEF Prepare, Goto
<1>3. CASE Fork(t)
    BY <1>3 DEF Fork, Goto
<1>4. CASE Register(t)
    BY <1>4 DEF Register, Goto
<1>5. CASE Monitor(t)
    BY <1>5 DEF Monitor, Goto
<1>6. CASE Unregister(t)
    BY <1>6 DEF Unregister, Goto
<1>7. CASE Cleanup(t)
    BY <1>7 DEF Cleanup, Goto
<1>8. CASE ChildConfigures(t)
    BY <1>8 DEF ChildConfigures
<1>9. CASE Refill(t)
    BY <1>9 DEF Refill, taskVars
<1>10. CASE StartHelper(t)
    BY <1>10 DEF StartHelper
<1>11. CASE Exit(t)
    BY <1>11 DEF Exit
<1> QED
    BY <1>1, <1>2, <1>3, <1>4, <1>5, <1>6, <1>7, <1>8, <1>9, <1>10, <1>11
       DEF Submission

LEMMA RegistryStep ==
    ASSUME TypeOK, RegistryInv, NEW t \in Tasks,
           Submission(t) \/ Refill(t) \/ StartHelper(t) \/ Exit(t)
    PROVE  RegistryInv'
<1> USE UtilizationAssumption DEF TypeOK, RegistryInv, Locations
<1>1. CASE Start(t)
    BY <1>1 DEF Start, Goto
<1>2. CASE Prepare(t)
    BY <1>2 DEF Prepare, Goto
<1>3. CASE Fork(t)
    BY <1>3 DEF Fork, Goto
<1>4. CASE Register(t)
    BY <1>4 DEF Register, Goto
<1>5. CASE Monitor(t)
    BY <1>5 DEF Monitor, Goto
<1>6. CASE Unregister(t)
    BY <1>6 DEF Unregister, Goto
<1>7. CASE Cleanup(t)
    BY <1>7 DEF Cleanup, Goto
<1>8. CASE ChildConfigures(t)
    BY <1>8 DEF ChildConfigures
<1>9. CASE Refill(t)
    BY <1>9 DEF Refill, taskVars
<1>10. CASE StartHelper(t)
    BY <1>10 DEF StartHelper
<1>11. CASE Exit(t)
    BY <1>11 DEF Exit
<1> QED
    BY <1>1, <1>2, <1>3, <1>4, <1>5, <1>6, <1>7, <1>8, <1>9, <1>10, <1>11
       DEF Submission

(* An update changes neither.                                              *)
LEMMA UpdateKeepsTasks ==
    ASSUME ProcessInv, RegistryInv, NEW u \in Updates,
           Request(u) \/ UpdateUtilization(u)
    PROVE  ProcessInv' /\ RegistryInv'
<1>1. PICK here, there : Step(u, here, there)
    BY DEF UpdateUtilization, Request, LookUp, Scan, Hint, WriteFile, Reply
<1>2. UNCHANGED <<pc, home, stage, processes, g_workspace_to_pgid>>
    BY <1>1 DEF Step, taskVars
<1> QED
    BY <1>2 DEF ProcessInv, RegistryInv

-----------------------------------------------------------------------------
(* The calls in progress, while a submission or a command takes a step.    *)
LEMMA SubmissionKeepsCalls ==
    ASSUME TypeOK, ProcessInv, CallInv, NEW t \in Tasks,
           Submission(t) \/ Refill(t) \/ StartHelper(t) \/ Exit(t)
    PROVE  CallInv'
<1> SUFFICES ASSUME NEW u \in Updates
             PROVE  Knows(u)' /\ Stands(u)'
    BY DEF CallInv
<1>0. /\ Knows(u)
      /\ Stands(u)
      /\ pgid[u] \in Tasks \cup {NoTask}
      /\ todo[u] \subseteq Processes
      /\ pids[u] \subseteq Processes
      /\ Target(u) \in Workspaces
    <2>1. request[u] \in [name : Names, value : Setting]
        BY DEF TypeOK
    <2> QED
        BY <2>1, UtilizationAssumption DEF CallInv, TypeOK, Target
<1>a. UNCHANGED <<updateVars, home>>
    BY DEF Submission, Start, Prepare, Fork, Register, Monitor, Unregister,
           Cleanup, ChildConfigures, Refill, StartHelper, Exit, Goto, taskVars
<1>b. \A v \in Updates : Target(v)' = Target(v)
    BY <1>a DEF updateVars, Target
<1> USE <1>0, <1>a, <1>b, UtilizationAssumption
    DEF updateVars, ProcessInv, Knows, Stands
<1>1. CASE Start(t)
    BY <1>1 DEF Start, Goto, TypeOK
<1>2. CASE Prepare(t)
    <2>1. Knows(u)'
        BY <1>2 DEF Prepare, Goto, Configure, Disturb, TypeOK, Processes
    <2>2. CASE Target(u) = home[t]
        <3>1. alone'[u] = FALSE
            BY <1>2, <2>2 DEF Prepare, Goto, Configure, Disturb
        <3> QED
            BY <2>1, <3>1
    <2>3. CASE Target(u) # home[t]
        <3>1. /\ alone'[u] = alone[u]
              /\ file'[Target(u)] = file[Target(u)]
            BY <1>2, <2>3 DEF Prepare, Goto, Configure, Disturb, TypeOK
        <3>2. UNCHANGED hint
            BY <1>2, <2>3 DEF Prepare, Goto, Configure, Disturb, TypeOK
        <3>3. UNCHANGED processes
            BY <1>2 DEF Prepare, Goto, Configure, Disturb
        <3> QED
            BY <2>1, <3>1, <3>2, <3>3
    <2> QED
        BY <2>2, <2>3
<1>3. CASE Fork(t)
    BY <1>3 DEF Fork, Goto, TypeOK
<1>4. CASE Register(t)
    BY <1>4 DEF Register, Goto, TypeOK
<1>5. CASE Monitor(t)
    BY <1>5 DEF Monitor, Goto, TypeOK
<1>6. CASE Unregister(t)
    BY <1>6 DEF Unregister, Goto, TypeOK
<1>7. CASE Cleanup(t)
    <2>1. Knows(u)'
        BY <1>7 DEF Cleanup, Goto, Disturb, TypeOK, Processes
    <2>2. CASE Target(u) = home[t]
        <3>1. alone'[u] = FALSE
            BY <1>7, <2>2 DEF Cleanup, Goto, Disturb
        <3> QED
            BY <2>1, <3>1
    <2>3. CASE Target(u) # home[t]
        <3>1. /\ alone'[u] = alone[u]
              /\ file'[Target(u)] = file[Target(u)]
            BY <1>7, <2>3 DEF Cleanup, Goto, Disturb, TypeOK
        <3>2. UNCHANGED hint
            BY <1>7, <2>3 DEF Cleanup, Goto, Disturb, TypeOK
        <3>3. UNCHANGED processes
            BY <1>7 DEF Cleanup, Goto, Disturb
        <3> QED
            BY <2>1, <3>1, <3>2, <3>3
    <2> QED
        BY <2>2, <2>3
<1>8. CASE ChildConfigures(t)
    <2>1. Knows(u)'
        BY <1>8 DEF ChildConfigures, Configure, Disturb, TypeOK, Processes
    <2>2. CASE Target(u) = home[t]
        <3>1. alone'[u] = FALSE
            BY <1>8, <2>2 DEF ChildConfigures, Configure, Disturb
        <3> QED
            BY <2>1, <3>1
    <2>3. CASE Target(u) # home[t]
        <3>1. /\ alone'[u] = alone[u]
              /\ file'[Target(u)] = file[Target(u)]
            BY <1>8, <2>3 DEF ChildConfigures, Configure, Disturb, TypeOK
        <3>2. pgid[u] # NoTask => hint'[pgid[u]] = hint[pgid[u]]
            BY <1>8, <2>3 DEF ChildConfigures, Configure, Disturb, TypeOK
        <3>3. UNCHANGED processes
            BY <1>8 DEF ChildConfigures, Configure, Disturb
        <3> QED
            BY <2>1, <3>1, <3>2, <3>3
    <2> QED
        BY <2>2, <2>3
<1>9. CASE Refill(t)
    BY <1>9 DEF Refill, taskVars, TypeOK, Processes
<1>10. CASE StartHelper(t)
    BY <1>10 DEF StartHelper, TypeOK, Processes
<1>11. CASE Exit(t)
    BY <1>11 DEF Exit, TypeOK, Processes
<1> QED
    BY <1>1, <1>2, <1>3, <1>4, <1>5, <1>6, <1>7, <1>8, <1>9, <1>10, <1>11
       DEF Submission

(* The calls in progress, while one of them takes a step.                  *)
LEMMA UpdateKeepsCalls ==
    ASSUME TypeOK, ProcessInv, RegistryInv, CallInv, NEW u \in Updates,
           Request(u) \/ UpdateUtilization(u)
    PROVE  CallInv'
<1> SUFFICES ASSUME NEW w \in Updates
             PROVE  Knows(w)' /\ Stands(w)'
    BY DEF CallInv
<1>0. \A v \in Updates : /\ Knows(v) /\ Stands(v)
                         /\ pgid[v] \in Tasks \cup {NoTask}
                         /\ request[v] \in [name : Names, value : Setting]
                         /\ Target(v) \in Workspaces
                         /\ todo[v] \subseteq Processes
                         /\ pids[v] \subseteq Processes
    BY UtilizationAssumption DEF CallInv, TypeOK, Target
<1>1. UNCHANGED <<pc, home, stage, processes, g_workspace_to_pgid>>
    BY DEF UpdateUtilization, Request, LookUp, Scan, Hint, WriteFile, Reply,
           Step, taskVars
<1>n. ASSUME UpdateUtilization(u)
      PROVE  \A v \in Updates : request'[v].name = request[v].name
    <2>1. CASE Reply(u)
        <3>1. request' = [request EXCEPT ![u] = [@ EXCEPT !.value = NoValue]]
            BY <2>1 DEF Reply
        <3> QED
            BY <1>0, <3>1 DEF TypeOK
    <2>2. CASE ~Reply(u)
        BY <1>n, <2>2 DEF UpdateUtilization, LookUp, Scan, Hint, WriteFile
    <2> QED
        BY <2>1, <2>2
(* Another call sees that the step is none of its business.                *)
<1>2. CASE w # u
    <2>1. /\ upc'[w] = upc[w]
          /\ request'[w] = request[w]
          /\ pgid'[w] = pgid[w]
          /\ todo'[w] = todo[w]
          /\ pids'[w] = pids[w]
          /\ reply'[w] = reply[w]
        BY <1>2 DEF UpdateUtilization, Request, LookUp, Scan, Hint, WriteFile,
                    Reply, Step, TypeOK
    <2>2. Target(w)' = Target(w)
        BY <2>1 DEF Target
    <2>3. Knows(w)'
        BY <1>0, <1>1, <2>1, <2>2 DEF Knows
    <2>a. TypeOK'
        BY UpdateTypes
    <2>b. alone'[w] \in BOOLEAN
        BY <2>a DEF TypeOK
    <2>4. SUFFICES ASSUME upc[w] # "idle", alone'[w] = TRUE
                   PROVE  Stands(w)'
        BY <2>1, <2>3, <2>b DEF Stands
    <2>5. alone[w]
        BY <1>2, <2>4 DEF UpdateUtilization, Request, LookUp, Scan, Hint,
                          WriteFile, Reply, TypeOK
    <2>6. \A v \in Updates \ {w} : upc'[v] # "idle" => Target(v)' # Target(w)
        <3>1. CASE Request(u)
            <4>1. Target(u)' # Target(w)
                BY <1>2, <2>4, <3>1 DEF Request
            <4>2. \A v \in Updates \ {u} :
                     upc'[v] = upc[v] /\ request'[v] = request[v]
                BY <3>1 DEF Request, Step, TypeOK
            <4> QED
                BY <1>0, <2>4, <2>5, <4>1, <4>2 DEF Stands, Target
        <3>2. CASE UpdateUtilization(u)
            <4>1. upc[u] # "idle"
                BY <3>2 DEF UpdateUtilization, LookUp, Scan, Hint, WriteFile,
                            Reply, Step
            <4>2. \A v \in Updates : v # u => upc'[v] = upc[v]
                BY <3>2 DEF UpdateUtilization, LookUp, Scan, Hint, WriteFile,
                            Reply, Step, TypeOK
            <4>3. \A v \in Updates : request'[v].name = request[v].name
                BY <3>2, <1>n
            <4> QED
                BY <1>0, <2>4, <2>5, <4>1, <4>2, <4>3 DEF Stands, Target
        <3> QED
            BY <3>1, <3>2
    <2>7. \A p \in pids[w] : p \in processes[pgid[w]] =>
                                hint'[pgid[w]][p] = hint[pgid[w]][p]
        <3>1. CASE Hint(u)
            <4>1. Target(u) # Target(w)
                BY <1>0, <1>2, <2>4, <2>5, <3>1 DEF Stands, Hint, Step
            <4>2. pgid[u] # NoTask
                BY <1>0, <3>1 DEF Knows, Hint
            <4>3. SUFFICES ASSUME pgid[w] # NoTask
                           PROVE  hint'[pgid[w]] = hint[pgid[w]]
                BY <1>0 DEF Knows
            <4>4. pgid[u] # pgid[w]
                BY <1>0, <4>1, <4>2, <4>3 DEF Knows
            <4> QED
                BY <1>0, <3>1, <4>3, <4>4 DEF Hint, TypeOK
        <3>2. CASE ~Hint(u)
            BY <3>2 DEF UpdateUtilization, Request, LookUp, Scan, WriteFile, Reply
        <3> QED
            BY <3>1, <3>2
    <2>8. file'[Target(w)] = file[Target(w)]
        <3>1. CASE WriteFile(u)
            <4>1. Target(u) # Target(w)
                BY <1>0, <1>2, <2>4, <2>5, <3>1 DEF Stands, WriteFile, Step
            <4> QED
                BY <1>0, <3>1, <4>1 DEF WriteFile, TypeOK
        <3>2. CASE ~WriteFile(u)
            BY <3>2 DEF UpdateUtilization, Request, LookUp, Scan, Hint, Reply
        <3> QED
            BY <3>1, <3>2
    <2> QED
        BY <1>0, <1>1, <2>1, <2>2, <2>3, <2>4, <2>5, <2>6, <2>7, <2>8 DEF Stands
(* The call itself.                                                        *)
<1>3. CASE w = u
    <2> USE <1>0, <1>1, <1>3
    <2>1. CASE Request(u)
        <3>1. \A v \in Updates \ {u} :
                 upc'[v] = upc[v] /\ request'[v] = request[v]
            BY <2>1 DEF Request, Step, TypeOK
        <3>2. alone'[u] => \A v \in Updates \ {u} :
                              upc'[v] # "idle" => Target(v)' # Target(u)'
            BY <2>1, <3>1 DEF Request, Target
        <3>3. /\ upc[u] = "idle" /\ upc'[u] = "lookup"
              /\ UNCHANGED <<pgid, todo, pids, reply>>
            BY <2>1 DEF Request, Step, TypeOK
        <3> QED
            BY <3>2, <3>3 DEF Knows, Stands
    <2>2. CASE UpdateUtilization(u)
        <3>1. /\ upc[u] # "idle"
              /\ UNCHANGED alone
              /\ \A v \in Updates \ {u} : upc'[v] = upc[v]
            BY <2>2 DEF UpdateUtilization, LookUp, Scan, Hint, WriteFile,
                        Reply, Step, TypeOK
        <3>2. alone'[u] => \A v \in Updates \ {u} :
                              upc'[v] # "idle" => Target(v)' # Target(u)'
            BY <1>n, <2>2, <3>1 DEF Stands, Target
        <3>3. Target(u)' = Target(u)
            BY <1>n, <2>2 DEF Target
        <3>4. CASE LookUp(u)
            <4>1. /\ pgid'[u] = g_workspace_to_pgid[request[u].name]
                  /\ upc'[u] = IF pgid'[u] = NoTask THEN "hint" ELSE "scan"
                  /\ todo[u] = {} /\ pids[u] = {}
                  /\ UNCHANGED <<request, todo, pids>>
                BY <3>4 DEF LookUp, Step, Knows, TypeOK
            <4>2. pgid'[u] \in Tasks \cup {NoTask}
                BY <4>1 DEF TypeOK
            <4>3. pgid'[u] # NoTask => /\ home[pgid'[u]] = Target(u)
                                       /\ pc[pgid'[u]] \in {"monitor", "unregister"}
                <5>1. request[u].name \in Names
                    OBVIOUS
                <5>2. pgid'[u] # NoTask =>
                         /\ request[u].name = Key[home[pgid'[u]]]
                         /\ pc[pgid'[u]] \in {"monitor", "unregister"}
                    BY <4>1, <4>2, <5>1 DEF RegistryInv
                <5> QED
                    BY <4>2, <5>2, UtilizationAssumption DEF Target, TypeOK
            <4> QED
                BY <3>2, <3>3, <4>1, <4>3 DEF Knows, Stands
        <3>5. CASE Scan(u)
            <4>1. /\ upc[u] = "scan" /\ upc'[u] = "hint"
                  /\ todo'[u] = processes[pgid[u]]
                  /\ UNCHANGED <<request, pgid, pids>>
                  /\ pgid[u] # NoTask
                  /\ pids[u] = {}
                BY <3>5 DEF Scan, Step, Knows, TypeOK
            <4> QED
                BY <3>2, <3>3, <4>1 DEF Knows, Stands, ProcessInv
        <3>6. CASE Hint(u)
            <4>1. PICK p \in todo[u] :
                     /\ todo' = [todo EXCEPT ![u] = @ \ {p}]
                     /\ \/ /\ hint' = [hint EXCEPT ![pgid[u]][p] = request[u].value]
                           /\ pids' = [pids EXCEPT ![u] = @ \cup {p}]
                        \/ UNCHANGED <<hint, pids>>
                BY <3>6 DEF Hint
            <4>2. /\ upc[u] = "hint" /\ upc'[u] = "hint"
                  /\ UNCHANGED <<request, pgid>>
                  /\ pgid[u] \in Tasks
                BY <3>6, <4>1 DEF Hint, Step, Knows, TypeOK
            <4>3. /\ todo'[u] = todo[u] \ {p}
                  /\ pids'[u] \subseteq pids[u] \cup {p}
                BY <4>1 DEF TypeOK
            <4>4. Knows(u)'
                BY <3>3, <4>2, <4>3 DEF Knows
            <4>5. alone[u] => \A q \in pids'[u] :
                     q \in processes[pgid[u]] =>
                         hint'[pgid[u]][q] = request[u].value
                <5> SUFFICES ASSUME alone[u], NEW q \in pids'[u],
                                    q \in processes[pgid[u]]
                             PROVE  hint'[pgid[u]][q] = request[u].value
                    OBVIOUS
                <5>1. \A o \in pids[u] : o \in processes[pgid[u]] =>
                                            hint[pgid[u]][o] = request[u].value
                    BY <3>1 DEF Stands
                <5>2. CASE UNCHANGED <<hint, pids>>
                    BY <5>1, <5>2
                <5>3. CASE /\ hint' = [hint EXCEPT ![pgid[u]][p] = request[u].value]
                           /\ pids' = [pids EXCEPT ![u] = @ \cup {p}]
                    <6>1. /\ hint[pgid[u]] \in [Processes -> Setting]
                          /\ p \in Processes
                        BY <4>2 DEF TypeOK
                    <6>2. hint'[pgid[u]] = [hint[pgid[u]] EXCEPT ![p] = request[u].value]
                        BY <5>3, <4>2 DEF TypeOK
                    <6>3. q = p \/ (q \in pids[u] /\ q \in Processes)
                        BY <5>3 DEF TypeOK
                    <6> QED
                        BY <5>1, <6>1, <6>2, <6>3
                <5> QED
                    BY <4>1, <5>2, <5>3
            <4> QED
                BY <3>1, <3>2, <4>2, <4>4, <4>5 DEF Stands
        <3>7. CASE WriteFile(u)
            <4>1. /\ upc[u] = "hint" /\ upc'[u] = "reply"
                  /\ UNCHANGED <<request, pgid, todo, pids, hint>>
                BY <3>7 DEF WriteFile, Step, TypeOK
            <4>t. todo[u] = {}
                BY <3>7 DEF WriteFile
            <4>2. reply'[u] = "OK" =>
                     pids[u] # {} /\ file'[Target(u)] = request[u].value
                BY <3>7 DEF WriteFile, StatusOf, TypeOK
            <4>3. Knows(u)'
                BY <3>3, <4>1, <4>t DEF Knows
            <4>4. Stands(u)'
                BY <3>1, <3>2, <3>3, <4>1, <4>2 DEF Stands
            <4> QED
                BY <4>3, <4>4
        <3>8. CASE Reply(u)
            <4>1. /\ upc'[u] = "idle"
                  /\ pgid'[u] = NoTask
                  /\ pids'[u] = {}
                  /\ upc[u] = "reply"
                  /\ todo'[u] = todo[u]
                BY <3>8 DEF Reply, Step, TypeOK
            <4>2. Knows(u)'
                BY <4>1 DEF Knows
            <4>3. Stands(u)'
                BY <4>1 DEF Stands
            <4> QED
                BY <4>2, <4>3
        <3> QED
            BY <2>2, <3>4, <3>5, <3>6, <3>7, <3>8 DEF UpdateUtilization
    <2> QED
        BY <2>1, <2>2
<1> QED
    BY <1>2, <1>3

-----------------------------------------------------------------------------
(* The invariant is inductive.                                             *)
LEMMA StepIInv == IInv /\ [Next]_vars => IInv'
<1> SUFFICES ASSUME IInv, [Next]_vars PROVE IInv'
    OBVIOUS
<1> USE DEF IInv
<1>1. ASSUME NEW t \in Tasks,
             Submission(t) \/ Refill(t) \/ StartHelper(t) \/ Exit(t)
      PROVE  IInv'
    BY <1>1, SubmissionTypes, ProcessStep, RegistryStep, SubmissionKeepsCalls
<1>2. ASSUME NEW u \in Updates, Request(u) \/ UpdateUtilization(u)
      PROVE  IInv'
    BY <1>2, UpdateTypes, UpdateKeepsTasks, UpdateKeepsCalls
<1>3. CASE UNCHANGED vars
    <2> USE <1>3 DEF vars, taskVars, updateVars
    <2>1. TypeOK'
        BY DEF TypeOK
    <2>2. ProcessInv' /\ RegistryInv'
        BY DEF ProcessInv, RegistryInv
    <2>3. CallInv'
        BY DEF CallInv, Knows, Stands, Target
    <2> QED
        BY <2>1, <2>2, <2>3
<1> QED
    BY <1>1, <1>2, <1>3 DEF Next

LEMMA Invariance == Spec => []IInv
    BY InitIInv, StepIInv, PTL DEF Spec

-----------------------------------------------------------------------------
(* The variables keep their types, whatever fails and however the calls    *)
(* interleave.                                                             *)
THEOREM TypeCorrect == Spec => []TypeOK
<1>1. IInv => TypeOK
    BY DEF IInv
<1> QED
    BY <1>1, Invariance, PTL

(* The answer OK of UpdateUtilization (remote_service_implement.cc         *)
(* 440-467), for any number of submissions, updates and names: unless      *)
(* something else touched the task, the hints and the file are in place.   *)
THEOREM AcknowledgedUpdateHolds == Spec => []AcknowledgedHolds
<1>1. IInv => AcknowledgedHolds
    <2> SUFFICES ASSUME IInv, NEW u \in Updates,
                        upc[u] = "reply", reply[u] = "OK", alone[u]
                 PROVE  /\ pids[u] # {}
                        /\ \A p \in pids[u] : p \in processes[pgid[u]] =>
                               hint[pgid[u]][p] = request[u].value
                        /\ file[home[pgid[u]]] = request[u].value
        BY DEF AcknowledgedHolds
    <2>1. Knows(u) /\ Stands(u)
        BY DEF IInv, CallInv
    <2>2. /\ pids[u] # {}
          /\ \A p \in pids[u] : p \in processes[pgid[u]] =>
                 hint[pgid[u]][p] = request[u].value
          /\ file[Target(u)] = request[u].value
        BY <2>1 DEF Stands
    <2>3. home[pgid[u]] = Target(u)
        BY <2>1, <2>2 DEF Knows
    <2> QED
        BY <2>2, <2>3
<1> QED
    BY <1>1, Invariance, PTL
=============================================================================
