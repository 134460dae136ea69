---------------------------- MODULE Reservation ----------------------------
(***************************************************************************)
(* The three client programs around the upload:                            *)
(*   integrated_client  reserves at the resource controller, submits to    *)
(*                      the node it is given, and releases                 *)
(*                      (src/client/integrated_client.cc 293-584);         *)
(*   remote_client      submits to a server it is told (client.cc);        *)
(*   resource_client    only reserves, for the process it is told or for   *)
(*                      itself, and leaves (resource_client.cc);           *)
(* and a second client that changes the utilization while the command of   *)
(* the first one runs.  TaskSubmit and the server are those of Upload.     *)
(*                                                                         *)
(* The controller is not in the repository: it is a pool of reservations,  *)
(* changed by the calls the clients make of it.  A reservation is named by *)
(* the attempt of apply_resource that made it.                             *)
(***************************************************************************)
EXTENDS Upload

CONSTANTS
    Programs,       \* the clients that may be started
    MaxRetry,       \* ChannelOptions.max_retry
    CallFaults      \* what may go wrong outside the upload

Kinds == {"integrated_client", "remote_client", "resource_client"}

CallFaultKinds ==
    {"options",     \* an option is missing or out of range
     "directory",   \* the local directory cannot be listed or is empty
     "apply",       \* apply_resource: no answer, or an answer that is lost
     "noid",        \* the answer of apply_resource has no task_id
     "query",       \* query_resource fails, or names no node
     "release",     \* release_resource fails
     "hint",        \* xcli refuses some of the processes of the command
     "pool",        \* update_resource fails
     "signal"}      \* SIGTERM, or SIGINT outside TaskSubmit

ASSUME ReservationAssumption ==
    /\ Programs \subseteq Kinds
    /\ MaxRetry \in Nat
    /\ CallFaults \subseteq CallFaultKinds

VARIABLES
    program,        \* the client
    missing,        \* the option that is not given, or out of range, or NoOption
    stage,          \* where it stands
    attempts,       \* attempts of apply_resource it has given up
    task_id,        \* the reservation it knows of, or NoTask
    rc,             \* its exit code
    pool,           \* the controller's reservations
    updater,        \* the second client, and where it stands
    xsched_utilization, \* what the processes of the command run with, what
                        \* the pool counts
    why             \* history: what happened on the way

callVars == <<program, missing, stage, attempts, task_id, rc, pool, updater,
              xsched_utilization, why>>
allVars == <<vars, callVars>>

NoTask == 0
Attempt == attempts + 1

Stages == {"options", "prepare", "apply", "query", "target", "execute",
           "release", "exited"}

NoOption == "none"

Options == {"controller", "src_dir", "workspace_subdir", "command", "type",
            "numbers"}

(* What the three programs check before they do anything.  "numbers" are   *)
(* the options with a range: the count, the limits, the process, the       *)
(* utilization.                                                            *)
IntegratedChecks == {"command", "type", "numbers"}

RemoteChecks == {"workspace_subdir", "src_dir", "command", "numbers"}

ResourceChecks == {"controller", "type", "numbers"}

Checks == CASE program = "integrated_client" -> IntegratedChecks
            [] program = "remote_client"     -> RemoteChecks
            [] program = "resource_client"   -> ResourceChecks

(* What the first client asks for, and what the second one changes it to.  *)
Utilizations == {"old", "new"}

Integrated == program = "integrated_client"

ReservationInit ==
    /\ Init
    /\ program \in Programs
    /\ missing \in {NoOption} \cup
            IF "options" \notin CallFaults THEN {}
            ELSE Checks \cup IF Integrated THEN {"controller", "src_dir"} ELSE {}
    /\ stage = "options"
    /\ attempts = 0
    /\ task_id = NoTask
    /\ rc = "none"
    /\ pool = {}
    /\ updater = [program |-> "none", stage |-> "options", rc |-> "none"]
    /\ xsched_utilization = [runtime |-> {"old"}, pool |-> "old"]
    /\ why = {}

-----------------------------------------------------------------------------
(* The first client.                                                       *)

Enter(next) ==
    /\ stage' = next
    /\ UNCHANGED <<vars, program, missing, rc, updater, xsched_utilization>>

(* Every way out of main() but the end of the submission: return 1, or an  *)
(* exception that main() turns into it.                                    *)
GiveUp(reason) ==
    /\ stage' = "exited"
    /\ rc' = "1"
    /\ why' = why \cup {reason}
    /\ UNCHANGED <<vars, program, missing, attempts, task_id, updater,
                   xsched_utilization>>

(* ParseArguments, or LoadClientOptions and ValidateClientOptions.         *)
ParseArguments ==
    /\ stage = "options"
    /\ missing \notin Checks
    /\ Enter(IF program = "resource_client" THEN "apply" ELSE "prepare")
    /\ UNCHANGED <<attempts, task_id, pool, why>>

WrongArguments ==
    /\ stage = "options"
    /\ missing \in Checks
    /\ GiveUp("options")
    /\ UNCHANGED pool

(* CollectDirectoryFiles, ValidateUploadFiles, ComputeUploadStats.         *)
PrepareWorkspace ==
    /\ stage = "prepare"
    /\ missing # "src_dir"
    /\ Enter(IF Integrated THEN "apply" ELSE "execute")
    /\ UNCHANGED <<attempts, task_id, pool, why>>

NothingToUpload ==
    /\ stage = "prepare"
    /\ "directory" \in CallFaults \/ missing = "src_dir"
    /\ GiveUp("directory")
    /\ UNCHANGED pool

(* ApplyResourceAndGetAllocation: the controller reserves and answers.     *)
ApplyResource ==
    /\ stage = "apply"
    /\ missing # "controller"
    /\ pool' = pool \cup {Attempt}
    /\ \/ task_id' = Attempt /\ why' = why
       \/ "noid" \in CallFaults /\ task_id' = NoTask /\ why' = why \cup {"noid"}
    /\ Enter("query")
    /\ UNCHANGED attempts

(* The connection breaks before or after the controller has reserved: the  *)
(* channel sends the request again, max_retry times.                       *)
ApplyRetried ==
    /\ stage = "apply"
    /\ "apply" \in CallFaults
    /\ missing # "controller"
    /\ attempts < MaxRetry
    /\ attempts' = attempts + 1
    /\ \/ pool' = pool /\ why' = why
       \/ pool' = pool \cup {Attempt} /\ why' = why \cup {"lost"}
    /\ Enter("apply")
    /\ UNCHANGED task_id

(* No channel, a refusal, or no answer within timeout_ms, in which case    *)
(* the controller may have reserved all the same.                          *)
ApplyFails ==
    /\ stage = "apply"
    /\ \/ /\ "apply" \in CallFaults \/ missing = "controller"
          /\ pool' = pool
          /\ GiveUp("refused")
       \/ /\ "apply" \in CallFaults /\ missing # "controller"
          /\ pool' = pool \cup {Attempt}
          /\ GiveUp("lost")

QueryResource ==
    /\ stage = "query"
    /\ stage' = IF Integrated THEN "target" ELSE "exited"
    /\ rc' = IF Integrated THEN rc ELSE "0"
    /\ UNCHANGED <<vars, program, missing, attempts, task_id, pool, updater,
                   xsched_utilization, why>>

QueryFails ==
    /\ stage = "query"
    /\ "query" \in CallFaults
    /\ GiveUp("thrown")
    /\ UNCHANGED pool

FormatNodeTarget ==
    /\ stage = "target"
    /\ Enter("execute")
    /\ UNCHANGED <<attempts, task_id, pool, why>>

EmptyNodeIP ==
    /\ stage = "target"
    /\ "query" \in CallFaults
    /\ GiveUp("thrown")
    /\ UNCHANGED pool

(* ExecuteTask: TaskSubmit and what it returns.                            *)
Submit ==
    /\ stage = "execute"
    /\ TaskSubmit
    /\ UNCHANGED callVars

(* Mutant: the client does not wait for the end of the command.            *)
SubmitSent == cpc \in {"drain", "returned"}

SubmitReturned == cpc = "returned"

(* Mutant: a submission that failed ends the program.                      *)
AfterSuccess(status) ==
    IF Integrated /\ status = "OK" THEN "release" ELSE "exited"

AfterSubmit(status) == IF Integrated THEN "release" ELSE "exited"

ExecuteTask ==
    /\ stage = "execute"
    /\ SubmitReturned
    /\ stage' = AfterSubmit(report)
    /\ rc' = IF report = "OK" THEN "0" ELSE "1"
    /\ UNCHANGED <<vars, program, missing, attempts, task_id, pool, updater,
                   xsched_utilization, why>>

(* ReleaseResource: without a task_id there is nothing to call for.        *)
ReleaseResource ==
    /\ stage = "release"
    /\ pool' = IF task_id = NoTask THEN pool ELSE pool \ {task_id}
    /\ Enter("exited")
    /\ UNCHANGED <<attempts, task_id, why>>

(* It fails, before or after the controller has released: a warning.       *)
ReleaseFails ==
    /\ stage = "release"
    /\ "release" \in CallFaults
    /\ task_id # NoTask
    /\ pool' \in {pool, pool \ {task_id}}
    /\ Enter("exited")
    /\ why' = why \cup {"release"}
    /\ UNCHANGED <<attempts, task_id>>

(* SIGTERM is caught nowhere and SIGINT only inside TaskSubmit: the end of *)
(* the process is the end of its stream, and of nothing else.              *)
Killed ==
    /\ "signal" \in CallFaults
    /\ stage # "exited"
    /\ stage' = "exited"
    /\ rc' = "killed"
    /\ why' = why \cup {"killed"}
    /\ rpc_cancelled' = (rpc_cancelled \/ (stage = "execute" /\ cpc # "returned"))
    /\ UNCHANGED <<clientVars, requests, writes_done, serverVars, cut, program,
                   missing, attempts, task_id, pool, updater, xsched_utilization>>

-----------------------------------------------------------------------------
(* The second client: UpdateRunningTaskUtilization (513-532) of            *)
(* integrated_client, RunUpdateUtilization of remote_client.               *)

UpdaterEnds(code) == updater' = [updater EXCEPT !.stage = "exited", !.rc = code]

NotTheUpdate ==
    UNCHANGED <<vars, program, missing, stage, attempts, task_id, rc, pool>>

NoValueChanges == UNCHANGED <<xsched_utilization, why>>

(* The options name the workspace and, for integrated_client, the task.    *)
StartUpdate ==
    /\ updater.program = "none"
    /\ stage = "execute"
    /\ \/ /\ Integrated /\ task_id # NoTask
          /\ updater' = [updater EXCEPT !.program = "integrated_client",
                                        !.stage = "query"]
       \/ updater' = [updater EXCEPT !.program = "remote_client",
                                     !.stage = "server"]
    /\ NotTheUpdate
    /\ NoValueChanges

UpdateQuery ==
    /\ updater.stage = "query"
    /\ \/ task_id \in pool /\ updater' = [updater EXCEPT !.stage = "server"]
       \/ (task_id \notin pool \/ "query" \in CallFaults) /\ UpdaterEnds("1")
    /\ NotTheUpdate
    /\ NoValueChanges

(* The server takes the update while the command is registered, and says   *)
(* OK when one of the hints has been taken (181-197 of                     *)
(* task_runtime_control.cc); with all hints taken it may still fail, to    *)
(* write the file or to answer.                                            *)
Hinted(values) == xsched_utilization' = [xsched_utilization EXCEPT !.runtime = values]

Registered == spc = "execute" /\ command # "none"

UpdateTaken ==
    IF updater.program = "integrated_client"
    THEN updater' = [updater EXCEPT !.stage = "pool"]
    ELSE UpdaterEnds("0")

UpdateUtilization ==
    /\ updater.stage = "server"
    /\ \/ Registered /\ UpdateTaken /\ Hinted({"new"}) /\ why' = why
       \/ /\ "hint" \in CallFaults
          /\ Registered
          /\ UpdateTaken
          /\ Hinted(xsched_utilization.runtime \cup {"new"})
          /\ why' = why \cup {"partial"}
       \/ /\ UpdaterEnds("1")
          /\ \/ Hinted(xsched_utilization.runtime)
             \/ Registered /\ Hinted(xsched_utilization.runtime \cup {"new"})
             \/ Registered /\ Hinted({"new"})
          /\ why' = why
    /\ NotTheUpdate

(* A process of the command takes the value of the submission although the *)
(* update is over: the child has yet to write the file and to set its      *)
(* environment when it is registered (139-178, 279 of task_executor.cc),   *)
(* and a process started later has that environment.                       *)
ConfiguresAnew ==
    /\ command = "running"
    /\ "old" \notin xsched_utilization.runtime
    /\ Hinted(xsched_utilization.runtime \cup {"old"})
    /\ why' = why \cup {"configured"}
    /\ UNCHANGED updater
    /\ NotTheUpdate

(* Mutant: the answer of the controller is not looked at.                  *)
ExitZero(accepted) == "0"

ExitCode(accepted) == IF accepted THEN "0" ELSE "1"

(* UpdateResourceUtilization: what the controller has refused or not       *)
(* answered is not taken back at the server.                               *)
UpdateResourceUtilization ==
    /\ updater.stage = "pool"
    /\ \/ /\ task_id \in pool
          /\ xsched_utilization' = [xsched_utilization EXCEPT !.pool = "new"]
          /\ UpdaterEnds(ExitCode(TRUE))
       \/ /\ task_id \notin pool \/ "pool" \in CallFaults
          /\ UNCHANGED xsched_utilization
          /\ UpdaterEnds(ExitCode(FALSE))
    /\ why' = why
    /\ NotTheUpdate

-----------------------------------------------------------------------------
(* RunIntegratedClient, RunClient and RunResourceClient.                   *)
RunClient ==
    \/ ParseArguments
    \/ WrongArguments
    \/ PrepareWorkspace
    \/ NothingToUpload
    \/ ApplyResource
    \/ ApplyFails
    \/ QueryResource
    \/ FormatNodeTarget
    \/ Submit
    \/ ExecuteTask
    \/ ReleaseResource

RunUpdate ==
    \/ StartUpdate
    \/ UpdateQuery
    \/ UpdateUtilization
    \/ UpdateResourceUtilization

ServerSession == Session /\ UNCHANGED callVars

ClientFault ==
    \/ ApplyRetried
    \/ QueryFails
    \/ EmptyNodeIP
    \/ ReleaseFails
    \/ Killed

(* The faults of the upload, and the flushes of the server's stream.       *)
UploadFault ==
    /\ \/ stage = "execute" /\ (OpenFails \/ ReadFails \/ Cancel)
       \/ HandleFails
       \/ ExecuteLeavesCommand
       \/ FlushBuffer
    /\ UNCHANGED callVars

ReservationNext ==
    \/ RunClient
    \/ RunUpdate
    \/ ConfiguresAnew
    \/ ServerSession
    \/ ClientFault
    \/ UploadFault

ReservationSpec == ReservationInit /\ [][ReservationNext]_allVars

(* The client and the server are scheduled, the controller answers or the  *)
(* call times out, and the command ends.                                   *)
FairReservationSpec ==
    ReservationSpec /\ WF_allVars(RunClient) /\ WF_allVars(ServerSession)

-----------------------------------------------------------------------------
ReservationTypeOK ==
    /\ TypeOK
    /\ program \in Kinds
    /\ missing \in Options \cup {NoOption}
    /\ stage \in Stages
    /\ attempts \in 0..MaxRetry
    /\ task_id \in 0..(MaxRetry + 1)
    /\ rc \in {"none", "0", "1", "killed"}
    /\ pool \subseteq 1..(MaxRetry + 1)
    /\ updater \in [program : Kinds \cup {"none"}, rc : {"none", "0", "1"},
                    stage : {"options", "query", "server", "pool", "exited"}]
    /\ xsched_utilization \in [runtime : SUBSET Utilizations, pool : Utilizations]
    /\ why \subseteq CallFaultKinds \cup
            {"lost", "refused", "thrown", "killed", "partial", "configured"}

(* While the command of integrated_client runs its reservation is in the   *)
(* pool, but for two cases: the call was cancelled, and then the server is *)
(* about to stop the command; or the handler has returned before the       *)
(* command, in some other way than by a cancellation, and then nobody      *)
(* stops it on a node that may be given to somebody else.                  *)
RunsUnderReservation ==
    (command = "running" /\ Integrated /\ task_id # NoTask) =>
        \/ task_id \in pool
        \/ IF spc = "returned" THEN server_status # "CANCELLED"
                               ELSE rpc_cancelled

(* integrated_client gives its reservation back whatever becomes of the    *)
(* upload and the command.  What it leaves behind has one of these         *)
(* reasons: an exception between apply_resource and TaskSubmit, a signal   *)
(* that is not caught, a release that failed; and reservations nobody      *)
(* knows of come from an answer of apply_resource that was lost or bare.   *)
ReservationReturned ==
    (Integrated /\ stage = "exited") =>
        /\ task_id \in pool => why \cap {"thrown", "killed", "release"} # {}
        /\ pool \subseteq {task_id} \/ why \cap {"lost", "noid"} # {}

(* A process of the command and the pool disagree about the utilization    *)
(* only while an update is under way, after one that said it failed, when  *)
(* it went to the server alone, or when the OK of the server did not speak *)
(* for all processes (some hints were refused), or not for long (a process *)
(* took the value of the submission afterwards).  And an update that       *)
(* integrated_client calls a success has reached both.                     *)
UtilizationAccounted ==
    /\ xsched_utilization.runtime # {xsched_utilization.pool} =>
          \/ updater.program = "remote_client"
          \/ updater.stage = "pool"
          \/ updater.rc = "1"
          \/ why \cap {"partial", "configured"} # {}
    /\ (updater.program = "integrated_client" /\ updater.rc = "0") =>
          /\ xsched_utilization.pool = "new"
          /\ "new" \in xsched_utilization.runtime

(* Every client ends, whatever the controller, the server and the stream   *)
(* do: no wait of the one depends on a step the other no longer makes.     *)
EveryClientEnds == <>(stage = "exited")
=============================================================================
