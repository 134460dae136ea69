----------------------------- MODULE DpuDriver -----------------------------
(***************************************************************************)
(* The three programs that launch kernels on the DPA (src/application):    *)
(*   "dpu_ts"  launches for a time, within a window of kernels in flight,  *)
(*             and may ask xsched for a token before each launch;          *)
(*   "high"    launches a number of tasks;                                 *)
(*   "low"     does, too, and may hold them in batches behind a gate.      *)
(* Each has a main thread that launches, a worker that waits for the       *)
(* completions in the order of the launches, possibly a heartbeat thread,  *)
(* and handlers of SIGINT and SIGTERM that set a flag.                     *)
(*                                                                         *)
(* Modelled are dpa_kernel_launch_main.c, dpa_kernel_launch_sample.c and   *)
(* the part of dpa_common.c they use (three equal copies).  DOCA is        *)
(* external: kernels run one after the other, a kernel with a threshold    *)
(* waits until the value of wait_event is above it, and each sets          *)
(* comp_event when it ends.  A step is the code between two points at      *)
(* which another thread, a signal or the device makes a difference.        *)
(***************************************************************************)
EXTENDS Naturals, Sequences

CONSTANTS
    Setups,     \* what the environment variables say
    Faults      \* what may go wrong, see FaultKinds

FaultKinds ==
    {"argp", "device", "event", "thread", "launch", "update", "wait",
     "destroy", "stop"}

ASSUME DpuDriverAssumption ==
    /\ \A s \in Setups :
          /\ s.program \in {"dpu_ts", "low", "high"}
          /\ s.tasks \in Nat          \* "dpu_ts": a bound on the launches
          /\ s.inflight \in Nat
          /\ s.batch \in Nat /\ (s.batch # 0 => s.program = "low")
          /\ {s.drain, s.heartbeat, s.warmup, s.token} \subseteq BOOLEAN
    /\ Faults \subseteq FaultKinds

VARIABLES
    setup,
    main,               \* where the main thread stands
    worker,             \* where completion_worker stands
    heartbeat,          \* where heartbeat_worker stands
    worker_ctx,         \* what the threads share, under a mutex
    g_stop_requested,
    gate,               \* the value of wait_event, the threshold, the batch
    launched,           \* the thresholds of the kernels launched
    done,               \* how many of them have ended
    phase,              \* "dpu_ts": the warm-up or the measurement
    window,             \* "dpu_ts": the counters of the measurement
    xqueue_handle,      \* "dpu_ts": the handle of xsched has been found
    result,             \* what kernel_launch returns
    exit_status,
    object,             \* the objects of DOCA
    failed,             \* history: what has gone wrong
    asked,              \* history: what became of a stop signal
    late                \* history: kernels launched after it

launchVars == <<worker_ctx, gate, launched>>
measureVars == <<phase, window, xqueue_handle>>
outcomeVars == <<result, exit_status, failed>>
signalVars == <<g_stop_requested, asked>>
vars == <<setup, main, worker, heartbeat, launchVars, done, measureVars,
          outcomeVars, signalVars, object, late>>

Objects == {"argp", "doca_device", "doca_dpa", "wait_event", "comp_event"}

(* Mutant: the room is not raised to the size of a batch.                  *)
MaxInflightAsGiven(s) == IF s.inflight = 0 THEN 1 ELSE s.inflight

MaxInflight(s) ==
    LET given == IF s.inflight = 0 THEN 1 ELSE s.inflight
    IN IF given < s.batch THEN s.batch ELSE given

Timed == setup.program = "dpu_ts"
Gated == setup.batch # 0
FirstThreshold == 4
Unlimited == FirstThreshold + 2 * (setup.tasks + 1)     \* UINT64_MAX

InFlight == worker_ctx.ready - worker_ctx.completed
WorkerFailed == worker_ctx.worker_result = "error"

NoWindow == [base_completed |-> 0, base_submitted |-> 0,
             completed |-> 0, submitted |-> 0]

Init ==
    /\ setup \in Setups
    /\ main = "argp_init"
    /\ worker = "none"
    /\ heartbeat = "undeclared"
    /\ worker_ctx = [ready |-> 0, completed |-> 0, accepting |-> TRUE,
                     worker_result |-> "OK"]
    /\ g_stop_requested = FALSE
    /\ gate = [value |-> 0, wait_val |-> FirstThreshold, in_batch |-> 0]
    /\ launched = <<>>
    /\ done = 0
    /\ phase = IF setup.warmup THEN "warmup" ELSE "measure"
    /\ window = NoWindow
    /\ xqueue_handle = FALSE
    /\ result = "OK"
    /\ exit_status = "none"
    /\ object = [o \in Objects |-> "none"]
    /\ failed = {}
    /\ asked = "no"
    /\ late = 0

-----------------------------------------------------------------------------
(* What the steps of the main thread leave alone.                          *)

Go(from, to) ==
    /\ main = from
    /\ main' = to
    /\ UNCHANGED <<setup, done>>

Quiet == UNCHANGED <<worker, heartbeat, launchVars, measureVars, signalVars,
                     late>>

Fault(kind) == kind \in Faults /\ failed' = failed \cup {kind}

GivesUp(kind) ==
    /\ Fault(kind)
    /\ result' = "error"
    /\ UNCHANGED exit_status

(* Destroying an object a second time is an error of the caller.           *)
Destroyed(o) == IF object[o] = "none" THEN "none"
                ELSE IF object[o] = "live" THEN "destroyed" ELSE "twice"

-----------------------------------------------------------------------------
(* main(): the options, the device and its context.                        *)

ArgpInit ==
    /\ \/ /\ Go("argp_init", "device")
          /\ object' = [object EXCEPT !["argp"] = "live"]
          /\ UNCHANGED outcomeVars
       \/ /\ Go("argp_init", "exit")
          /\ GivesUp("argp")
          /\ UNCHANGED object
       \/ /\ Go("argp_init", "argp_cleanup")
          /\ object' = [object EXCEPT !["argp"] = "live"]
          /\ GivesUp("argp")
    /\ Quiet

(* allocate_dpa_resources undoes what it has done.                         *)
AllocateResources ==
    /\ \/ /\ Go("device", "install")
          /\ object' = [object EXCEPT !["doca_device"] = "live",
                                      !["doca_dpa"] = "live"]
          /\ UNCHANGED outcomeVars
       \/ /\ Go("device", "argp_cleanup")
          /\ \E opened \in {{}, {"doca_device"}, {"doca_device", "doca_dpa"}} :
                object' = [o \in Objects |->
                              IF o \in opened THEN "destroyed" ELSE object[o]]
          /\ GivesUp("device")
    /\ Quiet

-----------------------------------------------------------------------------
(* kernel_launch: signals, events, threads.                                *)

InstallHandlers ==
    /\ Go("install", "reset")
    /\ Quiet
    /\ UNCHANGED <<outcomeVars, object>>

(* A stop signal that arrives between the two statements is forgotten.     *)
ResetStop ==
    /\ Go("reset", IF Timed THEN "comp_event" ELSE "wait_event")
    /\ g_stop_requested' = FALSE
    /\ asked' = IF g_stop_requested THEN "lost" ELSE asked
    /\ UNCHANGED <<worker, heartbeat, launchVars, measureVars, late,
                   outcomeVars, object>>

(* create_doca_dpa_wait_sync_event.  When an event has been created and    *)
(* cannot be set up, it is destroyed, and the caller keeps the pointer.    *)
CreateEvent(o, next) ==
    \/ /\ Go(o, next)
       /\ object' = [object EXCEPT ![o] = "live"]
       /\ UNCHANGED outcomeVars
    \/ /\ Go(o, "cleanup")
       /\ object' \in {object, [object EXCEPT ![o] = "destroyed"]}
       /\ GivesUp("event")

CreateWaitEvent == CreateEvent("wait_event", "comp_event") /\ Quiet

CreateCompletionEvent == CreateEvent("comp_event", "threads") /\ Quiet

Start == IF ~Timed THEN "loop"
         ELSE IF setup.token THEN "discover"
         ELSE IF setup.warmup THEN "loop" ELSE "base"

StartThreads ==
    /\ \/ /\ Go("threads", Start)
          /\ worker' = "idle"
          /\ heartbeat' \in IF ~setup.heartbeat THEN {"none"}
                            ELSE {"beat"} \cup
                                 {"none" : kind \in Faults \cap {"thread"}}
          /\ UNCHANGED outcomeVars
       \/ /\ Go("threads", "cleanup")
          /\ GivesUp("thread")
          /\ UNCHANGED <<worker, heartbeat>>
    /\ UNCHANGED <<launchVars, measureVars, signalVars, late, object>>

(* The handler of SIGINT and SIGTERM, while it is installed.               *)
HandleStopSignal ==
    /\ "stop" \in Faults
    /\ main \notin {"argp_init", "device", "install", "join",
                    "join_heartbeat", "destroy", "dpa_cleanup",
                    "argp_cleanup", "exit", "exited", "crashed"}
    /\ asked = "no"
    /\ g_stop_requested' = TRUE
    /\ asked' = "heard"
    /\ UNCHANGED <<setup, main, worker, heartbeat, launchVars, done,
                   measureVars, outcomeVars, object, late>>

-----------------------------------------------------------------------------
(* The worker: completions in the order of the launches.                   *)

(* The mutex is held while dpu_ts polls for a token.                       *)
MutexFree == main # "tokens"

WorkerOnly == UNCHANGED <<setup, main, heartbeat, gate, launched, done,
                          measureVars, result, exit_status, signalVars,
                          object, late>>

WorkerTakes ==
    /\ worker = "idle"
    /\ MutexFree
    /\ worker_ctx.completed < worker_ctx.ready
    /\ worker' = "wait"
    /\ WorkerOnly
    /\ UNCHANGED <<worker_ctx, failed>>

WorkerEnds ==
    /\ worker = "idle"
    /\ MutexFree
    /\ worker_ctx.completed = worker_ctx.ready
    /\ ~worker_ctx.accepting
    /\ worker' = "ended"
    /\ WorkerOnly
    /\ UNCHANGED <<worker_ctx, failed>>

(* doca_sync_event_wait_gt returns: kernel completed + 1 has ended.        *)
WorkerWakes ==
    /\ worker = "wait"
    /\ done > worker_ctx.completed
    /\ worker' = "report"
    /\ WorkerOnly
    /\ UNCHANGED <<worker_ctx, failed>>

WorkerReports ==
    /\ worker = "report"
    /\ MutexFree
    /\ worker_ctx' = [worker_ctx EXCEPT !.completed = @ + 1]
    /\ worker' = "idle"
    /\ WorkerOnly
    /\ UNCHANGED failed

WaitFails ==
    /\ worker = "wait"
    /\ MutexFree
    /\ Fault("wait")
    /\ worker_ctx' = [worker_ctx EXCEPT !.worker_result = "error",
                                        !.accepting = FALSE]
    /\ worker' = "ended"
    /\ WorkerOnly

AllCompleted == worker_ctx.completed >= setup.tasks /\ ~worker_ctx.accepting

HeartbeatEnds ==
    /\ heartbeat = "beat"
    /\ g_stop_requested \/ AllCompleted
    /\ heartbeat' = "ended"
    /\ UNCHANGED <<setup, main, worker, launchVars, done, measureVars,
                   outcomeVars, signalVars, object, late>>

-----------------------------------------------------------------------------
(* The device.                                                             *)

Open(threshold) == Timed \/ gate.value > threshold

KernelEnds ==
    /\ done < Len(launched)
    /\ Open(launched[done + 1])
    /\ object["comp_event"] = "live"
    /\ done' = done + 1
    /\ UNCHANGED <<setup, main, worker, heartbeat, launchVars, measureVars,
                   outcomeVars, signalVars, object, late>>

Launch(threshold) ==
    /\ launched' = Append(launched, threshold)
    /\ late' = late + IF g_stop_requested THEN 1 ELSE 0

-----------------------------------------------------------------------------
(* dpu_ts: drive_for_duration.  TimeUp is the deadline, which may pass at  *)
(* any moment.                                                             *)

AfterDrive == IF phase = "warmup" THEN "drain" ELSE "counters"

DriveOnly == UNCHANGED <<worker, heartbeat, gate, phase, window, signalVars,
                         object>>

DriveStops ==
    /\ Timed
    /\ g_stop_requested
    /\ Go("loop", AfterDrive)
    /\ DriveOnly
    /\ UNCHANGED <<worker_ctx, launched, late, xqueue_handle, outcomeVars>>

DriveContinues ==
    /\ Timed
    /\ ~g_stop_requested
    /\ Go("loop", "room")
    /\ DriveOnly
    /\ UNCHANGED <<worker_ctx, launched, late, xqueue_handle, outcomeVars>>

(* What ends the wait for room in the pipeline.                            *)
HasRoom ==
    \/ InFlight < MaxInflight(setup)
    \/ WorkerFailed
    \/ g_stop_requested

RoomWorkerFailed ==
    /\ HasRoom
    /\ WorkerFailed
    /\ Go("room", "cleanup")
    /\ result' = "error"
    /\ Quiet
    /\ UNCHANGED <<exit_status, failed, object>>

TimeUp ==
    /\ Timed
    /\ main = "room" => HasRoom /\ ~WorkerFailed
    /\ \E from \in {"room", "tokens"} : Go(from, AfterDrive)
    /\ DriveOnly
    /\ UNCHANGED <<worker_ctx, launched, late, xqueue_handle, outcomeVars>>

Submit ==
    /\ worker_ctx.ready < setup.tasks
    /\ worker_ctx' = [worker_ctx EXCEPT !.ready = @ + 1]

DriveRoom ==
    /\ Timed
    /\ HasRoom
    /\ ~WorkerFailed
    /\ IF setup.token /\ xqueue_handle
       THEN Go("room", "tokens") /\ UNCHANGED worker_ctx
       ELSE Go("room", "launch") /\ Submit
    /\ DriveOnly
    /\ UNCHANGED <<launched, late, xqueue_handle, outcomeVars>>

(* XQueueTryAcquireTokens succeeds, perhaps never; a stop ends the polls.  *)
TokenAcquired ==
    /\ ~g_stop_requested
    /\ Go("tokens", "launch")
    /\ Submit
    /\ DriveOnly
    /\ UNCHANGED <<launched, late, xqueue_handle, outcomeVars>>

TokenStop ==
    /\ g_stop_requested
    /\ Go("tokens", AfterDrive)
    /\ DriveOnly
    /\ UNCHANGED <<worker_ctx, launched, late, xqueue_handle, outcomeVars>>

SubmitShortKernel ==
    /\ Timed
    /\ \/ /\ Go("launch", "loop")
          /\ Launch(0)
          /\ UNCHANGED outcomeVars
          /\ xqueue_handle' \in {xqueue_handle, setup.token}
       \/ /\ Go("launch", "cleanup")
          /\ GivesUp("launch")
          /\ UNCHANGED <<launched, late, xqueue_handle>>
    /\ DriveOnly
    /\ UNCHANGED worker_ctx

DiscoverXQueue ==
    /\ Go("discover", IF setup.warmup THEN "loop" ELSE "base")
    /\ xqueue_handle' \in BOOLEAN
    /\ DriveOnly
    /\ UNCHANGED <<worker_ctx, launched, late, outcomeVars>>

-----------------------------------------------------------------------------
(* Waiting for all kernels launched so far: drain_to_target, and the       *)
(* drain of a batch.                                                       *)

(* Mutant: the kernels are not waited for.                                 *)
DrainedAtOnce == TRUE

Drained ==
    \/ worker_ctx.completed >= worker_ctx.ready
    \/ WorkerFailed
    \/ g_stop_requested

DrainToTarget ==
    /\ Timed
    /\ Drained
    /\ Go("drain", IF WorkerFailed THEN "cleanup" ELSE "base")
    /\ result' = worker_ctx.worker_result
    /\ Quiet
    /\ UNCHANGED <<exit_status, failed, object>>

TakeBase ==
    /\ Go("base", "loop")
    /\ window' = [window EXCEPT !.base_completed = worker_ctx.completed,
                                !.base_submitted = worker_ctx.ready]
    /\ phase' = "measure"
    /\ UNCHANGED <<worker, heartbeat, launchVars, xqueue_handle, signalVars,
                   late, outcomeVars, object>>

TakeCounters ==
    /\ Go("counters", "cleanup")
    /\ window' = [window EXCEPT !.completed = worker_ctx.completed,
                                !.submitted = worker_ctx.ready]
    /\ phase' = "measured"
    /\ UNCHANGED <<worker, heartbeat, launchVars, xqueue_handle, signalVars,
                   late, outcomeVars, object>>

-----------------------------------------------------------------------------
(* low and high: the loop over the tasks.                                  *)

(* Mutant: the flag is looked at only while waiting for room.              *)
NoMoreTasks == Len(launched) = setup.tasks

LoopEnds == g_stop_requested \/ Len(launched) = setup.tasks

TaskOnly == UNCHANGED <<worker, heartbeat, measureVars, signalVars, object>>

NextTask ==
    /\ ~Timed
    /\ Go("loop", IF LoopEnds THEN "tail" ELSE "room")
    /\ TaskOnly
    /\ UNCHANGED <<launchVars, late, outcomeVars>>

RoomForTask ==
    /\ ~Timed
    /\ HasRoom
    /\ ~WorkerFailed
    /\ Go("room", IF LoopEnds THEN "tail" ELSE "launch")
    /\ TaskOnly
    /\ UNCHANGED <<launchVars, late, outcomeVars>>

LaunchTask ==
    /\ ~Timed
    /\ \/ /\ Go("launch", IF Gated THEN "record" ELSE "set")
          /\ Launch(IF Gated THEN gate.wait_val ELSE FirstThreshold)
          /\ UNCHANGED outcomeVars
       \/ /\ Go("launch", "cleanup")
          /\ GivesUp("launch")
          /\ UNCHANGED <<launched, late>>
    /\ TaskOnly
    /\ UNCHANGED <<worker_ctx, gate>>

(* Without a gate wait_event is set beyond the threshold at each launch.   *)
SetWaitEvent ==
    /\ \/ /\ Go("set", "record")
          /\ gate' = [gate EXCEPT !.value = FirstThreshold + 1]
          /\ UNCHANGED outcomeVars
       \/ /\ Go("set", "cleanup")
          /\ GivesUp("update")
          /\ UNCHANGED gate
    /\ TaskOnly
    /\ UNCHANGED <<worker_ctx, launched, late>>

(* Mutant: one task too late.                                              *)
BatchOverfull == Gated /\ gate.in_batch + 1 > setup.batch

BatchFull == Gated /\ gate.in_batch + 1 >= setup.batch

Record ==
    /\ Go("record", IF BatchFull THEN "gate" ELSE "loop")
    /\ worker_ctx' = [worker_ctx EXCEPT !.ready = @ + 1]
    /\ gate' = [gate EXCEPT !.in_batch = IF Gated THEN @ + 1 ELSE @]
    /\ TaskOnly
    /\ UNCHANGED <<launched, late, outcomeVars>>

(* Mutant: the next batch gets the threshold of this one.                  *)
SameThreshold == gate.wait_val

NextThreshold == gate.wait_val + 2

(* Mutant: a stop leaves the gate as it is.                                *)
ValueAtStopKept == gate.value

ValueAtStop == Unlimited

(* On a stop the gate is opened for good; whether that worked is not       *)
(* looked at.                                                              *)
OpenForGood ==
    /\ \/ gate' = [gate EXCEPT !.value = ValueAtStop] /\ UNCHANGED failed
       \/ Fault("update") /\ UNCHANGED gate
    /\ UNCHANGED <<result, exit_status>>

OpenGate ==
    /\ \/ /\ g_stop_requested
          /\ Go("gate", "cleanup")
          /\ OpenForGood
       \/ /\ ~g_stop_requested
          /\ Go("gate", IF setup.drain THEN "drain" ELSE "loop")
          /\ gate' = [value |-> gate.wait_val + 1, wait_val |-> NextThreshold,
                      in_batch |-> 0]
          /\ UNCHANGED outcomeVars
       \/ /\ Go("gate", "cleanup")
          /\ GivesUp("update")
          /\ UNCHANGED gate
    /\ TaskOnly
    /\ UNCHANGED <<worker_ctx, launched, late>>

(* The drain of a batch, or of the last kernels, which leave in_batch.     *)
DrainBatch ==
    /\ ~Timed
    /\ Drained
    /\ \/ g_stop_requested /\ Go("drain", "cleanup") /\ OpenForGood
       \/ /\ ~g_stop_requested /\ WorkerFailed
          /\ Go("drain", "cleanup")
          /\ result' = "error"
          /\ UNCHANGED <<gate, exit_status, failed>>
       \/ /\ ~g_stop_requested /\ ~WorkerFailed
          /\ Go("drain", IF gate.in_batch = 0 THEN "loop" ELSE "finish")
          /\ UNCHANGED <<gate, outcomeVars>>
    /\ TaskOnly
    /\ UNCHANGED <<worker_ctx, launched, late>>

(* After the loop: the gate of a batch that is not full.                   *)
LastBatch ==
    /\ \/ /\ ~Gated \/ gate.in_batch = 0
          /\ Go("tail", "finish")
          /\ UNCHANGED <<gate, outcomeVars>>
       \/ /\ Gated /\ gate.in_batch # 0
          /\ \/ g_stop_requested /\ Go("tail", "cleanup") /\ OpenForGood
             \/ /\ ~g_stop_requested
                /\ Go("tail", IF setup.drain THEN "drain" ELSE "finish")
                /\ gate' = [gate EXCEPT !.value = gate.wait_val + 1]
                /\ UNCHANGED outcomeVars
             \/ /\ Go("tail", "cleanup")
                /\ GivesUp("update")
                /\ UNCHANGED gate
    /\ TaskOnly
    /\ UNCHANGED <<worker_ctx, launched, late>>

NoMoreRecords ==
    /\ Go("finish", "cleanup")
    /\ worker_ctx' = [worker_ctx EXCEPT !.accepting = FALSE]
    /\ TaskOnly
    /\ UNCHANGED <<gate, launched, late, outcomeVars>>

-----------------------------------------------------------------------------
(* cleanup: of kernel_launch, and the end of main().                       *)

Cleanup ==
    /\ Go("cleanup", "join")
    /\ worker_ctx' = [worker_ctx EXCEPT !.accepting = FALSE]
    /\ UNCHANGED <<worker, heartbeat, gate, launched, measureVars, signalVars,
                   late, outcomeVars, object>>

(* Mutant: the worker is not joined.                                       *)
WorkerLeft == TRUE

WorkerGone == worker \in {"none", "ended"}

JoinWorker ==
    /\ WorkerGone
    /\ Go("join", IF Timed THEN "destroy" ELSE "join_heartbeat")
    /\ Quiet
    /\ UNCHANGED <<outcomeVars, object>>

(* Mutant: an error of the worker after the last look at it is dropped.    *)
ResultAsItIs == result

FinalResult == IF WorkerFailed THEN "error" ELSE result

(* An early goto jumps over the declaration of heartbeat_started, which is *)
(* read all the same: whatever it then holds.                              *)
JoinHeartbeat ==
    /\ heartbeat # "beat"
    /\ \/ Go("join_heartbeat", "destroy")
       \/ heartbeat = "undeclared" /\ Go("join_heartbeat", "crashed")
    /\ result' = FinalResult
    /\ Quiet
    /\ UNCHANGED <<exit_status, failed, object>>

DestroyEvents ==
    /\ Go("destroy", "dpa_cleanup")
    /\ object' = [o \in Objects |->
                     IF o \in {"comp_event", "wait_event"} THEN Destroyed(o)
                     ELSE object[o]]
    /\ Quiet
    /\ UNCHANGED outcomeVars

ExitStatus(ok) == IF ok THEN "success" ELSE "failure"

DestroyResources ==
    /\ Go("dpa_cleanup", "argp_cleanup")
    /\ object' = [o \in Objects |->
                     IF o \in {"doca_dpa", "doca_device"} THEN Destroyed(o)
                     ELSE object[o]]
    /\ \/ result' = result /\ failed' = failed
       \/ Fault("destroy") /\ result' = "error"
    /\ Quiet
    /\ UNCHANGED exit_status

ArgpDestroy ==
    /\ Go("argp_cleanup", "exit")
    /\ object' = [object EXCEPT !["argp"] = Destroyed("argp")]
    /\ Quiet
    /\ UNCHANGED outcomeVars

Exit ==
    /\ Go("exit", "exited")
    /\ exit_status' = ExitStatus(result = "OK")
    /\ Quiet
    /\ UNCHANGED <<result, failed, object>>

-----------------------------------------------------------------------------
SetUp ==
    \/ ArgpInit
    \/ AllocateResources
    \/ InstallHandlers
    \/ ResetStop
    \/ CreateWaitEvent
    \/ CreateCompletionEvent
    \/ StartThreads

DriveForDuration ==
    \/ DiscoverXQueue
    \/ DriveStops
    \/ DriveContinues
    \/ DriveRoom
    \/ TokenStop
    \/ SubmitShortKernel
    \/ DrainToTarget
    \/ TakeBase
    \/ TakeCounters

RunTasks ==
    \/ NextTask
    \/ RoomForTask
    \/ LaunchTask
    \/ SetWaitEvent
    \/ Record
    \/ OpenGate
    \/ DrainBatch
    \/ LastBatch
    \/ NoMoreRecords

TearDown ==
    \/ Cleanup
    \/ JoinWorker
    \/ JoinHeartbeat
    \/ DestroyEvents
    \/ DestroyResources
    \/ ArgpDestroy
    \/ Exit

KernelLaunch ==
    \/ SetUp
    \/ DriveForDuration
    \/ RoomWorkerFailed
    \/ RunTasks
    \/ TearDown

CompletionWorker ==
    \/ WorkerTakes
    \/ WorkerEnds
    \/ WorkerWakes
    \/ WorkerReports

Next ==
    \/ KernelLaunch
    \/ TimeUp
    \/ TokenAcquired
    \/ CompletionWorker
    \/ WaitFails
    \/ HeartbeatEnds
    \/ KernelEnds
    \/ HandleStopSignal

Spec == Init /\ [][Next]_vars

(* Threads are scheduled, kernels that may run end, and time passes.  No   *)
(* token need ever be granted.                                             *)
FairSpec ==
    /\ Spec
    /\ WF_vars(KernelLaunch)
    /\ WF_vars(TimeUp)
    /\ WF_vars(CompletionWorker)
    /\ WF_vars(HeartbeatEnds)
    /\ WF_vars(KernelEnds)

-----------------------------------------------------------------------------
Places ==
    {"argp_init", "device", "install", "reset", "wait_event", "comp_event",
     "threads", "discover", "loop", "room", "tokens", "launch", "set",
     "record", "gate", "drain", "base", "counters", "tail", "finish",
     "cleanup", "join", "join_heartbeat", "destroy", "dpa_cleanup",
     "argp_cleanup", "exit", "exited", "crashed"}

TypeOK ==
    /\ setup \in Setups
    /\ main \in Places
    /\ worker \in {"none", "idle", "wait", "report", "ended"}
    /\ heartbeat \in {"undeclared", "none", "beat", "ended"}
    /\ worker_ctx \in [ready : 0..setup.tasks, completed : 0..setup.tasks,
                       accepting : BOOLEAN, worker_result : {"OK", "error"}]
    /\ g_stop_requested \in BOOLEAN
    /\ gate \in [value : 0..Unlimited, wait_val : Nat,
                 in_batch : 0..setup.batch]
    /\ launched \in Seq(Nat)
    /\ done \in 0..Len(launched)
    /\ phase \in {"warmup", "measure", "measured"}
    /\ window \in [DOMAIN NoWindow -> Nat]
    /\ xqueue_handle \in BOOLEAN
    /\ result \in {"OK", "error"}
    /\ exit_status \in {"none", "success", "failure"}
    /\ object \in [Objects -> {"none", "live", "destroyed", "twice"}]
    /\ failed \subseteq FaultKinds
    /\ asked \in {"no", "heard", "lost"}
    /\ late \in Nat

(* No more kernels are under way than the window allows.  A stop ends the  *)
(* wait for room of dpu_ts, which then launches one kernel too many.       *)
InFlightBound ==
    Len(launched) - worker_ctx.completed
        <= MaxInflight(setup) + IF Timed /\ g_stop_requested THEN 1 ELSE 0

(* A kernel of a batch runs only when the whole batch has been launched,   *)
(* when no more will come, or after a stop.                                *)
GateHolds ==
    Gated => \/ done <= setup.batch * (Len(launched) \div setup.batch)
             \/ Len(launched) = setup.tasks
             \/ g_stop_requested

(* After a stop signal, but for one that came before the flag was reset,   *)
(* at most one more kernel is launched.                                    *)
StopIsHeeded == late <= 1

LaunchDiscipline == InFlightBound /\ GateHolds /\ StopIsHeeded

(* The events are destroyed when no kernel is left that would set them,    *)
(* unless the worker could not wait or the gate could not be opened.       *)
EventsOutliveKernels ==
    object["comp_event"] = "destroyed" =>
        done = Len(launched) \/ failed \cap {"wait", "update"} # {}

(* Every object is destroyed, and once.  Only an event that was created    *)
(* and could not be set up is destroyed by both create_doca_dpa_..._event  *)
(* and its caller.                                                         *)
DestroyedOnce ==
    /\ \A o \in Objects :
          object[o] = "twice" => o \in {"wait_event", "comp_event"}
                                 /\ "event" \in failed
    /\ main = "exited" => \A o \in Objects : object[o] # "live"

ObjectsReleased == EventsOutliveKernels /\ DestroyedOnce

(* The joins of the cleanup that never return: the worker waits for a      *)
(* kernel that was not launched or whose gate is shut; the heartbeat for   *)
(* tasks that will not be completed.                                       *)
WorkerStuck ==
    /\ worker = "wait"
    /\ done <= worker_ctx.completed
    /\ \E k \in (done + 1)..(worker_ctx.completed + 1) :
          k > Len(launched) \/ ~Open(launched[k])

HeartbeatStuck == heartbeat = "beat" /\ ~g_stop_requested /\ ~AllCompleted

Stranded ==
    \/ main = "join" /\ WorkerStuck
    \/ main = "join_heartbeat" /\ HeartbeatStuck

(* They hang only after a launch, an update of the gate or a wait has      *)
(* failed: never for a stop, a deadline or the end of the tasks.           *)
StrandedOnlyByFailure ==
    Stranded => failed \cap {"launch", "update", "wait"} # {}

(* Every program ends, or hangs in one of those joins.                     *)
EveryProgramEnds == <>(main \in {"exited", "crashed"} \/ Stranded)

(* The exit status of low and high says that all tasks were completed, or  *)
(* that a signal stopped them.  (dpu_ts does not look at the worker again.)*)
SuccessIsCompletion ==
    exit_status = "success" /\ ~Timed =>
        worker_ctx.completed = setup.tasks \/ g_stop_requested

(* The RESULT line of dpu_ts counts kernels of its own window: none        *)
(* completed that was not launched in it, none launched and not completed  *)
(* but those in flight.  A stop during the warm-up spoils it.              *)
WindowIsMeasured ==
    LET completed == window.completed - window.base_completed
        submitted == window.submitted - window.base_submitted
    IN phase = "measured" /\ asked # "heard" =>
          /\ completed <= submitted
          /\ submitted <= completed + MaxInflight(setup)

ReportIsTrue == SuccessIsCompletion /\ WindowIsMeasured
=============================================================================
