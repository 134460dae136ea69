-------------------------- MODULE DpuDriverProofs --------------------------
(***************************************************************************)
(* Proofs about DpuDriver: for any number of tasks, any window, any size   *)
(* of a batch and all the faults, the launches keep to their discipline,   *)
(* the objects of DOCA are released once and after the kernels, the joins  *)
(* of the cleanup hang only after a failure, and what the programs report  *)
(* is true.                                                                *)
(***************************************************************************)
EXTENDS DpuDriver, Integers, TLAPS

(* What the environment variables say.                                     *)
LEMMA SetupType ==
    ASSUME setup \in Setups
    PROVE  /\ setup.tasks \in Nat /\ setup.batch \in Nat
           /\ Gated => ~Timed
           /\ {setup.drain, setup.heartbeat, setup.warmup, setup.token} \subseteq BOOLEAN
           /\ MaxInflight(setup) \in Nat \ {0}
BY DpuDriverAssumption DEF MaxInflight, Timed, Gated

(* The type invariant, part by part.                                       *)
PlainOK ==
    /\ setup \in Setups
    /\ main \in Places
    /\ worker \in {"none", "idle", "wait", "report", "ended"}
    /\ heartbeat \in {"undeclared", "none", "beat", "ended"}
    /\ g_stop_requested \in BOOLEAN
    /\ phase \in {"warmup", "measure", "measured"}
    /\ xqueue_handle \in BOOLEAN
    /\ result \in {"OK", "error"}
    /\ exit_status \in {"none", "success", "failure"}
    /\ failed \subseteq FaultKinds
    /\ asked \in {"no", "heard", "lost"}
    /\ late \in Nat

Contexts == [ready : 0..setup.tasks, completed : 0..setup.tasks,
             accepting : BOOLEAN, worker_result : {"OK", "error"}]

ContextOK == worker_ctx \in Contexts

GateOK == gate \in [value : 0..Unlimited, wait_val : Nat,
                    in_batch : 0..setup.batch]

KernelsOK == launched \in Seq(Nat) /\ done \in 0..Len(launched)

WindowOK == window \in [DOMAIN NoWindow -> Nat]

ObjectOK == object \in [Objects -> {"none", "live", "destroyed", "twice"}]

LEMMA TypeParts ==
    TypeOK <=> PlainOK /\ ContextOK /\ GateOK /\ KernelsOK /\ WindowOK /\ ObjectOK
BY DEF TypeOK, PlainOK, ContextOK, Contexts, GateOK, KernelsOK, WindowOK, ObjectOK

(* The places only one kind of program gets to.                            *)
TimedPlaces == {"discover", "tokens", "base", "counters"}

TaskPlaces == {"wait_event", "set", "record", "gate", "tail", "finish",
               "join_heartbeat", "crashed"}

(* Before the threads are started.                                         *)
Opening == {"argp_init", "device", "install", "reset", "wait_event",
            "comp_event", "threads"}

(* From the end of the loop on.                                            *)
Closing == {"cleanup", "join", "join_heartbeat", "destroy", "dpa_cleanup",
            "argp_cleanup", "exit", "exited", "crashed"}

Joined == {"join_heartbeat", "destroy", "dpa_cleanup", "argp_cleanup", "exit",
           "exited", "crashed"}

Finished == Joined \ {"join_heartbeat", "crashed"}

Routes ==
    /\ IF Timed THEN main \notin TaskPlaces ELSE main \notin TimedPlaces
    /\ main = "gate" => Gated
    /\ main = "set" => ~Gated
    /\ main \in Opening =>
            /\ worker = "none" /\ heartbeat = "undeclared"
    /\ main = "discover" => worker_ctx.ready = 0
    /\ worker = "none" =>
            /\ main \in Opening \cup Closing
            /\ launched = <<>> /\ worker_ctx.ready = 0
            /\ gate.in_batch = 0
            /\ gate.value = 0
            /\ heartbeat = "undeclared"
            /\ main \in Closing => result = "error"

(* A stop counts from the moment the flag has been reset.                  *)
Stops ==
    /\ g_stop_requested <=> asked = "heard"
    /\ late # 0 => /\ late = 1
                   /\ g_stop_requested
                   /\ main \notin Opening \cup {"room", "launch", "tokens"}

(* launched, ended, reported: one behind the other.                        *)
Counts ==
    /\ worker_ctx.completed <= worker_ctx.ready
    /\ worker_ctx.completed <= done
    /\ worker \in {"wait", "report"} => worker_ctx.completed < worker_ctx.ready
    /\ worker = "report" => worker_ctx.completed < done
    /\ Timed => \/ Len(launched) = worker_ctx.ready
                \/ /\ Len(launched) + 1 = worker_ctx.ready
                   /\ \/ main = "launch"
                      \/ main \in Closing /\ "launch" \in failed
                         /\ result = "error"
    /\ (Timed /\ main = "launch") => Len(launched) + 1 = worker_ctx.ready
    /\ ~Timed =>
        /\ Len(launched) <= setup.tasks
        /\ \/ Len(launched) = worker_ctx.ready
           \/ /\ Len(launched) = worker_ctx.ready + 1
              /\ \/ main \in {"set", "record"}
                 \/ main \in Closing /\ "update" \in failed /\ result = "error"
        /\ main \in {"set", "record"} => Len(launched) = worker_ctx.ready + 1
        /\ main = "launch" => Len(launched) < setup.tasks

(* The room in the window.                                                 *)
Room ==
    /\ InFlight <= MaxInflight(setup)
       \/ /\ Timed /\ g_stop_requested
          /\ InFlight <= MaxInflight(setup) + 1
          /\ main \notin {"room", "tokens"}
    /\ main = "tokens" => InFlight < MaxInflight(setup) \/ g_stop_requested
    /\ ~Timed => /\ main = "launch" => InFlight < MaxInflight(setup)
                 /\ Len(launched) - worker_ctx.completed <= MaxInflight(setup)

(* The kernels of the batches whose gate has been opened in the loop: a    *)
(* whole number of batches.                                                *)
Released == worker_ctx.ready - gate.in_batch

BatchSize ==
    Gated =>
        /\ gate.in_batch <= worker_ctx.ready
        /\ main \in {"loop", "room", "launch", "record"}
                => gate.in_batch < setup.batch
        /\ main = "gate" => gate.in_batch = setup.batch

WholeBatches == Gated => \E k \in Nat : Released = setup.batch * k

(* The threshold of the batch under way is above those of the batches      *)
(* before.                                                                 *)
Thresholds ==
    Gated =>
        /\ FirstThreshold <= gate.wait_val
        /\ gate.wait_val <= FirstThreshold + 2 * Released
        /\ \A i \in 1..Len(launched) :
              IF i <= Released
              THEN launched[i] < gate.wait_val /\ launched[i] < gate.value
              ELSE launched[i] = gate.wait_val

(* The gate is below it until the last batch is launched or a stop has     *)
(* come.                                                                   *)
Shut ==
    Gated => \/ gate.value < gate.wait_val /\ done <= Released
             \/ Len(launched) = setup.tasks
             \/ g_stop_requested

(* Without batches the gate stands open from the first kernel on.          *)
Single ==
    ~Gated =>
        /\ gate.in_batch = 0
        /\ gate.wait_val = FirstThreshold
        /\ gate.value \in {0, FirstThreshold + 1}
        /\ ~Timed =>
            /\ main # "drain"
            /\ worker_ctx.ready # 0 \/ main = "record"
                    => gate.value = FirstThreshold + 1
            /\ \A i \in 1..Len(launched) : launched[i] = FirstThreshold

(* What is known after a failure, and after an error.                      *)
Broken == failed \cap {"launch", "update", "wait"} # {}

Ended ==
    /\ WorkerFailed <=> "wait" \in failed
    /\ "wait" \in failed => worker = "ended"
    /\ (worker = "ended" /\ "wait" \notin failed)
            => /\ worker_ctx.completed = worker_ctx.ready
               /\ ~worker_ctx.accepting
    /\ ~worker_ctx.accepting => main \in Closing \/ "wait" \in failed
    /\ main \notin Closing => result = "OK"
    /\ (worker # "none" /\ main \in Closing \ {"cleanup"})
            => ~worker_ctx.accepting
    /\ main \in Joined => worker \in {"none", "ended"}
    /\ (result = "OK" /\ ~Timed /\ main \in Finished)
            => worker_ctx.worker_result = "OK"
    /\ exit_status = "success" => result = "OK" /\ main = "exited"

AllLaunched == g_stop_requested \/ Len(launched) = setup.tasks

AllOpen == \A i \in 1..Len(launched) : launched[i] < gate.value

LoopDone ==
    /\ ~Timed /\ worker # "none"
    /\ \/ main \in Closing \cup {"tail", "finish"}
       \/ main = "drain" /\ gate.in_batch # 0
    /\ ~Broken \/ result = "OK"
    => AllLaunched

AfterGates == Closing \cup {"drain", "finish"}

GatesOpened ==
    ~Timed /\ worker # "none" /\ main \in AfterGates /\ ~Broken => AllOpen

(* The life of each object, place by place.                                *)
Events == {"wait_event", "comp_event"}

AfterEvents == {"dpa_cleanup", "argp_cleanup", "exit", "exited"}

Lives ==
    /\ main \in {"argp_init", "device"} =>
        \A o \in Objects \ {"argp"} : object[o] = "none"
    /\ main = "argp_init" => object["argp"] = "none"
    /\ \A o \in Objects : object[o] = "twice" => o \in Events /\ "event" \in failed
    /\ main \in {"exit", "exited"} => object["argp"] # "live"
    /\ main \notin {"exit", "exited"} => object["argp"] # "destroyed"
    /\ \A o \in {"doca_dpa", "doca_device"} :
        IF main \in {"argp_cleanup", "exit", "exited"}
        THEN object[o] # "live" ELSE object[o] # "destroyed"
    /\ \A o \in Events :
        /\ main \in AfterEvents => object[o] # "live"
        /\ object[o] = "destroyed" => main \in AfterEvents \/ "event" \in failed
    /\ object["comp_event"] = "destroyed" =>
        worker \in {"none", "ended"} /\ main \in Closing

(* The counters of dpu_ts.                                                 *)
Measures ==
    /\ main \in Opening => window = NoWindow /\ phase # "measured"
    /\ ~g_stop_requested =>
        /\ main = "base" => worker_ctx.completed = worker_ctx.ready
        /\ window.base_completed = window.base_submitted
        /\ phase = "measured" =>
            /\ window.completed <= window.submitted
            /\ window.submitted <= window.completed + MaxInflight(setup)

IInv == /\ TypeOK
        /\ Routes
        /\ Stops
        /\ Counts
        /\ Room
        /\ BatchSize
        /\ WholeBatches
        /\ Thresholds
        /\ Shut
        /\ Single
        /\ Ended
        /\ LoopDone
        /\ GatesOpened
        /\ Lives
        /\ Measures

-----------------------------------------------------------------------------
USE DEF vars, launchVars, measureVars, outcomeVars, signalVars, Go, Quiet,
    Fault, GivesUp, WorkerOnly, DriveOnly, TaskOnly, CreateEvent, Launch, Submit,
    OpenForGood

(* Next, action by action.                                                 *)
LEMMA Actions ==
    ASSUME [Next]_vars
    PROVE  \/ SetUp \/ DriveForDuration \/ RunTasks \/ TearDown
           \/ RoomWorkerFailed \/ TimeUp \/ TokenAcquired \/ CompletionWorker
           \/ WaitFails \/ HeartbeatEnds \/ KernelEnds \/ HandleStopSignal
           \/ UNCHANGED vars
BY DEF Next, KernelLaunch

(* The places of the threads, and which of them a program gets to.         *)
LEMMA RoutesStep ==
    ASSUME TypeOK, Routes, [Next]_vars
    PROVE  Routes'
<1> USE SetupType DEF TypeOK, Routes, Places, Timed, Gated, Opening,
    Closing, TaskPlaces, TimedPlaces
<1>1. CASE SetUp
    BY <1>1, SMTT(30) DEF SetUp, ArgpInit, AllocateResources,
        InstallHandlers, ResetStop, CreateWaitEvent, CreateCompletionEvent,
        StartThreads, Start
<1>2. CASE DriveForDuration
    BY <1>2, SMTT(30) DEF DriveForDuration, DiscoverXQueue, DriveStops,
        AfterDrive, DriveContinues, DriveRoom, TokenStop, SubmitShortKernel,
        DrainToTarget, TakeBase, TakeCounters
<1>3. CASE RunTasks
    BY <1>3, SMTT(30) DEF RunTasks, NextTask, LoopEnds, RoomForTask,
        LaunchTask, SetWaitEvent, Record, BatchFull, OpenGate, DrainBatch,
        LastBatch, NoMoreRecords
<1>4. CASE TearDown
    BY <1>4, SMTT(30) DEF TearDown, Cleanup, JoinWorker, JoinHeartbeat,
        FinalResult, DestroyEvents, DestroyResources, ArgpDestroy, Exit,
        ExitStatus
<1>5. CASE RoomWorkerFailed \/ TimeUp \/ TokenAcquired
    BY <1>5, SMTT(30) DEF RoomWorkerFailed, TimeUp, AfterDrive,
        TokenAcquired
<1>6. CASE CompletionWorker \/ WaitFails
    <2>1. CASE WorkerReports
        BY <2>1, SMTT(30) DEF WorkerReports
    <2>2. CASE WaitFails
        BY <2>2, SMTT(30) DEF WaitFails
    <2>3. CASE WorkerTakes \/ WorkerEnds \/ WorkerWakes
        BY <2>3, SMTT(30) DEF WorkerTakes, WorkerEnds, WorkerWakes
    <2> QED
        BY <1>6, <2>1, <2>2, <2>3 DEF CompletionWorker
<1>7. CASE HeartbeatEnds \/ KernelEnds \/ HandleStopSignal \/ UNCHANGED vars
    BY <1>7, SMTT(30) DEF HeartbeatEnds, KernelEnds, HandleStopSignal
<1> QED
    BY <1>1, <1>2, <1>3, <1>4, <1>5, <1>6, <1>7, Actions

(* The flag, and what is launched after it is set.                         *)
LEMMA StopsStep ==
    ASSUME TypeOK, Routes, Stops, [Next]_vars
    PROVE  Stops'
<1> USE DEF TypeOK, Routes, Stops, Timed, Opening, Closing, TaskPlaces,
    TimedPlaces
<1>1. CASE SetUp
    BY <1>1, SMTT(30) DEF SetUp, ArgpInit, AllocateResources,
        InstallHandlers, ResetStop, CreateWaitEvent, CreateCompletionEvent,
        StartThreads, Start
<1>2. CASE DriveForDuration
    BY <1>2, SMTT(30) DEF DriveForDuration, DiscoverXQueue, DriveStops,
        AfterDrive, DriveContinues, DriveRoom, TokenStop, SubmitShortKernel,
        DrainToTarget, TakeBase, TakeCounters
<1>3. CASE RunTasks
    BY <1>3, SMTT(30) DEF RunTasks, NextTask, LoopEnds, RoomForTask,
        LaunchTask, SetWaitEvent, Record, BatchFull, OpenGate, DrainBatch,
        LastBatch, NoMoreRecords
<1>4. CASE TearDown
    BY <1>4, SMTT(30) DEF TearDown, Cleanup, JoinWorker, JoinHeartbeat,
        FinalResult, DestroyEvents, DestroyResources, ArgpDestroy, Exit,
        ExitStatus
<1>5. CASE RoomWorkerFailed \/ TimeUp \/ TokenAcquired
    BY <1>5, SMTT(30) DEF RoomWorkerFailed, TimeUp, AfterDrive,
        TokenAcquired
<1>6. CASE CompletionWorker \/ WaitFails
    BY <1>6, SMTT(30) DEF CompletionWorker, WorkerTakes, WorkerEnds,
        WorkerWakes, WorkerReports, WaitFails
<1>7. CASE HeartbeatEnds \/ KernelEnds \/ HandleStopSignal \/ UNCHANGED vars
    BY <1>7, SMTT(30) DEF HeartbeatEnds, KernelEnds, HandleStopSignal
<1> QED
    BY <1>1, <1>2, <1>3, <1>4, <1>5, <1>6, <1>7, Actions

(* What the type invariant says of the values that are calculated with.    *)
Values ==
    /\ setup.tasks \in Nat /\ setup.batch \in Nat
    /\ Unlimited = 2 * setup.tasks + 6
    /\ worker_ctx.ready \in Nat /\ worker_ctx.ready <= setup.tasks
    /\ worker_ctx.completed \in Nat /\ worker_ctx.completed <= setup.tasks
    /\ worker_ctx.worker_result \in {"OK", "error"}
    /\ gate.value \in Nat /\ gate.wait_val \in Nat /\ gate.in_batch \in Nat
    /\ gate.value <= Unlimited /\ gate.in_batch <= setup.batch
    /\ Len(launched) \in Nat
    /\ done \in Nat /\ done <= Len(launched)

LEMMA TypedValues == TypeOK => Values
<1> SUFFICES ASSUME TypeOK
             PROVE  Values
    OBVIOUS
<1>1. setup.tasks \in Nat /\ setup.batch \in Nat
    BY SetupType DEF TypeOK
<1>2. Unlimited = 2 * setup.tasks + 6
    BY <1>1 DEF Unlimited, FirstThreshold
<1> QED
    BY <1>1, <1>2 DEF TypeOK, Values

(* A record of the shared counters stays one when fields of it change.     *)
LEMMA Counted ==
    ASSUME TypeOK, NEW n \in 0..setup.tasks
    PROVE  /\ [worker_ctx EXCEPT !.ready = n] \in Contexts
           /\ [worker_ctx EXCEPT !.completed = n] \in Contexts
<1>1. worker_ctx \in Contexts
    BY DEF TypeOK, Contexts
<1> QED
    BY <1>1, Zenon DEF Contexts

LEMMA Closed ==
    ASSUME TypeOK
    PROVE  /\ [worker_ctx EXCEPT !.accepting = FALSE] \in Contexts
           /\ [worker_ctx EXCEPT !.worker_result = "error",
                                 !.accepting = FALSE] \in Contexts
<1>1. worker_ctx \in Contexts
    BY DEF TypeOK, Contexts
<1> QED
    BY <1>1, Zenon DEF Contexts

(* The gate stays one, too.                                                *)
Gates == [value : 0..Unlimited, wait_val : Nat, in_batch : 0..setup.batch]

LEMMA GateExcept ==
    ASSUME TypeOK
    PROVE  /\ \A v \in 0..Unlimited : [gate EXCEPT !.value = v] \in Gates
           /\ \A b \in 0..setup.batch : [gate EXCEPT !.in_batch = b] \in Gates
           /\ \A v \in 0..Unlimited, w \in Nat :
                [value |-> v, wait_val |-> w, in_batch |-> 0] \in Gates
<1>1. gate \in Gates /\ 0 \in 0..setup.batch
    BY SetupType DEF TypeOK, Gates
<1> QED
    BY <1>1, Zenon DEF Gates

LEMMA FaultsAreKinds == Faults \subseteq FaultKinds
BY DpuDriverAssumption

(* The gate of the batch under way can be opened within its range.         *)
LEMMA GateRange ==
    ASSUME Values,
           gate.in_batch <= worker_ctx.ready,
           gate.wait_val <= FirstThreshold + 2 * Released
    PROVE  gate.wait_val + 1 \in 0..Unlimited
<1> DEFINE W == gate.wait_val  r == worker_ctx.ready  b == gate.in_batch
           n == setup.tasks
<1>1. W \in Nat /\ r \in Nat /\ b \in Nat /\ n \in Nat
    BY DEF Values
<1>2. b <= r /\ r <= n /\ W <= 4 + 2 * (r - b)
    BY DEF Values, Released, FirstThreshold
<1>3. Unlimited = 2 * n + 6
    BY DEF Values
<1> HIDE DEF W, r, b, n
<1>4. W + 1 \in 0..(2 * n + 6)
    BY <1>1, <1>2
<1> QED
    BY <1>3, <1>4 DEF W, n

(* The flags, the places and the results.                                  *)
LEMMA PlainStep ==
    ASSUME TypeOK, [Next]_vars
    PROVE  PlainOK'
<1>0. PlainOK
    BY TypeParts
<1> USE <1>0, FaultsAreKinds DEF PlainOK, Places, Timed, Gated, WorkerFailed,
    Values
<1>1. CASE SetUp
    <2>1. CASE ArgpInit
        BY <2>1, SMTT(30) DEF ArgpInit
    <2>2. CASE AllocateResources
        BY <2>2, SMTT(30) DEF AllocateResources
    <2>3. CASE InstallHandlers
        BY <2>3, SMTT(30) DEF InstallHandlers
    <2>4. CASE ResetStop
        BY <2>4, Zenon DEF ResetStop
    <2>5. CASE CreateWaitEvent
        BY <2>5, SMTT(30) DEF CreateWaitEvent
    <2>6. CASE CreateCompletionEvent
        BY <2>6, SMTT(30) DEF CreateCompletionEvent
    <2>7. CASE StartThreads
        BY <2>7, SMTT(30) DEF StartThreads, Start
    <2> QED
        BY <1>1, <2>1, <2>2, <2>3, <2>4, <2>5, <2>6, <2>7 DEF SetUp
<1>2. CASE DriveForDuration
    <2>1. CASE SubmitShortKernel
        BY <2>1, SetupType, SMTT(30) DEF SubmitShortKernel
    <2>2. CASE DrainToTarget
        BY <2>2, TypedValues, SMTT(30) DEF DrainToTarget
    <2>3. CASE DiscoverXQueue \/ DriveStops \/ DriveContinues \/ DriveRoom
        \/ TokenStop \/ TakeBase \/ TakeCounters
        BY <2>3, SMTT(30) DEF DiscoverXQueue, DriveStops, AfterDrive,
            DriveContinues, DriveRoom, TokenStop, TakeBase, TakeCounters
    <2> QED
        BY <1>2, <2>1, <2>2, <2>3 DEF DriveForDuration
<1>3. CASE RunTasks
    BY <1>3, SMTT(30) DEF RunTasks, NextTask, LoopEnds, RoomForTask,
        LaunchTask, SetWaitEvent, Record, BatchFull, OpenGate, DrainBatch,
        LastBatch, NoMoreRecords
<1>4. CASE TearDown
    BY <1>4, SMTT(30) DEF TearDown, Cleanup, JoinWorker, JoinHeartbeat,
        FinalResult, DestroyEvents, DestroyResources, ArgpDestroy, Exit,
        ExitStatus
<1>5. CASE RoomWorkerFailed \/ TimeUp \/ TokenAcquired
    BY <1>5, SMTT(30) DEF RoomWorkerFailed, TimeUp, AfterDrive,
        TokenAcquired
<1>6. CASE CompletionWorker \/ WaitFails
    <2>1. CASE WaitFails
        BY <2>1, SMTT(30) DEF WaitFails
    <2>2. CASE WorkerTakes \/ WorkerEnds \/ WorkerWakes \/ WorkerReports
        BY <2>2, SMTT(30) DEF WorkerTakes, WorkerEnds, WorkerWakes,
            WorkerReports
    <2> QED
        BY <1>6, <2>1, <2>2 DEF CompletionWorker
<1>7. CASE HeartbeatEnds \/ KernelEnds \/ HandleStopSignal \/ UNCHANGED vars
    <2>1. CASE HeartbeatEnds
        BY <2>1, SMTT(30) DEF HeartbeatEnds
    <2>2. CASE KernelEnds
        BY <2>2, SMTT(30) DEF KernelEnds
    <2>3. CASE HandleStopSignal
        BY <2>3, SMTT(30) DEF HandleStopSignal
    <2>4. CASE UNCHANGED vars
        BY <2>4
    <2> QED
        BY <1>7, <2>1, <2>2, <2>3, <2>4
<1> QED
    BY <1>1, <1>2, <1>3, <1>4, <1>5, <1>6, <1>7, Actions

(* Who writes what.                                                        *)
LEMMA Writers ==
    ASSUME [Next]_vars
    PROVE  /\ UNCHANGED setup
           /\ \/ UNCHANGED worker_ctx
              \/ DriveRoom \/ TokenAcquired \/ Record \/ NoMoreRecords
              \/ Cleanup \/ WorkerReports \/ WaitFails
           /\ \/ UNCHANGED gate
              \/ SetWaitEvent \/ Record \/ OpenGate \/ DrainBatch \/ LastBatch
           /\ UNCHANGED launched \/ SubmitShortKernel \/ LaunchTask
           /\ UNCHANGED done \/ KernelEnds
           /\ UNCHANGED window \/ TakeBase \/ TakeCounters
           /\ UNCHANGED g_stop_requested \/ ResetStop \/ HandleStopSignal
<1>1. CASE SetUp
    BY <1>1 DEF SetUp, ArgpInit, AllocateResources, InstallHandlers, ResetStop,
        CreateWaitEvent, CreateCompletionEvent, StartThreads
<1>2. CASE DriveForDuration
    BY <1>2 DEF DriveForDuration, DiscoverXQueue, DriveStops, DriveContinues,
        DriveRoom, TokenStop, SubmitShortKernel, DrainToTarget, TakeBase,
        TakeCounters
<1>3. CASE RunTasks
    BY <1>3 DEF RunTasks, NextTask, RoomForTask, LaunchTask, SetWaitEvent,
        Record, OpenGate, DrainBatch, LastBatch, NoMoreRecords
<1>4. CASE TearDown
    BY <1>4 DEF TearDown, Cleanup, JoinWorker, JoinHeartbeat, DestroyEvents,
        DestroyResources, ArgpDestroy, Exit
<1>5. CASE RoomWorkerFailed \/ TimeUp \/ TokenAcquired
    BY <1>5 DEF RoomWorkerFailed, TimeUp, TokenAcquired
<1>6. CASE CompletionWorker \/ WaitFails
    BY <1>6 DEF CompletionWorker, WorkerTakes, WorkerEnds, WorkerWakes,
        WorkerReports, WaitFails
<1>7. CASE HeartbeatEnds \/ KernelEnds \/ HandleStopSignal \/ UNCHANGED vars
    BY <1>7 DEF HeartbeatEnds, KernelEnds, HandleStopSignal
<1> QED
    BY <1>1, <1>2, <1>3, <1>4, <1>5, <1>6, <1>7, Actions

(* Who writes the objects, and that no failure is forgotten.               *)
LEMMA ObjectWriters ==
    ASSUME [Next]_vars
    PROVE  \/ UNCHANGED object
           \/ ArgpInit \/ AllocateResources \/ CreateWaitEvent
           \/ CreateCompletionEvent \/ DestroyEvents \/ DestroyResources
           \/ ArgpDestroy
<1>1. CASE SetUp
    BY <1>1 DEF SetUp, ArgpInit, AllocateResources, InstallHandlers, ResetStop,
        CreateWaitEvent, CreateCompletionEvent, StartThreads
<1>2. CASE DriveForDuration
    BY <1>2 DEF DriveForDuration, DiscoverXQueue, DriveStops, DriveContinues,
        DriveRoom, TokenStop, SubmitShortKernel, DrainToTarget, TakeBase,
        TakeCounters
<1>3. CASE RunTasks
    BY <1>3 DEF RunTasks, NextTask, RoomForTask, LaunchTask, SetWaitEvent,
        Record, OpenGate, DrainBatch, LastBatch, NoMoreRecords
<1>4. CASE TearDown
    BY <1>4 DEF TearDown, Cleanup, JoinWorker, JoinHeartbeat, DestroyEvents,
        DestroyResources, ArgpDestroy, Exit
<1>5. CASE RoomWorkerFailed \/ TimeUp \/ TokenAcquired
    BY <1>5 DEF RoomWorkerFailed, TimeUp, TokenAcquired
<1>6. CASE CompletionWorker \/ WaitFails
    BY <1>6 DEF CompletionWorker, WorkerTakes, WorkerEnds, WorkerWakes,
        WorkerReports, WaitFails
<1>7. CASE HeartbeatEnds \/ KernelEnds \/ HandleStopSignal \/ UNCHANGED vars
    BY <1>7 DEF HeartbeatEnds, KernelEnds, HandleStopSignal
<1> QED
    BY <1>1, <1>2, <1>3, <1>4, <1>5, <1>6, <1>7, Actions

LEMMA FailedGrows ==
    ASSUME [Next]_vars
    PROVE  failed \subseteq failed'
<1>1. CASE SetUp
    BY <1>1 DEF SetUp, ArgpInit, AllocateResources, InstallHandlers, ResetStop,
        CreateWaitEvent, CreateCompletionEvent, StartThreads
<1>2. CASE DriveForDuration
    BY <1>2 DEF DriveForDuration, DiscoverXQueue, DriveStops, DriveContinues,
        DriveRoom, TokenStop, SubmitShortKernel, DrainToTarget, TakeBase,
        TakeCounters
<1>3. CASE RunTasks
    BY <1>3 DEF RunTasks, NextTask, RoomForTask, LaunchTask, SetWaitEvent,
        Record, OpenGate, DrainBatch, LastBatch, NoMoreRecords
<1>4. CASE TearDown
    BY <1>4 DEF TearDown, Cleanup, JoinWorker, JoinHeartbeat, DestroyEvents,
        DestroyResources, ArgpDestroy, Exit
<1>5. CASE RoomWorkerFailed \/ TimeUp \/ TokenAcquired
    BY <1>5 DEF RoomWorkerFailed, TimeUp, TokenAcquired
<1>6. CASE CompletionWorker \/ WaitFails
    BY <1>6 DEF CompletionWorker, WorkerTakes, WorkerEnds, WorkerWakes,
        WorkerReports, WaitFails
<1>7. CASE HeartbeatEnds \/ KernelEnds \/ HandleStopSignal \/ UNCHANGED vars
    BY <1>7 DEF HeartbeatEnds, KernelEnds, HandleStopSignal
<1> QED
    BY <1>1, <1>2, <1>3, <1>4, <1>5, <1>6, <1>7, Actions

(* The counters shared with the worker.                                    *)
LEMMA ContextStep ==
    ASSUME TypeOK, Routes, Counts, [Next]_vars
    PROVE  ContextOK'
<1>1. Contexts' = Contexts
    BY Writers DEF Contexts
<1>2. Values
    BY TypedValues
<1> SUFFICES worker_ctx' \in Contexts
    BY <1>1 DEF ContextOK
<1> USE <1>2 DEF Values
<1>3. CASE DriveRoom \/ TokenAcquired
    <2>1. UNCHANGED worker_ctx \/ Submit
        BY <1>3 DEF DriveRoom, TokenAcquired
    <2>2. CASE Submit
        <3>1. worker_ctx.ready + 1 \in 0..setup.tasks
            BY <2>2
        <3> QED
            BY <3>1, <2>2, Counted
    <2> QED
        BY <2>1, <2>2 DEF TypeOK, Contexts
<1>4. CASE Record
    <2>1. ~Timed
        BY <1>4 DEF Record, Routes, TaskPlaces
    <2>2. worker_ctx.ready + 1 \in 0..setup.tasks
        BY <1>4, <2>1 DEF Record, Counts
    <2> QED
        BY <2>2, <1>4, Counted DEF Record
<1>5. CASE NoMoreRecords \/ Cleanup
    BY <1>5, Closed DEF NoMoreRecords, Cleanup
<1>6. CASE WorkerReports
    <2>1. worker_ctx.completed + 1 \in 0..setup.tasks
        BY <1>6, SMTT(30) DEF WorkerReports, Counts
    <2> QED
        BY <2>1, <1>6, Counted DEF WorkerReports
<1>7. CASE WaitFails
    BY <1>7, Closed DEF WaitFails
<1>8. CASE UNCHANGED worker_ctx
    BY <1>8 DEF TypeOK, Contexts
<1> QED
    BY <1>3, <1>4, <1>5, <1>6, <1>7, <1>8, Writers

(* The gate.                                                               *)
LEMMA GateStep ==
    ASSUME TypeOK, Routes, BatchSize, Thresholds, [Next]_vars
    PROVE  GateOK'
<1>1. Gates' = Gates
    BY Writers DEF Gates, Unlimited
<1>2. Values /\ gate \in Gates
    BY TypedValues DEF TypeOK, Gates
<1> SUFFICES gate' \in Gates
    BY <1>1 DEF GateOK, Gates
<1>3. Unlimited \in 0..Unlimited /\ FirstThreshold + 1 \in 0..Unlimited
    BY <1>2 DEF Values, FirstThreshold
<1>4. Gated => gate.wait_val + 1 \in 0..Unlimited
    <2>1. Gated => /\ gate.in_batch <= worker_ctx.ready
                   /\ gate.wait_val <= FirstThreshold + 2 * Released
        BY DEF BatchSize, Thresholds
    <2> QED
        BY <1>2, <2>1, GateRange
<1>5. CASE SetWaitEvent
    BY <1>2, <1>3, <1>5, GateExcept DEF SetWaitEvent
<1>6. CASE Record
    <2>1. Gated => gate.in_batch + 1 \in 0..setup.batch
        BY <1>2, <1>6 DEF Values, Record, BatchSize
    <2> QED
        BY <1>2, <1>6, <2>1, GateExcept DEF Record, Values
<1>7. CASE OpenGate
    <2>1. Gated
        BY <1>7 DEF OpenGate, Routes
    <2>2. gate.wait_val + 2 \in Nat
        BY <1>2 DEF Values
    <2> QED
        BY <1>2, <1>3, <1>4, <1>7, <2>1, <2>2, GateExcept DEF OpenGate, ValueAtStop,
            NextThreshold
<1>8. CASE DrainBatch
    BY <1>2, <1>3, <1>8, GateExcept DEF DrainBatch, ValueAtStop
<1>9. CASE LastBatch
    BY <1>2, <1>3, <1>4, <1>9, GateExcept DEF LastBatch, ValueAtStop
<1>10. CASE UNCHANGED gate
    BY <1>2, <1>10
<1> QED
    BY <1>5, <1>6, <1>7, <1>8, <1>9, <1>10, Writers

(* What was launched and what has ended.                                   *)
LEMMA KernelsStep ==
    ASSUME TypeOK, [Next]_vars
    PROVE  KernelsOK'
<1>1. Values /\ KernelsOK
    BY TypedValues DEF TypeOK, KernelsOK
<1>2. CASE SubmitShortKernel \/ LaunchTask
    <2>1. PICK t \in Nat : launched' \in {launched, Append(launched, t)}
        BY <1>1, <1>2 DEF SubmitShortKernel, LaunchTask, FirstThreshold, Values
    <2>2. done' = done
        BY <1>2 DEF SubmitShortKernel, LaunchTask
    <2> QED
        BY <1>1, <2>1, <2>2 DEF KernelsOK
<1>3. CASE KernelEnds
    BY <1>1, <1>3 DEF KernelEnds, KernelsOK
<1>4. CASE UNCHANGED <<launched, done>>
    BY <1>1, <1>4 DEF KernelsOK
<1> QED
    BY <1>2, <1>3, <1>4, Writers

(* What was measured.                                                      *)
LEMMA WindowStep ==
    ASSUME TypeOK, [Next]_vars
    PROVE  WindowOK'
<1>1. Values
    BY TypedValues
<1>2. CASE TakeBase \/ TakeCounters
    <2>1. DOMAIN NoWindow = {"base_completed", "base_submitted", "completed",
                             "submitted"}
        BY DEF NoWindow
    <2>2. window \in [DOMAIN NoWindow -> Nat]
        BY DEF TypeOK
    <2> QED
        BY <1>1, <1>2, <2>1, <2>2 DEF Values, TakeBase, TakeCounters, WindowOK
<1>3. CASE UNCHANGED window
    BY <1>3 DEF TypeOK, WindowOK
<1> QED
    BY <1>2, <1>3, Writers

(* Launched, ended, reported.                                              *)
LEMMA CountsStep ==
    ASSUME TypeOK, Routes, Counts, [Next]_vars
    PROVE  Counts'
<1> USE SetupType DEF TypeOK, Routes, Places, Timed, Gated, Opening,
    Closing, TaskPlaces, TimedPlaces, Counts
<1>1. CASE SetUp
    BY <1>1, SMTT(30) DEF SetUp, ArgpInit, AllocateResources,
        InstallHandlers, ResetStop, CreateWaitEvent, CreateCompletionEvent,
        StartThreads, Start
<1>2. CASE DriveForDuration
    <2>1. CASE DiscoverXQueue
        BY <2>1, SMTT(30) DEF DiscoverXQueue
    <2>2. CASE DriveStops
        BY <2>2, SMTT(30) DEF DriveStops, AfterDrive
    <2>3. CASE DriveContinues
        BY <2>3, SMTT(30) DEF DriveContinues
    <2>4. CASE DriveRoom
        <3>1. main = "room" /\ Timed /\ UNCHANGED <<setup, launched, done, worker>>
            BY <2>4 DEF DriveRoom
        <3>2. CASE main' = "tokens" /\ UNCHANGED worker_ctx
            BY <3>1, <3>2, SMTT(30)
        <3>3. CASE main' = "launch" /\ Submit
            BY <3>1, <3>3, SMTT(30)
        <3> QED
            BY <2>4, <3>2, <3>3 DEF DriveRoom
    <2>5. CASE TokenStop
        BY <2>5, SMTT(30) DEF TokenStop, AfterDrive
    <2>6. CASE SubmitShortKernel
        BY <2>6, SMTT(30) DEF SubmitShortKernel
    <2>7. CASE DrainToTarget
        BY <2>7, SMTT(30) DEF DrainToTarget
    <2>8. CASE TakeBase
        BY <2>8, SMTT(30) DEF TakeBase
    <2>9. CASE TakeCounters
        BY <2>9, SMTT(30) DEF TakeCounters
    <2> QED
        BY <1>2, <2>1, <2>2, <2>3, <2>4, <2>5, <2>6, <2>7, <2>8, <2>9 DEF
            DriveForDuration
<1>3. CASE RunTasks
    <2>1. CASE NextTask
        BY <2>1, SMTT(30) DEF NextTask, LoopEnds
    <2>2. CASE RoomForTask
        BY <2>2, SMTT(30) DEF RoomForTask, LoopEnds
    <2>3. CASE LaunchTask
        BY <2>3, SMTT(30) DEF LaunchTask
    <2>4. CASE SetWaitEvent
        BY <2>4, SMTT(30) DEF SetWaitEvent
    <2>5. CASE Record
        BY <2>5, SMTT(30) DEF Record, BatchFull
    <2>6. CASE OpenGate
        BY <2>6, SMTT(30) DEF OpenGate
    <2>7. CASE DrainBatch
        BY <2>7, SMTT(30) DEF DrainBatch
    <2>8. CASE LastBatch
        BY <2>8, SMTT(30) DEF LastBatch
    <2>9. CASE NoMoreRecords
        BY <2>9, SMTT(30) DEF NoMoreRecords
    <2> QED
        BY <1>3, <2>1, <2>2, <2>3, <2>4, <2>5, <2>6, <2>7, <2>8, <2>9 DEF
            RunTasks
<1>4. CASE TearDown
    BY <1>4, SMTT(30) DEF TearDown, Cleanup, JoinWorker, JoinHeartbeat,
        FinalResult, DestroyEvents, DestroyResources, ArgpDestroy, Exit,
        ExitStatus
<1>5. CASE RoomWorkerFailed \/ TimeUp \/ TokenAcquired
    <2>1. CASE RoomWorkerFailed
        BY <2>1, SMTT(30) DEF RoomWorkerFailed
    <2>2. CASE TimeUp
        BY <2>2, SMTT(30) DEF TimeUp, AfterDrive
    <2>3. CASE TokenAcquired
        BY <2>3, SMTT(30) DEF TokenAcquired
    <2> QED
        BY <1>5, <2>1, <2>2, <2>3
<1>6. CASE CompletionWorker \/ WaitFails
    <2>1. CASE WorkerTakes
        BY <2>1, SMTT(30) DEF WorkerTakes
    <2>2. CASE WorkerEnds
        BY <2>2, SMTT(30) DEF WorkerEnds
    <2>3. CASE WorkerWakes
        BY <2>3, SMTT(30) DEF WorkerWakes
    <2>4. CASE WorkerReports
        BY <2>4, SMTT(30) DEF WorkerReports
    <2>5. CASE WaitFails
        BY <2>5, SMTT(30) DEF WaitFails
    <2> QED
        BY <1>6, <2>1, <2>2, <2>3, <2>4, <2>5 DEF CompletionWorker
<1>7. CASE HeartbeatEnds \/ KernelEnds \/ HandleStopSignal \/ UNCHANGED vars
    <2>1. CASE HeartbeatEnds
        BY <2>1, SMTT(30) DEF HeartbeatEnds
    <2>2. CASE KernelEnds
        BY <2>2, SMTT(30) DEF KernelEnds
    <2>3. CASE HandleStopSignal
        BY <2>3, SMTT(30) DEF HandleStopSignal
    <2>4. CASE UNCHANGED vars
        BY <2>4
    <2> QED
        BY <1>7, <2>1, <2>2, <2>3, <2>4
<1> QED
    BY <1>1, <1>2, <1>3, <1>4, <1>5, <1>6, <1>7, Actions

(* The room in the window.                                                 *)
LEMMA RoomStep ==
    ASSUME TypeOK, Routes, Counts, Room, [Next]_vars
    PROVE  Room'
<1> USE SetupType DEF TypeOK, Routes, Places, Timed, Gated, Opening,
    Closing, TaskPlaces, TimedPlaces, Counts, Room, HasRoom, InFlight,
    WorkerFailed
<1>1. CASE SetUp
    BY <1>1, SMTT(30) DEF SetUp, ArgpInit, AllocateResources,
        InstallHandlers, ResetStop, CreateWaitEvent, CreateCompletionEvent,
        StartThreads, Start
<1>2. CASE DriveForDuration
    <2>1. CASE DiscoverXQueue
        BY <2>1, SMTT(30) DEF DiscoverXQueue
    <2>2. CASE DriveStops
        BY <2>2, SMTT(30) DEF DriveStops, AfterDrive
    <2>3. CASE DriveContinues
        BY <2>3, SMTT(30) DEF DriveContinues
    <2>4. CASE DriveRoom
        <3>1. main = "room" /\ Timed /\ HasRoom /\ ~WorkerFailed
                /\ UNCHANGED <<setup, launched, done, worker, g_stop_requested>>
            BY <2>4 DEF DriveRoom
        <3>2. CASE main' = "tokens" /\ UNCHANGED worker_ctx
            BY <3>1, <3>2, SMTT(30)
        <3>3. CASE main' = "launch" /\ Submit
            BY <3>1, <3>3, SMTT(30)
        <3> QED
            BY <2>4, <3>2, <3>3 DEF DriveRoom
    <2>5. CASE TokenStop
        BY <2>5, SMTT(30) DEF TokenStop, AfterDrive
    <2>6. CASE SubmitShortKernel
        BY <2>6, SMTT(30) DEF SubmitShortKernel
    <2>7. CASE DrainToTarget
        BY <2>7, SMTT(30) DEF DrainToTarget
    <2>8. CASE TakeBase
        BY <2>8, SMTT(30) DEF TakeBase
    <2>9. CASE TakeCounters
        BY <2>9, SMTT(30) DEF TakeCounters
    <2> QED
        BY <1>2, <2>1, <2>2, <2>3, <2>4, <2>5, <2>6, <2>7, <2>8, <2>9 DEF
            DriveForDuration
<1>3. CASE RunTasks
    <2>1. CASE NextTask
        BY <2>1, SMTT(30) DEF NextTask, LoopEnds
    <2>2. CASE RoomForTask
        BY <2>2, SMTT(30) DEF RoomForTask, LoopEnds
    <2>3. CASE LaunchTask
        BY <2>3, SMTT(30) DEF LaunchTask
    <2>4. CASE SetWaitEvent
        BY <2>4, SMTT(30) DEF SetWaitEvent
    <2>5. CASE Record
        BY <2>5, SMTT(30) DEF Record, BatchFull
    <2>6. CASE OpenGate
        BY <2>6, SMTT(30) DEF OpenGate
    <2>7. CASE DrainBatch
        BY <2>7, SMTT(30) DEF DrainBatch
    <2>8. CASE LastBatch
        BY <2>8, SMTT(30) DEF LastBatch
    <2>9. CASE NoMoreRecords
        BY <2>9, SMTT(30) DEF NoMoreRecords
    <2> QED
        BY <1>3, <2>1, <2>2, <2>3, <2>4, <2>5, <2>6, <2>7, <2>8, <2>9 DEF
            RunTasks
<1>4. CASE TearDown
    <2>1. CASE Cleanup
        BY <2>1, SMTT(30) DEF Cleanup
    <2>2. CASE JoinWorker
        BY <2>2, SMTT(30) DEF JoinWorker
    <2>3. CASE JoinHeartbeat
        BY <2>3, SMTT(30) DEF JoinHeartbeat, FinalResult
    <2>4. CASE DestroyEvents
        BY <2>4, SMTT(30) DEF DestroyEvents
    <2>5. CASE DestroyResources
        BY <2>5, SMTT(30) DEF DestroyResources
    <2>6. CASE ArgpDestroy
        BY <2>6, SMTT(30) DEF ArgpDestroy
    <2>7. CASE Exit
        BY <2>7, SMTT(30) DEF Exit, ExitStatus
    <2> QED
        BY <1>4, <2>1, <2>2, <2>3, <2>4, <2>5, <2>6, <2>7 DEF TearDown
<1>5. CASE RoomWorkerFailed \/ TimeUp \/ TokenAcquired
    <2>1. CASE RoomWorkerFailed
        BY <2>1, SMTT(30) DEF RoomWorkerFailed
    <2>2. CASE TimeUp
        BY <2>2, SMTT(30) DEF TimeUp, AfterDrive
    <2>3. CASE TokenAcquired
        BY <2>3, SMTT(30) DEF TokenAcquired
    <2> QED
        BY <1>5, <2>1, <2>2, <2>3
<1>6. CASE CompletionWorker \/ WaitFails
    <2>1. CASE WorkerTakes
        BY <2>1, SMTT(30) DEF WorkerTakes
    <2>2. CASE WorkerEnds
        BY <2>2, SMTT(30) DEF WorkerEnds
    <2>3. CASE WorkerWakes
        BY <2>3, SMTT(30) DEF WorkerWakes
    <2>4. CASE WorkerReports
        BY <2>4, SMTT(30) DEF WorkerReports
    <2>5. CASE WaitFails
        BY <2>5, SMTT(30) DEF WaitFails
    <2> QED
        BY <1>6, <2>1, <2>2, <2>3, <2>4, <2>5 DEF CompletionWorker
<1>7. CASE HeartbeatEnds \/ KernelEnds \/ HandleStopSignal \/ UNCHANGED vars
    <2>1. CASE HeartbeatEnds
        BY <2>1, SMTT(30) DEF HeartbeatEnds
    <2>2. CASE KernelEnds
        BY <2>2, SMTT(30) DEF KernelEnds
    <2>3. CASE HandleStopSignal
        BY <2>3, SMTT(30) DEF HandleStopSignal
    <2>4. CASE UNCHANGED vars
        BY <2>4
    <2> QED
        BY <1>7, <2>1, <2>2, <2>3, <2>4
<1> QED
    BY <1>1, <1>2, <1>3, <1>4, <1>5, <1>6, <1>7, Actions

(* The end of the worker, and what the errors have to do with it.          *)
LEMMA EndedStep ==
    ASSUME TypeOK, Routes, Counts, Ended, [Next]_vars
    PROVE  Ended'
<1> USE SetupType DEF TypeOK, Routes, Places, Timed, Gated, Opening,
    Closing, TaskPlaces, TimedPlaces, Counts, Ended, WorkerGone,
    WorkerFailed, Joined, Finished, ExitStatus, MutexFree
<1>1. CASE SetUp
    BY <1>1, SMTT(30) DEF SetUp, ArgpInit, AllocateResources,
        InstallHandlers, ResetStop, CreateWaitEvent, CreateCompletionEvent,
        StartThreads, Start
<1>2. CASE DriveForDuration
    <2>1. CASE DiscoverXQueue
        BY <2>1, SMTT(30) DEF DiscoverXQueue
    <2>2. CASE DriveStops
        BY <2>2, SMTT(30) DEF DriveStops, AfterDrive
    <2>3. CASE DriveContinues
        BY <2>3, SMTT(30) DEF DriveContinues
    <2>4. CASE DriveRoom
        BY <2>4, SMTT(30) DEF DriveRoom
    <2>5. CASE TokenStop
        BY <2>5, SMTT(30) DEF TokenStop, AfterDrive
    <2>6. CASE SubmitShortKernel
        BY <2>6, SMTT(30) DEF SubmitShortKernel
    <2>7. CASE DrainToTarget
        BY <2>7, SMTT(30) DEF DrainToTarget
    <2>8. CASE TakeBase
        BY <2>8, SMTT(30) DEF TakeBase
    <2>9. CASE TakeCounters
        BY <2>9, SMTT(30) DEF TakeCounters
    <2> QED
        BY <1>2, <2>1, <2>2, <2>3, <2>4, <2>5, <2>6, <2>7, <2>8, <2>9 DEF
            DriveForDuration
<1>3. CASE RunTasks
    <2>1. CASE NextTask
        BY <2>1, SMTT(30) DEF NextTask, LoopEnds
    <2>2. CASE RoomForTask
        BY <2>2, SMTT(30) DEF RoomForTask, LoopEnds
    <2>3. CASE LaunchTask
        BY <2>3, SMTT(30) DEF LaunchTask
    <2>4. CASE SetWaitEvent
        BY <2>4, SMTT(30) DEF SetWaitEvent
    <2>5. CASE Record
        BY <2>5, SMTT(30) DEF Record, BatchFull
    <2>6. CASE OpenGate
        BY <2>6, SMTT(30) DEF OpenGate
    <2>7. CASE DrainBatch
        BY <2>7, SMTT(30) DEF DrainBatch
    <2>8. CASE LastBatch
        BY <2>8, SMTT(30) DEF LastBatch
    <2>9. CASE NoMoreRecords
        BY <2>9, SMTT(30) DEF NoMoreRecords
    <2> QED
        BY <1>3, <2>1, <2>2, <2>3, <2>4, <2>5, <2>6, <2>7, <2>8, <2>9 DEF
            RunTasks
<1>4. CASE TearDown
    BY <1>4, SMTT(30) DEF TearDown, Cleanup, JoinWorker, JoinHeartbeat,
        FinalResult, DestroyEvents, DestroyResources, ArgpDestroy, Exit,
        ExitStatus
<1>5. CASE RoomWorkerFailed \/ TimeUp \/ TokenAcquired
    <2>1. CASE RoomWorkerFailed
        BY <2>1, SMTT(30) DEF RoomWorkerFailed
    <2>2. CASE TimeUp
        BY <2>2, SMTT(30) DEF TimeUp, AfterDrive
    <2>3. CASE TokenAcquired
        BY <2>3, SMTT(30) DEF TokenAcquired
    <2> QED
        BY <1>5, <2>1, <2>2, <2>3
<1>6. CASE CompletionWorker \/ WaitFails
    <2>1. CASE WorkerTakes
        BY <2>1, SMTT(30) DEF WorkerTakes
    <2>2. CASE WorkerEnds
        BY <2>2, SMTT(30) DEF WorkerEnds
    <2>3. CASE WorkerWakes
        BY <2>3, SMTT(30) DEF WorkerWakes
    <2>4. CASE WorkerReports
        BY <2>4, SMTT(30) DEF WorkerReports
    <2>5. CASE WaitFails
        BY <2>5, SMTT(30) DEF WaitFails
    <2> QED
        BY <1>6, <2>1, <2>2, <2>3, <2>4, <2>5 DEF CompletionWorker
<1>7. CASE HeartbeatEnds \/ KernelEnds \/ HandleStopSignal \/ UNCHANGED vars
    <2>1. CASE HeartbeatEnds
        BY <2>1, SMTT(30) DEF HeartbeatEnds
    <2>2. CASE KernelEnds
        BY <2>2, SMTT(30) DEF KernelEnds
    <2>3. CASE HandleStopSignal
        BY <2>3, SMTT(30) DEF HandleStopSignal
    <2>4. CASE UNCHANGED vars
        BY <2>4
    <2> QED
        BY <1>7, <2>1, <2>2, <2>3, <2>4
<1> QED
    BY <1>1, <1>2, <1>3, <1>4, <1>5, <1>6, <1>7, Actions

(* The life of the objects.                                                *)
LEMMA LivesStep ==
    ASSUME TypeOK, Routes, Ended, Lives, [Next]_vars
    PROVE  Lives'
<1> USE SetupType DEF TypeOK, Routes, Places, Timed, Gated, Opening,
    Closing, TaskPlaces, TimedPlaces, Ended, Joined, Finished, Lives,
    Destroyed, Objects, Events, AfterEvents, WorkerGone
<1>1. CASE SetUp
    <2>1. CASE ArgpInit
        BY <2>1, SMTT(30) DEF ArgpInit
    <2>2. CASE AllocateResources
        BY <2>2, SMTT(30) DEF AllocateResources
    <2>3. CASE InstallHandlers
        BY <2>3, SMTT(30) DEF InstallHandlers
    <2>4. CASE ResetStop
        BY <2>4, SMTT(30) DEF ResetStop
    <2>5. CASE CreateWaitEvent
        BY <2>5, SMTT(30) DEF CreateWaitEvent
    <2>6. CASE CreateCompletionEvent
        BY <2>6, SMTT(30) DEF CreateCompletionEvent
    <2>7. CASE StartThreads
        BY <2>7, SMTT(30) DEF StartThreads, Start
    <2> QED
        BY <1>1, <2>1, <2>2, <2>3, <2>4, <2>5, <2>6, <2>7 DEF SetUp
<1>2. CASE DriveForDuration
    BY <1>2, SMTT(30) DEF DriveForDuration, DiscoverXQueue, DriveStops,
        AfterDrive, DriveContinues, DriveRoom, TokenStop, SubmitShortKernel,
        DrainToTarget, TakeBase, TakeCounters
<1>3. CASE RunTasks
    BY <1>3, SMTT(30) DEF RunTasks, NextTask, LoopEnds, RoomForTask,
        LaunchTask, SetWaitEvent, Record, BatchFull, OpenGate, DrainBatch,
        LastBatch, NoMoreRecords
<1>4. CASE TearDown
    <2>1. CASE Cleanup
        BY <2>1, SMTT(30) DEF Cleanup
    <2>2. CASE JoinWorker
        BY <2>2, SMTT(30) DEF JoinWorker
    <2>3. CASE JoinHeartbeat
        BY <2>3, SMTT(30) DEF JoinHeartbeat, FinalResult
    <2>4. CASE DestroyEvents
        BY <2>4, SMTT(30) DEF DestroyEvents
    <2>5. CASE DestroyResources
        BY <2>5, SMTT(30) DEF DestroyResources
    <2>6. CASE ArgpDestroy
        BY <2>6, SMTT(30) DEF ArgpDestroy
    <2>7. CASE Exit
        BY <2>7, SMTT(30) DEF Exit, ExitStatus
    <2> QED
        BY <1>4, <2>1, <2>2, <2>3, <2>4, <2>5, <2>6, <2>7 DEF TearDown
<1>5. CASE RoomWorkerFailed \/ TimeUp \/ TokenAcquired
    BY <1>5, SMTT(30) DEF RoomWorkerFailed, TimeUp, AfterDrive,
        TokenAcquired
<1>6. CASE CompletionWorker \/ WaitFails
    BY <1>6, SMTT(30) DEF CompletionWorker, WorkerTakes, WorkerEnds,
        WorkerWakes, WorkerReports, WaitFails
<1>7. CASE HeartbeatEnds \/ KernelEnds \/ HandleStopSignal \/ UNCHANGED vars
    BY <1>7, SMTT(30) DEF HeartbeatEnds, KernelEnds, HandleStopSignal
<1> QED
    BY <1>1, <1>2, <1>3, <1>4, <1>5, <1>6, <1>7, Actions

(* The counters of dpu_ts.                                                 *)
LEMMA MeasuresStep ==
    ASSUME TypeOK, Routes, Stops, Counts, Room, Measures, [Next]_vars
    PROVE  Measures'
<1> USE SetupType DEF TypeOK, Routes, Places, Timed, Gated, Opening,
    Closing, TaskPlaces, TimedPlaces, Stops, Counts, Room, Measures,
    InFlight, Drained, WorkerFailed, NoWindow
<1>1. CASE SetUp
    <2>1. CASE ArgpInit
        BY <2>1, SMTT(30) DEF ArgpInit
    <2>2. CASE AllocateResources
        BY <2>2, SMTT(30) DEF AllocateResources
    <2>3. CASE InstallHandlers
        BY <2>3, SMTT(30) DEF InstallHandlers
    <2>4. CASE ResetStop
        BY <2>4, SMTT(30) DEF ResetStop
    <2>5. CASE CreateWaitEvent
        BY <2>5, SMTT(30) DEF CreateWaitEvent
    <2>6. CASE CreateCompletionEvent
        BY <2>6, SMTT(30) DEF CreateCompletionEvent
    <2>7. CASE StartThreads
        BY <2>7, SMTT(30) DEF StartThreads, Start
    <2> QED
        BY <1>1, <2>1, <2>2, <2>3, <2>4, <2>5, <2>6, <2>7 DEF SetUp
<1>2. CASE DriveForDuration
    <2>1. CASE DiscoverXQueue
        BY <2>1, SMTT(30) DEF DiscoverXQueue
    <2>2. CASE DriveStops
        BY <2>2, SMTT(30) DEF DriveStops, AfterDrive
    <2>3. CASE DriveContinues
        BY <2>3, SMTT(30) DEF DriveContinues
    <2>4. CASE DriveRoom
        BY <2>4, SMTT(30) DEF DriveRoom
    <2>5. CASE TokenStop
        BY <2>5, SMTT(30) DEF TokenStop, AfterDrive
    <2>6. CASE SubmitShortKernel
        BY <2>6, SMTT(30) DEF SubmitShortKernel
    <2>7. CASE DrainToTarget
        BY <2>7, SMTT(30) DEF DrainToTarget
    <2>8. CASE TakeBase
        BY <2>8, SMTT(30) DEF TakeBase
    <2>9. CASE TakeCounters
        BY <2>9, SMTT(30) DEF TakeCounters
    <2> QED
        BY <1>2, <2>1, <2>2, <2>3, <2>4, <2>5, <2>6, <2>7, <2>8, <2>9 DEF
            DriveForDuration
<1>3. CASE RunTasks
    <2>1. CASE NextTask
        BY <2>1, SMTT(30) DEF NextTask, LoopEnds
    <2>2. CASE RoomForTask
        BY <2>2, SMTT(30) DEF RoomForTask, LoopEnds
    <2>3. CASE LaunchTask
        BY <2>3, SMTT(30) DEF LaunchTask
    <2>4. CASE SetWaitEvent
        BY <2>4, SMTT(30) DEF SetWaitEvent
    <2>5. CASE Record
        BY <2>5, SMTT(30) DEF Record, BatchFull
    <2>6. CASE OpenGate
        BY <2>6, SMTT(30) DEF OpenGate
    <2>7. CASE DrainBatch
        BY <2>7, SMTT(30) DEF DrainBatch
    <2>8. CASE LastBatch
        BY <2>8, SMTT(30) DEF LastBatch
    <2>9. CASE NoMoreRecords
        BY <2>9, SMTT(30) DEF NoMoreRecords
    <2> QED
        BY <1>3, <2>1, <2>2, <2>3, <2>4, <2>5, <2>6, <2>7, <2>8, <2>9 DEF
            RunTasks
<1>4. CASE TearDown
    BY <1>4, SMTT(30) DEF TearDown, Cleanup, JoinWorker, JoinHeartbeat,
        FinalResult, DestroyEvents, DestroyResources, ArgpDestroy, Exit,
        ExitStatus
<1>5. CASE RoomWorkerFailed \/ TimeUp \/ TokenAcquired
    BY <1>5, SMTT(30) DEF RoomWorkerFailed, TimeUp, AfterDrive,
        TokenAcquired
<1>6. CASE CompletionWorker \/ WaitFails
    BY <1>6, SMTT(30) DEF CompletionWorker, WorkerTakes, WorkerEnds,
        WorkerWakes, WorkerReports, WaitFails
<1>7. CASE HeartbeatEnds \/ KernelEnds \/ HandleStopSignal \/ UNCHANGED vars
    BY <1>7, SMTT(30) DEF HeartbeatEnds, KernelEnds, HandleStopSignal
<1> QED
    BY <1>1, <1>2, <1>3, <1>4, <1>5, <1>6, <1>7, Actions

(* The batch under way.                                                    *)
LEMMA BatchSizeStep ==
    ASSUME TypeOK, Routes, BatchSize, [Next]_vars
    PROVE  BatchSize'
<1> USE SetupType DEF TypeOK, Routes, Places, Timed, Gated, Opening,
    Closing, TaskPlaces, TimedPlaces, BatchSize
<1>1. CASE SetUp
    BY <1>1, SMTT(30) DEF SetUp, ArgpInit, AllocateResources,
        InstallHandlers, ResetStop, CreateWaitEvent, CreateCompletionEvent,
        StartThreads, Start
<1>2. CASE DriveForDuration
    <2>1. CASE DiscoverXQueue
        BY <2>1, SMTT(30) DEF DiscoverXQueue
    <2>2. CASE DriveStops
        BY <2>2, SMTT(30) DEF DriveStops, AfterDrive
    <2>3. CASE DriveContinues
        BY <2>3, SMTT(30) DEF DriveContinues
    <2>4. CASE DriveRoom
        BY <2>4, SMTT(30) DEF DriveRoom
    <2>5. CASE TokenStop
        BY <2>5, SMTT(30) DEF TokenStop, AfterDrive
    <2>6. CASE SubmitShortKernel
        BY <2>6, SMTT(30) DEF SubmitShortKernel
    <2>7. CASE DrainToTarget
        BY <2>7, SMTT(30) DEF DrainToTarget
    <2>8. CASE TakeBase
        BY <2>8, SMTT(30) DEF TakeBase
    <2>9. CASE TakeCounters
        BY <2>9, SMTT(30) DEF TakeCounters
    <2> QED
        BY <1>2, <2>1, <2>2, <2>3, <2>4, <2>5, <2>6, <2>7, <2>8, <2>9 DEF
            DriveForDuration
<1>3. CASE RunTasks
    <2>1. CASE NextTask
        BY <2>1, SMTT(30) DEF NextTask, LoopEnds
    <2>2. CASE RoomForTask
        BY <2>2, SMTT(30) DEF RoomForTask, LoopEnds
    <2>3. CASE LaunchTask
        BY <2>3, SMTT(30) DEF LaunchTask
    <2>4. CASE SetWaitEvent
        BY <2>4, SMTT(30) DEF SetWaitEvent
    <2>5. CASE Record
        BY <2>5, SMTT(30) DEF Record, BatchFull
    <2>6. CASE OpenGate
        BY <2>6, SMTT(30) DEF OpenGate
    <2>7. CASE DrainBatch
        BY <2>7, SMTT(30) DEF DrainBatch
    <2>8. CASE LastBatch
        BY <2>8, SMTT(30) DEF LastBatch
    <2>9. CASE NoMoreRecords
        BY <2>9, SMTT(30) DEF NoMoreRecords
    <2> QED
        BY <1>3, <2>1, <2>2, <2>3, <2>4, <2>5, <2>6, <2>7, <2>8, <2>9 DEF
            RunTasks
<1>4. CASE TearDown
    <2>1. CASE Cleanup
        BY <2>1, SMTT(30) DEF Cleanup
    <2>2. CASE JoinWorker
        BY <2>2, SMTT(30) DEF JoinWorker
    <2>3. CASE JoinHeartbeat
        BY <2>3, SMTT(30) DEF JoinHeartbeat, FinalResult
    <2>4. CASE DestroyEvents
        BY <2>4, SMTT(30) DEF DestroyEvents
    <2>5. CASE DestroyResources
        BY <2>5, SMTT(30) DEF DestroyResources
    <2>6. CASE ArgpDestroy
        BY <2>6, SMTT(30) DEF ArgpDestroy
    <2>7. CASE Exit
        BY <2>7, SMTT(30) DEF Exit, ExitStatus
    <2> QED
        BY <1>4, <2>1, <2>2, <2>3, <2>4, <2>5, <2>6, <2>7 DEF TearDown
<1>5. CASE RoomWorkerFailed \/ TimeUp \/ TokenAcquired
    <2>1. CASE RoomWorkerFailed
        BY <2>1, SMTT(30) DEF RoomWorkerFailed
    <2>2. CASE TimeUp
        BY <2>2, SMTT(30) DEF TimeUp, AfterDrive
    <2>3. CASE TokenAcquired
        BY <2>3, SMTT(30) DEF TokenAcquired
    <2> QED
        BY <1>5, <2>1, <2>2, <2>3
<1>6. CASE CompletionWorker \/ WaitFails
    <2>1. CASE WorkerTakes
        BY <2>1, SMTT(30) DEF WorkerTakes
    <2>2. CASE WorkerEnds
        BY <2>2, SMTT(30) DEF WorkerEnds
    <2>3. CASE WorkerWakes
        BY <2>3, SMTT(30) DEF WorkerWakes
    <2>4. CASE WorkerReports
        BY <2>4, SMTT(30) DEF WorkerReports
    <2>5. CASE WaitFails
        BY <2>5, SMTT(30) DEF WaitFails
    <2> QED
        BY <1>6, <2>1, <2>2, <2>3, <2>4, <2>5 DEF CompletionWorker
<1>7. CASE HeartbeatEnds \/ KernelEnds \/ HandleStopSignal \/ UNCHANGED vars
    BY <1>7, SMTT(30) DEF HeartbeatEnds, KernelEnds, HandleStopSignal
<1> QED
    BY <1>1, <1>2, <1>3, <1>4, <1>5, <1>6, <1>7, Actions

(* Kernels of one threshold, and one more of it.                           *)
AllAre(s, c) == \A i \in 1..Len(s) : s[i] = c

LEMMA OneMore ==
    \A s \in Seq(Nat), c \in Nat : AllAre(s, c) => AllAre(Append(s, c), c)
BY DEF AllAre

(* The gate without batches.                                               *)
LEMMA SingleStep ==
    ASSUME TypeOK, Routes, Counts, Single, [Next]_vars
    PROVE  Single'
<1> USE SetupType DEF TypeOK, Routes, Places, Timed, Gated, Opening,
    Closing, TaskPlaces, TimedPlaces, Counts, Single, FirstThreshold
<1>1. CASE SetUp
    BY <1>1, SMTT(30) DEF SetUp, ArgpInit, AllocateResources,
        InstallHandlers, ResetStop, CreateWaitEvent, CreateCompletionEvent,
        StartThreads, Start
<1>2. CASE DriveForDuration
    <2>1. CASE DiscoverXQueue
        BY <2>1, SMTT(30) DEF DiscoverXQueue
    <2>2. CASE DriveStops
        BY <2>2, SMTT(30) DEF DriveStops, AfterDrive
    <2>3. CASE DriveContinues
        BY <2>3, SMTT(30) DEF DriveContinues
    <2>4. CASE DriveRoom
        BY <2>4, SMTT(30) DEF DriveRoom
    <2>5. CASE TokenStop
        BY <2>5, SMTT(30) DEF TokenStop, AfterDrive
    <2>6. CASE SubmitShortKernel
        BY <2>6, SMTT(30) DEF SubmitShortKernel
    <2>7. CASE DrainToTarget
        BY <2>7, SMTT(30) DEF DrainToTarget
    <2>8. CASE TakeBase
        BY <2>8, SMTT(30) DEF TakeBase
    <2>9. CASE TakeCounters
        BY <2>9, SMTT(30) DEF TakeCounters
    <2> QED
        BY <1>2, <2>1, <2>2, <2>3, <2>4, <2>5, <2>6, <2>7, <2>8, <2>9 DEF
            DriveForDuration
<1>3. CASE RunTasks
    <2>1. CASE NextTask
        BY <2>1, SMTT(30) DEF NextTask, LoopEnds
    <2>2. CASE RoomForTask
        BY <2>2, SMTT(30) DEF RoomForTask, LoopEnds
    <2>3. CASE LaunchTask
        <3>1. /\ launched \in Seq(Nat) /\ ~Timed
              /\ UNCHANGED <<setup, gate, worker_ctx>>
              /\ main = "launch" /\ main' \in {"set", "record", "cleanup"}
              /\ main' = "record" => Gated
            BY <2>3 DEF LaunchTask
        <3>2. CASE Gated
            BY <3>1, <3>2
        <3>3. CASE ~Gated
            <4>1. launched' \in {launched, Append(launched, FirstThreshold)}
                BY <2>3, <3>3 DEF LaunchTask
            <4>2. AllAre(launched, FirstThreshold)
                BY <3>1, <3>3 DEF AllAre
            <4>3. AllAre(Append(launched, FirstThreshold), FirstThreshold)
                BY <3>1, <4>2, OneMore
            <4>4. AllAre(launched', FirstThreshold)
                BY <4>1, <4>2, <4>3, Zenon
            <4> QED
                BY <3>1, <3>3, <4>4 DEF AllAre
        <3> QED
            BY <3>2, <3>3
    <2>4. CASE SetWaitEvent
        BY <2>4, SMTT(30) DEF SetWaitEvent
    <2>5. CASE Record
        BY <2>5, SMTT(30) DEF Record, BatchFull
    <2>6. CASE OpenGate
        BY <2>6, SMTT(30) DEF OpenGate
    <2>7. CASE DrainBatch
        BY <2>7, SMTT(30) DEF DrainBatch
    <2>8. CASE LastBatch
        BY <2>8, SMTT(30) DEF LastBatch
    <2>9. CASE NoMoreRecords
        BY <2>9, SMTT(30) DEF NoMoreRecords
    <2> QED
        BY <1>3, <2>1, <2>2, <2>3, <2>4, <2>5, <2>6, <2>7, <2>8, <2>9 DEF
            RunTasks
<1>4. CASE TearDown
    BY <1>4, SMTT(30) DEF TearDown, Cleanup, JoinWorker, JoinHeartbeat,
        FinalResult, DestroyEvents, DestroyResources, ArgpDestroy, Exit,
        ExitStatus
<1>5. CASE RoomWorkerFailed \/ TimeUp \/ TokenAcquired
    <2>1. CASE RoomWorkerFailed
        BY <2>1, SMTT(30) DEF RoomWorkerFailed
    <2>2. CASE TimeUp
        BY <2>2, SMTT(30) DEF TimeUp, AfterDrive
    <2>3. CASE TokenAcquired
        BY <2>3, SMTT(30) DEF TokenAcquired
    <2> QED
        BY <1>5, <2>1, <2>2, <2>3
<1>6. CASE CompletionWorker \/ WaitFails
    BY <1>6, SMTT(30) DEF CompletionWorker, WorkerTakes, WorkerEnds,
        WorkerWakes, WorkerReports, WaitFails
<1>7. CASE HeartbeatEnds \/ KernelEnds \/ HandleStopSignal \/ UNCHANGED vars
    BY <1>7, SMTT(30) DEF HeartbeatEnds, KernelEnds, HandleStopSignal
<1> QED
    BY <1>1, <1>2, <1>3, <1>4, <1>5, <1>6, <1>7, Actions

(* The end of the loop.                                                    *)
LEMMA LoopDoneStep ==
    ASSUME TypeOK, Routes, Counts, Single, Ended, LoopDone, [Next]_vars
    PROVE  LoopDone'
<1> USE SetupType DEF TypeOK, Routes, Places, Timed, Gated, Opening,
    Closing, TaskPlaces, TimedPlaces, Counts, Single, Ended, LoopDone,
    Broken, AllLaunched, WorkerFailed
<1>1. CASE SetUp
    <2>1. CASE ArgpInit
        BY <2>1, SMTT(30) DEF ArgpInit
    <2>2. CASE AllocateResources
        BY <2>2, SMTT(30) DEF AllocateResources
    <2>3. CASE InstallHandlers
        BY <2>3, SMTT(30) DEF InstallHandlers
    <2>4. CASE ResetStop
        BY <2>4, SMTT(30) DEF ResetStop
    <2>5. CASE CreateWaitEvent
        BY <2>5, SMTT(30) DEF CreateWaitEvent
    <2>6. CASE CreateCompletionEvent
        BY <2>6, SMTT(30) DEF CreateCompletionEvent
    <2>7. CASE StartThreads
        BY <2>7, SMTT(30) DEF StartThreads, Start
    <2> QED
        BY <1>1, <2>1, <2>2, <2>3, <2>4, <2>5, <2>6, <2>7 DEF SetUp
<1>2. CASE DriveForDuration
    <2>1. CASE DiscoverXQueue
        BY <2>1, SMTT(30) DEF DiscoverXQueue
    <2>2. CASE DriveStops
        BY <2>2, SMTT(30) DEF DriveStops, AfterDrive
    <2>3. CASE DriveContinues
        BY <2>3, SMTT(30) DEF DriveContinues
    <2>4. CASE DriveRoom
        BY <2>4, SMTT(30) DEF DriveRoom
    <2>5. CASE TokenStop
        BY <2>5, SMTT(30) DEF TokenStop, AfterDrive
    <2>6. CASE SubmitShortKernel
        BY <2>6, SMTT(30) DEF SubmitShortKernel
    <2>7. CASE DrainToTarget
        BY <2>7, SMTT(30) DEF DrainToTarget
    <2>8. CASE TakeBase
        BY <2>8, SMTT(30) DEF TakeBase
    <2>9. CASE TakeCounters
        BY <2>9, SMTT(30) DEF TakeCounters
    <2> QED
        BY <1>2, <2>1, <2>2, <2>3, <2>4, <2>5, <2>6, <2>7, <2>8, <2>9 DEF
            DriveForDuration
<1>3. CASE RunTasks
    <2>1. CASE NextTask
        BY <2>1, SMTT(30) DEF NextTask, LoopEnds
    <2>2. CASE RoomForTask
        BY <2>2, SMTT(30) DEF RoomForTask, LoopEnds
    <2>3. CASE LaunchTask
        <3>1. \/ main' \in {"record", "set"}
              \/ main' = "cleanup" /\ "launch" \in failed' /\ result' = "error"
            BY <2>3 DEF LaunchTask
        <3> QED
            BY <3>1
    <2>4. CASE SetWaitEvent
        <3>1. \/ main' = "record"
              \/ main' = "cleanup" /\ "update" \in failed' /\ result' = "error"
            BY <2>4 DEF SetWaitEvent
        <3> QED
            BY <3>1
    <2>5. CASE Record
        BY <2>5, SMTT(30) DEF Record, BatchFull
    <2>6. CASE OpenGate
        <3>1. /\ UNCHANGED g_stop_requested
              /\ \/ main' = "loop"
                 \/ main' = "drain" /\ (gate.in_batch)' = 0
                 \/ g_stop_requested
                 \/ main' = "cleanup" /\ "update" \in failed'
                    /\ result' = "error"
            BY <2>6 DEF OpenGate
        <3> QED
            BY <3>1
    <2>7. CASE DrainBatch
        BY <2>7, SMTT(30) DEF DrainBatch
    <2>8. CASE LastBatch
        BY <2>8, SMTT(30) DEF LastBatch
    <2>9. CASE NoMoreRecords
        BY <2>9, SMTT(30) DEF NoMoreRecords
    <2> QED
        BY <1>3, <2>1, <2>2, <2>3, <2>4, <2>5, <2>6, <2>7, <2>8, <2>9 DEF
            RunTasks
<1>4. CASE TearDown
    <2>1. CASE Cleanup
        BY <2>1, SMTT(30) DEF Cleanup
    <2>2. CASE JoinWorker
        BY <2>2, SMTT(30) DEF JoinWorker
    <2>3. CASE JoinHeartbeat
        BY <2>3, SMTT(30) DEF JoinHeartbeat, FinalResult
    <2>4. CASE DestroyEvents
        BY <2>4, SMTT(30) DEF DestroyEvents
    <2>5. CASE DestroyResources
        BY <2>5, SMTT(30) DEF DestroyResources
    <2>6. CASE ArgpDestroy
        BY <2>6, SMTT(30) DEF ArgpDestroy
    <2>7. CASE Exit
        BY <2>7, SMTT(30) DEF Exit, ExitStatus
    <2> QED
        BY <1>4, <2>1, <2>2, <2>3, <2>4, <2>5, <2>6, <2>7 DEF TearDown
<1>5. CASE RoomWorkerFailed \/ TimeUp \/ TokenAcquired
    <2>1. CASE RoomWorkerFailed
        BY <2>1, SMTT(30) DEF RoomWorkerFailed
    <2>2. CASE TimeUp
        BY <2>2, SMTT(30) DEF TimeUp, AfterDrive
    <2>3. CASE TokenAcquired
        BY <2>3, SMTT(30) DEF TokenAcquired
    <2> QED
        BY <1>5, <2>1, <2>2, <2>3
<1>6. CASE CompletionWorker \/ WaitFails
    BY <1>6, SMTT(30) DEF CompletionWorker, WorkerTakes, WorkerEnds,
        WorkerWakes, WorkerReports, WaitFails
<1>7. CASE HeartbeatEnds \/ KernelEnds \/ HandleStopSignal \/ UNCHANGED vars
    BY <1>7, SMTT(30) DEF HeartbeatEnds, KernelEnds, HandleStopSignal
<1> QED
    BY <1>1, <1>2, <1>3, <1>4, <1>5, <1>6, <1>7, Actions

LEMMA NextMultiple ==
    ASSUME NEW b \in Nat, NEW k \in Nat
    PROVE  b * k + b = b * (k + 1)
OBVIOUS

(* Only a full batch is released, and as a whole.                          *)
LEMMA WholeBatchesStep ==
    ASSUME TypeOK, Routes, BatchSize, WholeBatches, [Next]_vars
    PROVE  WholeBatches'
<1>1. Values
    BY TypedValues
<1>2. UNCHANGED setup
    BY Writers
<1> SUFFICES ASSUME Gated
             PROVE  \E k \in Nat : Released' = setup.batch * k
    BY <1>2 DEF WholeBatches, Gated
<1>3. ~Timed /\ main \notin TimedPlaces
    BY SetupType DEF TypeOK, Routes
<1>4. PICK k \in Nat : Released = setup.batch * k
    BY DEF WholeBatches
<1>5. CASE OpenGate
    <2>1. worker_ctx' = worker_ctx /\ gate'.in_batch \in {0, gate.in_batch}
        BY <1>5 DEF OpenGate, TypeOK
    <2>2. gate.in_batch = setup.batch
        BY <1>5 DEF OpenGate, BatchSize
    <2>3. CASE gate'.in_batch = 0
        <3>1. Released' = Released + setup.batch
            BY <1>1, <2>1, <2>2, <2>3 DEF Values, Released
        <3>2. setup.batch * k + setup.batch = setup.batch * (k + 1)
            BY <1>1, NextMultiple DEF Values
        <3> QED
            BY <1>4, <3>1, <3>2
    <2> QED
        BY <1>4, <2>1, <2>3 DEF Released
<1>6. CASE Record
    <2>1. worker_ctx'.ready = worker_ctx.ready + 1
          /\ gate'.in_batch = gate.in_batch + 1
        BY <1>6 DEF Record, TypeOK
    <2>2. worker_ctx.ready \in Nat /\ gate.in_batch \in Nat
        BY <1>1 DEF Values
    <2>3. Released' = Released
        BY <2>1, <2>2 DEF Released
    <2> QED
        BY <1>4, <2>3
<1>7. CASE UNCHANGED worker_ctx.ready /\ UNCHANGED gate.in_batch
    BY <1>4, <1>7 DEF Released
<1>8. Record \/ UNCHANGED worker_ctx.ready
    BY <1>3, Writers DEF DriveRoom, TokenAcquired, NoMoreRecords, Cleanup,
        WorkerReports, WaitFails, TypeOK, TimedPlaces
<1>9. Record \/ OpenGate \/ UNCHANGED gate.in_batch
    BY Writers DEF SetWaitEvent, DrainBatch, LastBatch, TypeOK
<1> QED
    BY <1>5, <1>6, <1>7, <1>8, <1>9

(* The gate can be set beyond every threshold, and is when it is opened    *)
(* for the batch under way or for good.                                    *)
LEMMA Passable ==
    ASSUME TypeOK, BatchSize, Thresholds, Gated
    PROVE  \A i \in 1..Len(launched) : /\ launched[i] < gate.wait_val + 1
                                       /\ launched[i] < Unlimited
<1>1. Values
    BY TypedValues
<1>2. /\ gate.in_batch <= worker_ctx.ready
      /\ gate.wait_val <= FirstThreshold + 2 * Released
      /\ \A i \in 1..Len(launched) :
            launched[i] < gate.wait_val \/ launched[i] = gate.wait_val
    BY DEF BatchSize, Thresholds
<1>3. \A i \in 1..Len(launched) : launched[i] \in Nat
    <2>1. launched \in Seq(Nat)
        BY DEF TypeOK
    <2> QED
        BY <2>1
<1>4. gate.wait_val \in Nat
    BY <1>1 DEF Values
<1>5. \A i \in 1..Len(launched) : launched[i] < gate.wait_val + 1
    BY <1>2, <1>3, <1>4
<1>6. Unlimited \in Nat /\ gate.wait_val + 1 <= Unlimited
    <2>1. gate.wait_val + 1 \in 0..Unlimited
        BY <1>1, <1>2, GateRange
    <2> QED
        BY <1>1, <2>1 DEF Values
<1> QED
    BY <1>3, <1>4, <1>5, <1>6

(* The thresholds of the batches: LaunchTask adds one, Record and OpenGate *)
(* move the border between the batches before and the one under way.       *)
LEMMA ThresholdsStep ==
    ASSUME TypeOK, Routes, Counts, BatchSize, Thresholds, [Next]_vars
    PROVE  Thresholds'
<1>1. Values
    BY TypedValues
<1>2. UNCHANGED setup
    BY Writers
<1> SUFFICES ASSUME Gated
             PROVE  /\ FirstThreshold <= gate'.wait_val
                    /\ gate'.wait_val <= FirstThreshold + 2 * Released'
                    /\ \A i \in 1..Len(launched') :
                          IF i <= Released'
                          THEN /\ launched'[i] < gate'.wait_val
                               /\ launched'[i] < gate'.value
                          ELSE launched'[i] = gate'.wait_val
    BY <1>2 DEF Thresholds, Gated
<1>3. ~Timed /\ main \notin TimedPlaces
    BY SetupType DEF TypeOK, Routes
<1>4. /\ FirstThreshold <= gate.wait_val
      /\ gate.wait_val <= FirstThreshold + 2 * Released
      /\ \A i \in 1..Len(launched) :
            IF i <= Released
            THEN launched[i] < gate.wait_val /\ launched[i] < gate.value
            ELSE launched[i] = gate.wait_val
    BY DEF Thresholds
<1>5. /\ worker_ctx.ready \in Nat /\ gate.in_batch \in Nat
      /\ gate.wait_val \in Nat /\ gate.value \in Nat
      /\ gate.in_batch <= worker_ctx.ready
    BY <1>1 DEF Values, BatchSize
<1>6. \A i \in 1..Len(launched) : launched[i] \in Nat
    <2>1. launched \in Seq(Nat)
        BY DEF TypeOK
    <2> QED
        BY <2>1
<1>7. \A i \in 1..Len(launched) : /\ launched[i] < gate.wait_val + 1
                                  /\ launched[i] < Unlimited
    BY Passable
<1>8. CASE LaunchTask
    <2>1. UNCHANGED <<gate, worker_ctx>>
          /\ launched' \in {launched, Append(launched, gate.wait_val)}
        BY <1>8 DEF LaunchTask
    <2>2. launched \in Seq(Nat)
        BY DEF TypeOK
    <2>3. CASE launched' = launched
        BY <1>4, <2>1, <2>3 DEF Released
    <2>4. CASE launched' = Append(launched, gate.wait_val)
        <3>1. Len(launched) = worker_ctx.ready /\ Len(launched') = Len(launched) + 1
            BY <1>3, <1>8, <2>2, <2>4 DEF LaunchTask, Counts, Closing
        <3>2. Released' = Released /\ Released \in Nat /\ Released <= Len(launched)
            BY <1>5, <2>1, <3>1 DEF Released
        <3>3. \A i \in 1..Len(launched') :
                 IF i <= Len(launched) THEN launched'[i] = launched[i]
                                       ELSE launched'[i] = gate.wait_val
            BY <2>2, <2>4, <3>1
        <3> QED
            BY <1>4, <2>1, <3>1, <3>2, <3>3
    <2> QED
        BY <2>1, <2>3, <2>4
<1>9. CASE Record
    <2>1. /\ worker_ctx'.ready = worker_ctx.ready + 1
          /\ gate'.in_batch = gate.in_batch + 1
          /\ gate'.wait_val = gate.wait_val /\ gate'.value = gate.value
          /\ launched' = launched
        BY <1>9 DEF Record, TypeOK
    <2>2. Released' = Released
        BY <1>5, <2>1 DEF Released
    <2> QED
        BY <1>4, <2>1, <2>2
<1>10. CASE OpenGate
    <2>1. UNCHANGED <<launched, worker_ctx>> /\ gate.in_batch = setup.batch
          /\ setup.batch # 0 /\ Len(launched) = worker_ctx.ready
        BY <1>3, <1>10 DEF OpenGate, BatchSize, Gated, Counts, Closing
    <2>2. CASE gate' = [value |-> gate.wait_val + 1,
                        wait_val |-> gate.wait_val + 2, in_batch |-> 0]
        <3>1. Released' = Len(launched) /\ Released + 1 <= Released'
            BY <1>1, <1>5, <2>1, <2>2 DEF Released, Values
        <3>2. gate.wait_val + 2 <= FirstThreshold + 2 * Released'
            BY <1>4, <1>5, <2>1, <3>1 DEF FirstThreshold, Released
        <3>3. \A i \in 1..Len(launched) : /\ launched[i] < gate.wait_val + 2
                                          /\ launched[i] < gate.wait_val + 1
            BY <1>5, <1>6, <1>7
        <3> QED
            BY <1>4, <1>5, <2>1, <2>2, <3>1, <3>2, <3>3 DEF FirstThreshold
    <2>3. CASE /\ gate'.in_batch = gate.in_batch
               /\ gate'.wait_val = gate.wait_val
               /\ gate'.value \in {gate.value, Unlimited}
        <3>1. Released' = Released
            BY <2>1, <2>3 DEF Released
        <3> QED
            BY <1>4, <1>7, <2>1, <2>3, <3>1
    <2> QED
        BY <1>10, <2>2, <2>3 DEF OpenGate, NextThreshold, ValueAtStop, TypeOK
<1>11. CASE SetWaitEvent
    BY <1>11 DEF SetWaitEvent, Routes
<1>12. CASE DrainBatch \/ LastBatch
    <2>1. /\ UNCHANGED <<launched, worker_ctx>>
          /\ gate'.in_batch = gate.in_batch /\ gate'.wait_val = gate.wait_val
          /\ gate'.value \in {gate.value, gate.wait_val + 1, Unlimited}
        BY <1>12 DEF DrainBatch, LastBatch, ValueAtStop, TypeOK
    <2>2. Released' = Released
        BY <2>1 DEF Released
    <2> QED
        BY <1>4, <1>7, <2>1, <2>2
<1>13. CASE UNCHANGED <<gate, worker_ctx.ready, launched>>
    BY <1>4, <1>13 DEF Released
<1>14. Record \/ UNCHANGED worker_ctx.ready
    BY <1>3, Writers DEF DriveRoom, TokenAcquired, NoMoreRecords, Cleanup,
        WorkerReports, WaitFails, TypeOK, TimedPlaces
<1>15. ~SubmitShortKernel
    BY <1>3 DEF SubmitShortKernel
<1> QED
    BY <1>8, <1>9, <1>10, <1>11, <1>12, <1>13, <1>14, <1>15, Writers

(* The gate is shut until it is opened, and an ended kernel had it open.   *)
LEMMA ShutStep ==
    ASSUME TypeOK, Routes, Counts, BatchSize, Thresholds, Shut, Ended, LoopDone,
           [Next]_vars
    PROVE  Shut'
<1>1. Values
    BY TypedValues
<1>2. UNCHANGED setup
    BY Writers
<1> SUFFICES ASSUME Gated, ~g_stop_requested', Len(launched') # setup.tasks
             PROVE  gate'.value < gate'.wait_val /\ done' <= Released'
    BY <1>2 DEF Shut, Gated
<1>3. ~Timed /\ main \notin TimedPlaces
    BY SetupType DEF TypeOK, Routes
<1>4. /\ worker_ctx.ready \in Nat /\ gate.in_batch \in Nat
      /\ gate.wait_val \in Nat /\ gate.value \in Nat
      /\ Len(launched) \in Nat /\ done \in Nat /\ done <= Len(launched)
    BY <1>1 DEF Values
<1>5. CASE ResetStop
    <2>1. main = "reset" /\ UNCHANGED <<gate, done, worker_ctx>>
        BY <1>5 DEF ResetStop
    <2>2. launched = <<>> /\ worker_ctx.ready = 0 /\ gate.in_batch = 0 /\ gate.value = 0
        BY <2>1 DEF Routes, Opening
    <2>3. FirstThreshold <= gate.wait_val
        BY DEF Thresholds
    <2> QED
        BY <1>4, <2>1, <2>2, <2>3 DEF Released, FirstThreshold
<1>6. CASE LaunchTask
    <2>1. Len(launched) < setup.tasks /\ UNCHANGED <<gate, worker_ctx, done, g_stop_requested>>
        BY <1>3, <1>6 DEF LaunchTask, Counts
    <2> QED
        BY <1>1, <2>1 DEF Shut, Released, Values
<1>7. CASE UNCHANGED <<launched, g_stop_requested>>
    <2>1. gate.value < gate.wait_val /\ done <= Released
        BY <1>7 DEF Shut
    <2>2. CASE Record
        <3>1. /\ worker_ctx'.ready = worker_ctx.ready + 1
              /\ gate'.in_batch = gate.in_batch + 1
              /\ gate'.wait_val = gate.wait_val /\ gate'.value = gate.value
              /\ done' = done
            BY <2>2 DEF Record, TypeOK
        <3> QED
            BY <1>4, <2>1, <3>1 DEF Released
    <2>3. CASE OpenGate
        <3>1. UNCHANGED <<worker_ctx, done>> /\ ~g_stop_requested
            BY <1>7, <2>3 DEF OpenGate
        <3>2. \/ UNCHANGED gate
              \/ gate' = [value |-> gate.wait_val + 1,
                          wait_val |-> gate.wait_val + 2, in_batch |-> 0]
            BY <2>3, <3>1 DEF OpenGate, NextThreshold
        <3> QED
            BY <1>4, <2>1, <3>1, <3>2 DEF Released
    <2>4. CASE LastBatch
        <3>1. main = "tail" /\ UNCHANGED <<worker_ctx, done>>
            BY <2>4 DEF LastBatch
        <3>2. AllLaunched
            BY <1>3, <3>1 DEF Ended, Closing, Opening, Routes, LoopDone
        <3> QED
            BY <1>7, <3>2 DEF AllLaunched
    <2>5. CASE DrainBatch
        <3>1. UNCHANGED <<worker_ctx, done, gate>>
            BY <1>7, <2>5 DEF DrainBatch
        <3> QED
            BY <2>1, <3>1 DEF Released
    <2>6. CASE KernelEnds
        <3>1. /\ done' = done + 1 /\ UNCHANGED <<gate, worker_ctx>>
              /\ done + 1 \in 1..Len(launched)
              /\ gate.value > launched[done + 1]
            BY <1>1, <1>3, <2>6 DEF KernelEnds, Open, Values
        <3>2. done + 1 <= Released
            <4>1. ~(done + 1 <= Released) => launched[done + 1] = gate.wait_val
                BY <3>1 DEF Thresholds
            <4> QED
                BY <1>4, <2>1, <3>1, <4>1
        <3> QED
            BY <2>1, <3>1, <3>2 DEF Released
    <2>7. CASE SetWaitEvent
        BY <2>7 DEF SetWaitEvent, Routes
    <2>8. CASE UNCHANGED <<gate, worker_ctx.ready, done>>
        BY <2>1, <2>8 DEF Released
    <2>9. Record \/ UNCHANGED worker_ctx.ready
        BY <1>3, Writers DEF DriveRoom, TokenAcquired, NoMoreRecords, Cleanup,
            WorkerReports, WaitFails, TypeOK, TimedPlaces
    <2> QED
        BY <2>2, <2>3, <2>4, <2>5, <2>6, <2>7, <2>8, <2>9, Writers
<1>8. CASE HandleStopSignal
    BY <1>8 DEF HandleStopSignal
<1>9. ~SubmitShortKernel
    BY <1>3 DEF SubmitShortKernel
<1>10. ResetStop \/ LaunchTask \/ HandleStopSignal \/ UNCHANGED <<launched, g_stop_requested>>
    BY <1>9, Writers
<1> QED
    BY <1>5, <1>6, <1>7, <1>8, <1>10

(* The objects.                                                            *)
LEMMA ObjectStep ==
    ASSUME TypeOK, [Next]_vars
    PROVE  ObjectOK'
<1> USE DEF Objects, Destroyed
<1>1. object \in [Objects -> {"none", "live", "destroyed", "twice"}]
    BY DEF TypeOK
<1>2. CASE ArgpInit
    BY <1>1, <1>2 DEF ArgpInit, ObjectOK
<1>3. CASE AllocateResources
    BY <1>1, <1>3 DEF AllocateResources, ObjectOK
<1>4. CASE CreateWaitEvent
    BY <1>1, <1>4 DEF CreateWaitEvent, ObjectOK
<1>5. CASE CreateCompletionEvent
    BY <1>1, <1>5 DEF CreateCompletionEvent, ObjectOK
<1>6. CASE DestroyEvents
    BY <1>1, <1>6 DEF DestroyEvents, ObjectOK
<1>7. CASE DestroyResources
    BY <1>1, <1>7 DEF DestroyResources, ObjectOK
<1>8. CASE ArgpDestroy
    BY <1>1, <1>8 DEF ArgpDestroy, ObjectOK
<1>9. CASE UNCHANGED object
    BY <1>1, <1>9 DEF ObjectOK
<1> QED
    BY <1>2, <1>3, <1>4, <1>5, <1>6, <1>7, <1>8, <1>9, ObjectWriters

(* The ways to where the gates have been opened, but for failures.         *)
LEMMA Entering ==
    ASSUME TypeOK, Routes, Ended, [Next]_vars,
           ~Timed, worker' # "none", main' \in AfterGates, ~Broken'
    PROVE  OpenGate \/ LastBatch \/ (main \in AfterGates /\ worker # "none")
<1> USE DEF AfterGates, Closing, Opening, Broken, Timed, Gated
<1>1. "update" \notin failed' /\ "launch" \notin failed' /\ "wait" \notin failed'
    OBVIOUS
<1>2. CASE SetUp
    BY <1>1, <1>2, SMTT(30) DEF SetUp, ArgpInit, AllocateResources, InstallHandlers,
        ResetStop, CreateWaitEvent, CreateCompletionEvent, StartThreads, Start, Routes
<1>3. CASE DriveForDuration
    BY <1>1, <1>3, SMTT(30) DEF DriveForDuration, DiscoverXQueue, DriveStops, AfterDrive,
        DriveContinues, DriveRoom, TokenStop, SubmitShortKernel,
        DrainToTarget, TakeBase, TakeCounters, Routes, TimedPlaces
<1>4. CASE RunTasks
    <2>1. CASE LaunchTask \/ SetWaitEvent
        BY <1>1, <2>1 DEF LaunchTask, SetWaitEvent
    <2>2. CASE NextTask \/ RoomForTask \/ Record
        BY <2>2 DEF NextTask, RoomForTask, Record
    <2>3. CASE DrainBatch \/ NoMoreRecords
        BY <2>3 DEF DrainBatch, NoMoreRecords, Routes
    <2>4. CASE OpenGate \/ LastBatch
        BY <2>4
    <2> QED
        BY <1>4, <2>1, <2>2, <2>3, <2>4, Zenon DEF RunTasks
<1>5. CASE TearDown
    BY <1>5, SMTT(30) DEF TearDown, Cleanup, JoinWorker, JoinHeartbeat, DestroyEvents,
        DestroyResources, ArgpDestroy, Exit
<1>6. CASE RoomWorkerFailed
    BY <1>1, <1>6 DEF RoomWorkerFailed, Ended
<1>7. CASE TimeUp \/ TokenAcquired
    BY <1>7 DEF TimeUp, TokenAcquired, Routes, TimedPlaces
<1>8. CASE CompletionWorker \/ WaitFails
    BY <1>8, SMTT(30) DEF CompletionWorker, WorkerTakes, WorkerEnds, WorkerWakes,
        WorkerReports, WaitFails
<1>9. CASE HeartbeatEnds \/ KernelEnds \/ HandleStopSignal \/ UNCHANGED vars
    BY <1>9 DEF HeartbeatEnds, KernelEnds, HandleStopSignal
<1> QED
    BY <1>2, <1>3, <1>4, <1>5, <1>6, <1>7, <1>8, <1>9, Actions

(* No kernel is left behind a gate when nothing has failed.                *)
LEMMA GatesOpenedStep ==
    ASSUME TypeOK, Routes, Counts, BatchSize, Thresholds, Single, Ended, GatesOpened,
           [Next]_vars
    PROVE  GatesOpened'
<1>1. Values
    BY TypedValues
<1>2. UNCHANGED setup
    BY Writers
<1> SUFFICES ASSUME ~Timed, worker' # "none", main' \in AfterGates, ~Broken'
             PROVE  \A i \in 1..Len(launched') : launched'[i] < gate'.value
    BY <1>2 DEF GatesOpened, AllOpen, Timed
<1>3. \A i \in 1..Len(launched) : launched[i] < Unlimited
    <2>1. CASE Gated
        BY <2>1, Passable
    <2>2. CASE ~Gated
        <3>1. \A i \in 1..Len(launched) : launched[i] = FirstThreshold
            BY <2>2 DEF Single
        <3>2. FirstThreshold < Unlimited
            BY <1>1 DEF Values, FirstThreshold
        <3> QED
            BY <3>1, <3>2
    <2> QED
        BY <2>1, <2>2
<1>4. CASE OpenGate
    <2>1. launched' = launched /\ Gated
        BY <1>4 DEF OpenGate, Routes
    <2>2. gate'.value \in {Unlimited, gate.wait_val + 1}
        <3>1. "update" \notin failed' /\ main' # "loop"
            BY DEF Broken, AfterGates, Closing
        <3>2. \/ gate' = [gate EXCEPT !.value = Unlimited]
              \/ gate' = [value |-> gate.wait_val + 1, wait_val |-> NextThreshold,
                          in_batch |-> 0]
            BY <1>4, <3>1 DEF OpenGate, ValueAtStop
        <3> QED
            BY <3>2 DEF TypeOK
    <2> QED
        BY <1>3, <2>1, <2>2, Passable
<1>5. CASE LastBatch
    <2>1. launched' = launched /\ main = "tail"
        BY <1>5 DEF LastBatch
    <2>2. Len(launched) = worker_ctx.ready
        BY <2>1 DEF Counts, Closing
    <2>3. CASE Gated /\ gate.in_batch = 0
        <3>1. gate' = gate /\ Released = Len(launched)
            BY <1>1, <1>5, <2>2, <2>3 DEF LastBatch, Released, Values
        <3>2. \A i \in 1..Len(launched) : launched[i] < gate.value
            BY <1>1, <2>3, <3>1 DEF Thresholds, Values
        <3> QED
            BY <2>1, <3>1, <3>2
    <2>4. CASE ~Gated
        <3>1. gate' = gate
            BY <1>5, <2>4 DEF LastBatch
        <3>2. /\ \A i \in 1..Len(launched) : launched[i] = FirstThreshold
              /\ worker_ctx.ready # 0 => gate.value = FirstThreshold + 1
            BY <2>4 DEF Single
        <3>3. CASE worker_ctx.ready = 0
            BY <2>1, <2>2, <3>3
        <3>4. CASE worker_ctx.ready # 0
            BY <2>1, <3>1, <3>2, <3>4 DEF FirstThreshold
        <3> QED
            BY <3>3, <3>4
    <2>5. CASE Gated /\ gate.in_batch # 0
        <3>1. gate'.value \in {Unlimited, gate.wait_val + 1}
            BY <1>5, <2>5 DEF LastBatch, ValueAtStop, TypeOK, Broken
        <3> QED
            BY <1>3, <2>1, <2>5, <3>1, Passable
    <2> QED
        BY <2>3, <2>4, <2>5
<1>6. CASE main \in AfterGates /\ worker # "none"
    <2>1. ~Broken
        BY FailedGrows DEF Broken
    <2>2. \A i \in 1..Len(launched) : launched[i] < gate.value
        BY <1>6, <2>1 DEF GatesOpened, AllOpen
    <2>3. launched' = launched
        BY <1>6, Writers DEF LaunchTask, SubmitShortKernel, AfterGates, Closing
    <2>4. gate'.value \in {gate.value, Unlimited}
        <3>1. CASE DrainBatch
            BY <3>1 DEF DrainBatch, ValueAtStop, TypeOK
        <3> QED
            BY <1>6, <3>1, Writers DEF SetWaitEvent, Record, OpenGate, LastBatch,
                AfterGates, Closing
    <2> QED
        BY <1>3, <2>2, <2>3, <2>4
<1> QED
    BY <1>4, <1>5, <1>6, Entering

-----------------------------------------------------------------------------
(* The inductive invariant.                                                *)
LEMMA InitOK ==
    ASSUME Init
    PROVE  IInv
<1>1. setup \in Setups /\ launched = <<>> /\ done = 0 /\ gate.in_batch = 0
      /\ worker_ctx.ready = 0 /\ worker_ctx.completed = 0
    BY DEF Init
<1>2. setup.tasks \in Nat /\ setup.batch \in Nat /\ MaxInflight(setup) \in Nat \ {0}
    BY <1>1, SetupType
<1>3. TypeOK
    <2>1. PlainOK
        BY <1>1 DEF Init, PlainOK, Places
    <2>2. ContextOK
        BY <1>2 DEF Init, ContextOK, Contexts
    <2>3. GateOK
        BY <1>2 DEF Init, GateOK, Unlimited, FirstThreshold
    <2>4. KernelsOK
        BY DEF Init, KernelsOK
    <2>5. WindowOK
        BY DEF Init, WindowOK, NoWindow
    <2>6. ObjectOK
        BY DEF Init, ObjectOK
    <2> QED
        BY <2>1, <2>2, <2>3, <2>4, <2>5, <2>6, TypeParts
<1>4. Routes
    BY DEF Init, Routes, Opening, Closing, TaskPlaces, TimedPlaces
<1>5. Stops /\ Ended /\ GatesOpened
    BY DEF Init, Stops, Ended, GatesOpened, Opening, Closing, AfterGates, WorkerFailed,
        Joined, Finished
<1>6. LoopDone
    BY DEF Init, LoopDone, Closing
<1>7. Counts
    BY <1>1, <1>2 DEF Init, Counts, Closing
<1>8. Room
    BY <1>1, <1>2 DEF Init, Room, InFlight
<1>9. BatchSize
    BY <1>1 DEF Init, BatchSize
<1>10. WholeBatches
    <2>1. Released = setup.batch * 0
        BY <1>1, <1>2 DEF Released
    <2> QED
        BY <2>1 DEF WholeBatches
<1>11. Thresholds /\ Shut /\ Single
    BY <1>1, <1>2 DEF Init, Thresholds, Shut, Single, Released, FirstThreshold
<1>12. Lives
    BY DEF Init, Lives, Objects, Events, AfterEvents
<1>13. Measures
    BY DEF Init, Measures, NoWindow
<1> QED
    BY <1>3, <1>4, <1>5, <1>6, <1>7, <1>8, <1>9, <1>10, <1>11, <1>12, <1>13 DEF IInv

LEMMA Inductive ==
    ASSUME IInv, [Next]_vars
    PROVE  IInv'
<1> USE DEF IInv
<1>1. TypeOK'
    BY PlainStep, ContextStep, GateStep, KernelsStep, WindowStep, ObjectStep
        DEF TypeOK, PlainOK, ContextOK, Contexts, GateOK, KernelsOK, WindowOK, ObjectOK
<1>2. Routes'
    BY RoutesStep
<1>3. Stops'
    BY StopsStep
<1>4. Counts'
    BY CountsStep
<1>5. Room'
    BY RoomStep
<1>6. BatchSize' /\ WholeBatches'
    BY BatchSizeStep, WholeBatchesStep
<1>7. Thresholds' /\ Shut'
    BY ThresholdsStep, ShutStep
<1>8. Single'
    BY SingleStep
<1>9. Ended' /\ LoopDone'
    BY EndedStep, LoopDoneStep
<1>10. GatesOpened'
    BY GatesOpenedStep
<1>11. Lives'
    BY LivesStep
<1>12. Measures'
    BY MeasuresStep
<1> QED
    BY <1>1, <1>2, <1>3, <1>4, <1>5, <1>6, <1>7, <1>8, <1>9, <1>10, <1>11, <1>12

(* Proved about every reachable state: the threads, the gate, the counters *)
(* and the objects as kernel_launch leaves them between two statements.    *)
LEMMA Invariance == Spec => []IInv
<1>1. Init => IInv
    BY InitOK
<1>2. IInv /\ [Next]_vars => IInv'
    BY Inductive
<1> QED
    BY <1>1, <1>2, PTL DEF Spec

-----------------------------------------------------------------------------
(* No more kernels are launched than the window has room for, but for the  *)
(* one dpu_ts launches after a stop.                                       *)
LEMMA WindowKept ==
    ASSUME TypeOK, Counts, Room
    PROVE  InFlightBound
<1>1. Values
    BY TypedValues
<1>2. MaxInflight(setup) \in Nat
    BY SetupType DEF TypeOK
<1>3. CASE Timed
    <2>1. Len(launched) <= worker_ctx.ready
        BY <1>1, <1>3 DEF Counts, Values
    <2>2. worker_ctx.ready - worker_ctx.completed
              <= MaxInflight(setup) + IF g_stop_requested THEN 1 ELSE 0
        BY <1>1, <1>2 DEF Room, InFlight, Values
    <2> QED
        BY <1>1, <1>2, <1>3, <2>1, <2>2 DEF InFlightBound, Values
<1>4. CASE ~Timed
    BY <1>1, <1>2, <1>4 DEF InFlightBound, Room, Values
<1> QED
    BY <1>3, <1>4

(* Whole batches are not more than the whole batches of what is launched.  *)
LEMMA WholePart ==
    ASSUME NEW b \in Nat \ {0}, NEW k \in Nat, NEW n \in Nat, b * k <= n
    PROVE  b * k \in Nat /\ b * (n \div b) \in Nat /\ b * k <= b * (n \div b)
<1>1. n \div b \in Nat /\ n < b * (n \div b) + b
    OBVIOUS
<1>2. DEFINE q == n \div b
<1>3. b * (q + 1) = b * q + b /\ q \in Nat
    BY <1>1
<1> HIDE DEF q
<1>4. b * k < b * (q + 1)
    BY <1>1, <1>3 DEF q
<1>5. k < q + 1
    BY <1>3, <1>4
<1>6. k <= q
    BY <1>3, <1>5
<1>7. b * k <= b * q
    BY <1>3, <1>6
<1>8. b * k \in Nat /\ b * q \in Nat
    BY <1>3
<1> QED
    BY <1>7, <1>8 DEF q

LEMMA GateKept ==
    ASSUME TypeOK, Routes, Counts, BatchSize, WholeBatches, Shut
    PROVE  GateHolds
<1> SUFFICES ASSUME Gated, done <= Released
             PROVE  done <= setup.batch * (Len(launched) \div setup.batch)
    BY DEF GateHolds, Shut
<1>1. Values
    BY TypedValues
<1>2. setup.batch \in Nat \ {0} /\ ~Timed
    BY <1>1, SetupType DEF Values, Gated, TypeOK
<1>3. PICK k \in Nat : Released = setup.batch * k
    BY DEF WholeBatches
<1>4. Released <= Len(launched)
    BY <1>1, <1>2 DEF Counts, Values, Released
<1>5. /\ setup.batch * k \in Nat
      /\ setup.batch * (Len(launched) \div setup.batch) \in Nat
      /\ setup.batch * k <= setup.batch * (Len(launched) \div setup.batch)
    BY <1>1, <1>2, <1>3, <1>4, WholePart DEF Values
<1> QED
    BY <1>1, <1>3, <1>5 DEF Values

(* Whatever the timing, no kernel is left when its event is destroyed.     *)
LEMMA KernelsGone ==
    ASSUME TypeOK, Routes, Counts, Ended, Lives
    PROVE  EventsOutliveKernels
<1> SUFFICES ASSUME object["comp_event"] = "destroyed",
                    failed \cap {"wait", "update"} = {}
             PROVE  done = Len(launched)
    BY DEF EventsOutliveKernels
<1>1. Values
    BY TypedValues
<1>2. worker \in {"none", "ended"} /\ "wait" \notin failed /\ "update" \notin failed
    BY DEF Lives
<1>3. CASE worker = "none"
    BY <1>1, <1>3 DEF Routes, Values
<1>4. CASE worker = "ended"
    <2>1. worker_ctx.completed = worker_ctx.ready
        BY <1>2, <1>4 DEF Ended
    <2>2. Len(launched) <= worker_ctx.ready
        BY <1>1, <1>2, SMTT(30) DEF Counts, Values, Lives, Closing
    <2> QED
        BY <1>1, <2>1, <2>2 DEF Counts, Values
<1> QED
    BY <1>2, <1>3, <1>4

LEMMA OnceOnly ==
    ASSUME TypeOK, Lives
    PROVE  DestroyedOnce
BY DEF Lives, DestroyedOnce, Objects, Events, AfterEvents

(* What keeps a join from returning is a failure.                          *)
LEMMA NoHang ==
    ASSUME IInv, ~Broken
    PROVE  ~Stranded
<1> USE DEF IInv
<1>1. Values
    BY TypedValues
<1>2. "launch" \notin failed /\ "update" \notin failed /\ "wait" \notin failed
    BY DEF Broken
<1>3. main \in Closing /\ worker # "none" => AllLaunched \/ Timed
    BY DEF LoopDone
<1>4. ASSUME main = "join", WorkerStuck
      PROVE  FALSE
    <2>1. worker = "wait" /\ done <= worker_ctx.completed
        BY <1>4 DEF WorkerStuck
    <2>2. PICK k \in (done + 1)..(worker_ctx.completed + 1) :
             k > Len(launched) \/ ~Open(launched[k])
        BY <1>4 DEF WorkerStuck
    <2>3. worker_ctx.completed < worker_ctx.ready /\ done = worker_ctx.completed
        BY <1>1, <2>1 DEF Counts, Values
    <2>4. Len(launched) = worker_ctx.ready
        BY <1>2, <1>4, SMTT(30) DEF Counts, Closing
    <2>5. k \in 1..Len(launched)
        BY <1>1, <2>2, <2>3, <2>4 DEF Values
    <2>6. ~Timed => launched[k] < gate.value
        BY <1>4, <2>1, <2>5 DEF GatesOpened, AllOpen, AfterGates, Closing
    <2>7. launched[k] \in Nat
        BY <2>5 DEF TypeOK
    <2> QED
        BY <1>1, <2>2, <2>5, <2>6, <2>7 DEF Open, Values
<1>5. ASSUME main = "join_heartbeat", HeartbeatStuck
      PROVE  FALSE
    <2>1. heartbeat = "beat" /\ ~g_stop_requested /\ ~AllCompleted
        BY <1>5 DEF HeartbeatStuck
    <2>2. ~Timed /\ worker # "none" /\ worker = "ended"
        BY <1>5, <2>1 DEF Routes, TaskPlaces, Ended, Joined
    <2>3. worker_ctx.completed = worker_ctx.ready /\ ~worker_ctx.accepting
        BY <1>2, <2>2 DEF Ended
    <2>4. Len(launched) = setup.tasks
        BY <1>3, <1>5, <2>1, <2>2 DEF Closing, AllLaunched
    <2>5. Len(launched) = worker_ctx.ready
        BY <1>2, <1>5, <2>2, SMTT(30) DEF Counts, Closing
    <2> QED
        BY <1>1, <2>1, <2>3, <2>4, <2>5 DEF AllCompleted, Values
<1> QED
    BY <1>4, <1>5 DEF Stranded

(* Success means that all tasks were completed.                            *)
LEMMA SuccessIsTrue ==
    ASSUME IInv
    PROVE  SuccessIsCompletion
<1> SUFFICES ASSUME exit_status = "success", ~Timed, ~g_stop_requested
             PROVE  worker_ctx.completed = setup.tasks
    BY DEF SuccessIsCompletion
<1> USE DEF IInv
<1>1. Values
    BY TypedValues
<1>2. result = "OK" /\ main = "exited"
    BY DEF Ended
<1>3. worker = "ended"
    BY <1>2 DEF Ended, Joined, Routes, Closing
<1>4. worker_ctx.worker_result = "OK" /\ "wait" \notin failed
    BY <1>2 DEF Ended, Joined, Finished, WorkerFailed
<1>5. worker_ctx.completed = worker_ctx.ready
    BY <1>3, <1>4 DEF Ended
<1>6. Len(launched) = setup.tasks
    BY <1>2, <1>3 DEF LoopDone, Closing, AllLaunched
<1>7. Len(launched) = worker_ctx.ready
    BY <1>2, SMTT(30) DEF Counts
<1> QED
    BY <1>5, <1>6, <1>7

LEMMA WindowIsTrue ==
    ASSUME TypeOK, Stops, Measures
    PROVE  WindowIsMeasured
<1> SUFFICES ASSUME phase = "measured", asked # "heard"
             PROVE  /\ window.completed - window.base_completed
                          <= window.submitted - window.base_submitted
                    /\ window.submitted - window.base_submitted
                          <= window.completed - window.base_completed
                                + MaxInflight(setup)
    BY DEF WindowIsMeasured
<1>1. /\ window.completed \in Nat /\ window.base_completed \in Nat
      /\ window.submitted \in Nat /\ window.base_submitted \in Nat
    BY DEF TypeOK, NoWindow
<1>2. MaxInflight(setup) \in Nat
    BY SetupType DEF TypeOK
<1>3. /\ window.base_completed = window.base_submitted
      /\ window.completed <= window.submitted
      /\ window.submitted <= window.completed + MaxInflight(setup)
    BY DEF Stops, Measures
<1> QED
    BY <1>1, <1>2, <1>3

-----------------------------------------------------------------------------
(* The variables of kernel_launch and its threads keep to their ranges:    *)
(* completed and ready never pass the number of tasks, and the gate stays  *)
(* below UINT64_MAX until it is opened for good.                           *)
THEOREM TypeCorrect == Spec => []TypeOK
<1>1. IInv => TypeOK
    BY DEF IInv
<1> QED
    BY <1>1, Invariance, PTL

(* No loop of the three programs launches beyond the room of the window    *)
(* (max_inflight), no kernel of a batch runs before low opens its gate,    *)
(* and a stop signal is answered by at most one more launch.               *)
THEOREM LaunchesDisciplined == Spec => []LaunchDiscipline
<1>1. IInv => LaunchDiscipline
    BY WindowKept, GateKept DEF IInv, LaunchDiscipline, StopIsHeeded, Stops
<1> QED
    BY <1>1, Invariance, PTL

(* The cleanup of kernel_launch and of main() destroys each object once,   *)
(* and comp_event after the last kernel that sets it.                      *)
THEOREM ObjectsAreReleased == Spec => []ObjectsReleased
<1>1. IInv => ObjectsReleased
    BY KernelsGone, OnceOnly DEF IInv, ObjectsReleased
<1> QED
    BY <1>1, Invariance, PTL

(* pthread_join of the worker and of the heartbeat in the cleanup can      *)
(* always return, unless a launch, an update of wait_event or a wait has   *)
(* failed.                                                                 *)
THEOREM HangsOnlyAfterFailure == Spec => []StrandedOnlyByFailure
<1>1. IInv => StrandedOnlyByFailure
    BY NoHang DEF StrandedOnlyByFailure, Broken
<1> QED
    BY <1>1, Invariance, PTL

(* The exit status of low and high, and the counters of the RESULT line of *)
(* dpu_ts, say what has happened.                                          *)
THEOREM ReportsAreTrue == Spec => []ReportIsTrue
<1>1. IInv => ReportIsTrue
    BY SuccessIsTrue, WindowIsTrue DEF IInv, ReportIsTrue
<1> QED
    BY <1>1, Invariance, PTL
=============================================================================
