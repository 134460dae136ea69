# DReX: models, model checking and proofs

DReX runs tasks on remote machines. `remote_server` receives a directory over a
gRPC stream, runs a command in it and streams the terminal output back;
`remote_client` and `integrated_client` are its clients; `integrated_client` and
`resource_client` talk to a resource controller over bRPC, which is not part of
the repository; the programs under `application/` are the workloads.

This directory holds TLA+ modules for the server, for the clients, for the runtime
control of running tasks and for the DPU and GPU programs, TLC configurations that
check them on small instances, and TLAPS proofs that hold for every value of the
constants. Paths and line numbers are those of the repository.

    tlc -config Submission.cfg MCTaskSubmission      # one model-checking run
    tlapm TaskSubmissionProofs.tla                   # the proofs of a module

## 1. Inventory

| Component | State | Operations | Interacts with |
|---|---|---|---|
| Submission RPC (`server/remote_service_implement.cc` 156-238, 385-431) | `g_locked_subdirs`, one `WorkspaceLockGuard` per call, the tree under `workspace/` | `TaskSubmission`: resolve paths, lock, upload, execute, clean up, unlock | executor, registry, clients |
| Upload session (240-383) | open file and its path, `received_config_` | `HandleConfig`, `HandleFileChunk`, `CloseCurrentFile` | client stream |
| Executor (`server/task_executor.cc`) | child, pipe or terminal, `cancelled`, `stop_cancel_thread` | `Execute`, `StartChildProcess`, `MonitorChildProcess` with a cancel thread | kernel, client stream |
| Runtime registry (`server/task_runtime_control.cc`) | `g_workspace_to_pgid` | register, unregister, `UpdateTaskProcessUtilization` | executor, `UpdateUtilization`, `xcli` |
| Utilization | `.drex_utilization` of each workspace, the hints of xsched | written by the executor, the forked child and `UpdateUtilization`; read by the command | commands of `application/` |
| Client library (`client/client_api.cc`) | stream, upload status, signal handlers | `TaskSubmit`, `UpdateUtilization`, reading of the responses | server |
| `remote_client`, `integrated_client`, `resource_client` | the reservation's task id | apply, query, execute, release, update | controller (external), server |
| DPU programs (`application/dpu_ts`, `dpu/low_priority`, `dpu/high_priority`) | counters of submitted and completed kernels, launch gate, stop flag, objects of DOCA | main thread, completion worker, heartbeat, signal handlers | DOCA, xsched (external) |
| GPU programs (`application/gpu_*`) | engine file, count in shared memory, tokens and counters of a window | `TRTModel`, `ProcessSync`, `TokenThrottle`, the loop over windows | CUDA, TensorRT (external), each other |

What makes each part correct, and where it is hard:

* **Submission RPC.** Handlers run on concurrent gRPC threads and share the lock
  set, the registry and the directory tree; a client may cancel at any point.
  A key is locked by at most one call, every exit path ends in `Cleanup()` and
  then `Release()`, a call sees no files but its own, and loses none of them to
  another call.
* **Upload session.** Client and server talk over a bounded stream that either
  may leave. The command must run on what was sent; OK must not be said of an
  upload that failed; neither side may wait for the other for ever.
* **Executor.** The monitor runs beside a thread that signals the process group,
  with a child that may close its output, hang, fork or ignore SIGTERM. The
  report must be true and complete, nothing may be left running after a
  cancellation, no signal may reach a group that is not the child's any more, and
  every call must end when it is cancelled, times out or its command exits.
* **Runtime registry and utilization.** Three writers of one file, no lock, and a
  process group used after the mutex is dropped. An answer OK must be true.
* **Resource clients.** A reservation has to be released whatever fails after it,
  and not before the call has ended; exceptions, retries and signals each find
  their own way past the release.
* **DPU programs.** Credits pass between two threads under failures and signals;
  kernels that are launched behind a gate need somebody to open it, and the joins
  at the end need them to complete.
* **GPU programs.** Two processes share a barrier that one of them initializes and
  that outlives both, and a file that each may write, read or remove.

The rest of the repository (logging, statistics, the helpers of `dpa_common.c`
without a caller, compute loops, scripts) is sequential or external;
`PROJECT.json` lists it with the reason why it is not modelled.

## 2. Modules and plan

| Module | What it is | Status |
|---|---|---|
| `Ownership` | abstract: directories have owners, are taken empty, written by their owner only, given back empty | done |
| `TaskSubmission` | all calls of the RPC; implements `Ownership`; the monitor is one step | done |
| `TaskMonitor` | one run of `MonitorChildProcess`, thread by thread; implements the monitoring steps of `TaskSubmission` | done |
| `Upload` | one `TaskSubmit` against one download session, request by request | done |
| `Reservation` | the three clients on top of `Upload`, the pool of the controller, a second client that changes the utilization | done |
| `Utilization` | submissions, updates and a command that reads the file | done |
| `DpuDriver` | the three DPU programs: window, worker, heartbeat, tokens, gate, cleanup | done |
| `GpuLoop` | the four GPU programs, two processes at a time: engine file, barrier, tokens, windows, restarts | done |
| `TaskSubmissionProofs`, `TaskMonitorProofs`, `UploadProofs`, `ReservationProofs`, `UtilizationProofs`, `DpuDriverProofs`, `GpuLoopProofs` | theorems about the module of that name; `ReservationProofs` extends `UploadProofs` | done |
| `OwnershipProofs` | `TaskSubmission` implements `Ownership`; extends `TaskSubmissionProofs` | done |
| `Paths` | `IsSubPath`, `LexicallyNormalized`, `ResolveTaskPaths` as operators on sequences of components | open |

`MC...` modules give the instances for TLC. `Reservation` extends `Upload`, so that
its run checks both. The three DPU programs are one module because they are three
versions of one program; what they differ in is a field of `setup`, and so for the
GPU programs. Every safety property and every refinement that a passing run
checks is the statement of a theorem (section 6).

## 3. How the modules correspond to the code

Variables keep the names of the code (`g_locked_subdirs`, `cleanup_registered_`,
`stop_cancel_thread`, ...); `pc`, `cpc`, `spc`, `upc` say where a thread stands.
An action is the code between two points at which another thread or process can
see a difference. `PROJECT.json` maps every definition to its lines.

**`TaskSubmission`.** A session is one call on one handler thread. A directory of
the tree is the set of sessions that have files in it, which is all the cleanup
can tell. `Resolve` is what `ResolveTaskPaths` makes of a config: a workspace, an
output directory and whether the name ended in a slash (`fs::relative` drops the
slash only of a directory that exists). The handler goes through download,
execute, fork, register, monitor, unregister, cleanup, release; `Return` is any
early return, after which the guard's destructor runs. `HalfClose` is the client's
`WritesDone()` and apart from `EndOfStream`, the handler's `Read()` that finds it.
`Faults` lets `poll()` or `read()` fail, `waitpid()` fail, `remove_all()` fail, and a
command leave a background process behind; each of these may let a process outlive
the call, or a file its cleanup, and `remains` remembers which did.

**`TaskMonitor`.** The handler's loop (reap, poll, read), what follows it (close,
join, wait), the cancel thread (watch, recheck, kill), the shell, at most one
background process, and a process outside the group that holds the pipe open.
`exit` is the status the kernel keeps; the code has it in `wait_status` when the
loop reaped the child (348), in `status` when the wait after it did (455), and
`Verdict` reads `status` only (454-482). The cancel thread is joined at four places
(371, 388, 435, 450), each an action of its own. The blocking `waitpid()` may fail at
both its places (391, 455): the call then returns without having reaped the child.
A chunk is its writer. Time is a choice: any `poll()` that finds nothing may be
the one that exceeds the idle timeout. Grace periods are between two actions.

**`Upload`.** The client's loop over files and chunks, the bounded stream
(external: ordered, and lost on cancellation), and the download session with its
open file and buffer. A chunk is its position. `Full` are the files that end with
a full chunk, whose last request carries no `file_end`. `cut` remembers where a
failure went unnoticed by the code. `command` is apart from the handler: the
command starts under `Execute`, ends by itself or by a signal, and outlives the
handler when `poll()`, `read()` or `waitpid()` fails or the shell leaves a process
behind (the fault `"outlive"`).

**`Reservation`.** `stage` is the place in `main()`: options, workspace, apply,
query, target, execute, release. Inside `execute` the steps are those of `Upload`;
a signal there ends the stream and no more. The controller is a set of
reservations, each named by the attempt of `apply_resource` that made it: an
attempt whose answer is lost may have made one. `missing` is the option that is
not given, so that each program's own checks decide. `why` remembers what happened.
`xsched_utilization.runtime` is the set of values the processes of the command run
with: an update that is answered OK may have reached some of them only
(`task_runtime_control.cc` 181-197), and a process may take the value of the
submission afterwards (`ConfiguresAnew`: the child that has yet to configure itself,
`task_executor.cc` 279, or a process started later, 163-178).

**`Utilization`.** Submissions reduced to where they touch the registry, the file
and the processes; updates as look-up, scan, one hint per process, write, reply;
`Refill` is the command reading the file. `alone` is a history variable: nothing
else touched the utilization of that workspace since the call began.

**`DpuDriver`.** `main` goes through the options, the device, the events and the
threads, then through `drive_for_duration` (`dpu_ts`) or the loop over the tasks
(`low`, `high`), and the cleanup. `worker_ctx` is the structure both threads share;
one step is one critical section. `launched` holds the threshold of each kernel,
`done` how many have ended, in order; `gate.value` is the value of `wait_event`. An
object of DOCA is none, live, destroyed or destroyed twice. The deadline may pass
at any moment, and a token of xsched may never come.

**`GpuLoop`.** A process goes from `run.sh` through the engine file, the barrier and
the warm-up to the windows. A shared-memory segment is a count, a mutex and
whether it has been initialized; `key` is the segment a process would attach now,
`segment[p]` the one it has. `engine` is the file: none, a part or the whole of an
engine, and who writes it. The utilization file has any contents at each refill
(what gets into it is `Utilization`'s part). The bound `tasks` ends a window.

### Abstractions

* `EmitLogChunk()` returns: flow control of the response stream is not modelled.
* Process and group numbers are not reused.
* A write of the utilization file is one step; the command never sees half a
  number (it would keep its old value).
* Contents, names, wording and logging are left out.
* The resource limits of the kernel are left out, except where the code handles
  them (a failed `fork`, `pipe`, `open`).

## 4. What the runs check

| Run | Instance | Result |
|---|---|---|
| `submission` | two calls, two workspaces side by side, one with a directory inside, one with an output directory elsewhere, and a path out of the root; no faults | all hold |
| `submission_faults` | two calls, one workspace, all faults, fairness | all hold |
| `nested_workspaces` | `a`, `a/` and `a/b` | `PrivateSubtree` violated |
| `monitor` | terminal, idle timeout, every behaviour, pipe of two chunks, fairness | all hold |
| `monitor_cancel` | pipe, no idle timeout, output kept open, fairness | all hold |
| `cancel_ignored` | the shell closes its output | `CancelEnds` violated |
| `aborted_upload` | a file cannot be opened | `RunsOnWholeUpload` violated |
| `utilization` | one submission, two updates, two names of one workspace, two values, faults, fairness | all hold |
| `stale_utilization` | one update without a command | `FreshWorkspace` violated |
| `reservation` | the three clients, four files (two full chunks, none, one, one full), stream of two requests, one retry, every fault, fairness | all hold |
| `dpu_driver` | seven set-ups: warm-up, tokens, heartbeat, window of one by default, no task, batches with and without drain; every fault, fairness | all hold |
| `gpu_loop` | six set-ups, two processes, started up to twice, up to two windows; every fault, fairness | all hold |

What they show, by component:

* `PrivateSubtree`, `UploadIntact`: submissions neither see nor lose files to each
  other. `ImplementsOwnership`: the guard as a whole keeps the promise of its comment
  (224-225). These three assume workspaces apart and no process that outlives its
  shell; finding 1, and the first of the known limits, are what happens without.
  `LockExact`, `RegistryExact`: with every fault the lock set and the registry agree with the handlers at every moment.
  `LeftoversAccounted`: with every fault, what a returned call leaves behind has its
  reason, and its status does not deny it (no process after CANCELLED or
  DEADLINE_EXCEEDED, no running shell but after INTERNAL). `WorkspaceGivenBack`: no
  exit path forgets a key, once the client has half-closed or cancelled; a client
  that does neither keeps its workspace, since `Read()` has no deadline.
* `CancelledMeansKilled`, `StatusTruthful`, `OutputComplete`, `SignalsOwnGroup`:
  whatever the interleaving of the two threads and the processes, the status is that
  of the command or names the call that failed, the output of the shell is complete,
  the group of a cancelled call is gone, no path out of the loop leaves a SIGKILL to
  come, and a timeout signals no group that has been reaped. `CancelEnds`, `ExitEnds`,
  `TimeoutEnds`: the three ways to end a call do end it. `ImplementsMonitoring`: the
  one-step monitor of `TaskSubmission` is a sound view of this one.
* `RunsOnWhatWasSent`, `DiskIsPrefix`: the protocol delivers, buffers and closes in the
  right order. `OkMeansEveryChunk`: a failure of the upload is not reported as a
  success; it says nothing of the files at which nobody looks at a failure, and that
  files without a chunk are missing (see the known limits). `RunsUnderReservation`: while
  its call lasts and is not cancelled, the command never runs on a node that has been
  given back; a command that outlives its handler may, but never after CANCELLED.
  `ReservationReturned`: what is left in the pool has one of four named reasons.
  `UtilizationAccounted`: the node and the pool differ only when the program that made
  the change says so, or when the OK of the server did not speak for every process or
  was overtaken by the value of the submission; and a reported success has reached
  both. `EveryClientEnds`: neither side of the stream waits for the other for ever.
* `AcknowledgedHolds`: an OK is true, with hints and file. `UpdateReachesCommand`:
  it gets to the command.
* `LaunchDiscipline`: the window, the gate and a stop are respected (with one
  kernel too many in `dpu_ts`, see below). `ObjectsReleased`: no event is destroyed
  while a kernel may set it, nothing leaks. `StrandedOnlyByFailure`,
  `EveryProgramEnds`: stops, deadlines and the end of the tasks always get through
  the cleanup; only a failed launch, update or wait can strand it. `ReportIsTrue`:
  the exit status and the counters of the RESULT line are those of the window.
* `WindowsInStep`: two processes on a fresh barrier measure the same window at the
  same time. `ReportIsTrue`: every window is reported, no inference without its
  token, and a damaged engine has a culprit. `EveryLoopEnds`: a process that waits
  for ever waits for one that has left the loop, died, or has another segment.

### Bounds

Two calls suffice for every property of the lock: each relates at most two
sessions, and the proofs remove the bound. Two workspaces with a nested directory
and an output directory elsewhere give every overlap the path rules allow. A
pipe of two chunks lets output of two writers queue up; the proofs remove the
bound. Files of zero, one and two chunks, with and without a full last chunk,
give every combination of start and end flags in a row. Two updates and one
submission are all that can meet on one workspace: a second submission waits for
the lock. A retry of `apply_resource` gives two attempts, of which none, either or
both may have reserved. Five tasks in batches of two give two full batches and one
that is not; a window of three lets one batch overlap the next. Two windows give a
barrier that is passed a second time, two starts a segment and an engine that are
already there. `submission` has two
workspaces, `submission_faults` has one, for which two calls compete, and every fault;
together they fire every action. Deadlock is not checked, because in every model the
calls come to an end and nothing is left to do; that they do come to an end is stated
as liveness where it matters.

### Fairness

Weak fairness of the handler thread, the cancel thread, the client's loop and the
server's session: each is a thread that no lock keeps out for ever (both mutexes
protect a few statements). In `submission_faults` the fairness is that of the
handler alone: no client sends, half-closes or cancels because of it, and no command ends;
`WorkspaceGivenBack` asks for the half-close or the cancellation, and is content with
a handler that waits for a command that runs. A handler whose processes are gone
comes out of the monitor, which is `ExitEnds` of `TaskMonitor`. `monitor` and
`monitor_cancel` assume nothing of the command either. A child gets to its `execl()`,
and a command that runs goes on refilling. In `reservation` the controller answers or the call times out
(`timeout_ms`), and the command ends, without which nothing in the server ends it
but a cancellation. In `dpu_driver` threads are scheduled, a
kernel that may run ends, and the deadline passes; a token need never come. In
`gpu_loop` each process is scheduled; it need not be stopped, killed or started
again. Clients, signals and faults are never assumed to happen.

## 5. Findings

Each is a run that TLC must find violated, checked against a comment or the
documentation of the repository.

1. `nested_workspaces`: keys are compared as whole strings, so `a` and `a/b` are
   both locked and one cleanup removes the files of the other; so are `a` and `a/`
   as long as the directory does not exist.
2. `cancel_ignored`: once a command has closed its output, a cancellation stops
   nothing and the idle timeout does not apply.
3. `aborted_upload`: a client that fails to open a file half-closes the stream,
   and the server runs the command on what has arrived.
4. `stale_utilization`: a refused update still writes its file, into a workspace
   nobody will clean up before the next submission.

Known limits of the code that are in the models but have no run of their own,
each an exception a property names:

* when `poll()` or `read()` on the output of the command fails (`task_executor.cc`
  365-374, 433-438), the handler returns INTERNAL, cleans up and unlocks while the command
  runs on and writes into what is the next call's workspace (the fault `"poll"`;
  `LeftoversAccounted`);
* a file of no bytes is never sent (`client_api.cc:158`); a failed `read()` is taken for
  the end of the file (157), and a failed `close()` on the server is not looked at
  (`remote_service_implement.cc:369`): the submission returns OK all the same
  (`OkMeansEveryChunk` names the three);
* a client that has sent its config and falls silent keeps its workspace
  (`remote_service_implement.cc:252`);
* a background process survives the call that started it and may write into the
  next one's workspace (`task_executor.cc:448`, the fault `"helper"`), and
  `integrated_client` releases its reservation all the same; a `waitpid()` that fails
  leaves a zombie (391, 455); the path of an idle timeout leaves `read_fd` open (391);
* the child rewrites the utilization of its config after it is registered and can
  undo an acknowledged update (`task_executor.cc:279`); an update is answered OK when
  one of several hints was taken (`task_runtime_control.cc` 181-197); an update by a name that is
  not normalized finds no task but writes the file (`task_runtime_control.cc:167`);
  two concurrent updates may leave hints and file with different values;
* `integrated_client` keeps its reservation after an exception between apply and
  submit, a signal outside `TaskSubmit` or a failed release; an update that fails
  at the controller is not taken back at the server;
* `dpu_ts` launches one kernel beyond the window when a stop ends the wait for room
  (178), forgets a stop that comes before line 313, and does not look at the worker's
  result after its last kernel; a failed launch, update or wait strands the
  cleanup of all three programs; an event that could not be set up is destroyed
  twice; `heartbeat_started` may be read without a value;
* a GPU process that leaves the barrier early, or dies with its mutex, strands the
  other; the count is never reset but by `GPU_DYNAMIC_UP_RESET_SYNC`, which splits
  two processes if it comes between them; the engine is written in place.

## 6. What is proved

The theorems hold for any sets of sessions, directories, updates and names, any
size of the pipe, and any behaviour of clients and commands the modules allow.

**`TaskSubmissionProofs`.** `LockAndRegistryExact` needs no assumption beyond those
of the module. Its invariant adds that a call holds its lock at every location
between the accepted config and the release, and that it registers and
unregisters only under it. `LeftoversAreAccounted` needs no further assumption
either: `LeftInv` follows the files and the processes of each session separately
(`FilesOf`, `ProcessesOf`, `RemainsOf`), and a step of one session can only take files
from another (`OthersUntouched`). `WorkspacesIsolated` and `UploadsStay` assume
`SeparateWorkspaces` (no trailing slashes, no overlapping areas) and no faults;
finding 1 and the first of the known limits show that each
assumption is needed. The argument: two guards that are registered for cleanup have different keys (`LockInv`), hence disjoint
areas (`OwnersApart`); a file lies in the area of its own session, and only while
the guard is still to clean it up (`FilesInv`); the child lives only between fork
and the end of the monitor (`ProcessInv`); so no cleanup touches another area.

**`TaskMonitorProofs`.** `ThreadInv` ties the two flags to the places of the two
threads, `ChildInv` says which wait has reaped the child, that the variable of that
wait holds what the child exited with, and that a SIGKILL left no process of the
group, `OutputInv` that a loop that was left through the end of the
stream or a drained pipe has nothing of the shell left to read. From these follow
the safety properties of the runs, with every failure of `poll()`, `read()` and
`waitpid()`. `MonitorImplementsSubmission` proves the
refinement step by step: the return of the monitor is one of three steps of
`TaskSubmission`, signals and exits map to steps of its processes, everything
else is invisible.

**`UtilizationProofs`.** `AcknowledgedUpdateHolds` rests on `Knows` (a call that
found a task found one of the workspace its name denotes, which has been started;
by `RegistryInv` a key holds only tasks of its own workspace) and `Stands` (a call
that is alone is the only one for its workspace, so neither its hints nor its file
were touched); a submission that configures or cleans up disturbs the calls of its
workspace, and a process that is started afterwards was not hinted
(`ProcessInv`).

**`OwnershipProofs`.** `GuardImplementsOwnership`, under the assumptions of
`WorkspacesIsolated`: the holder of a directory is the session whose guard covers
it, and there is at most one (`LockedApart`, `HolderOfArea`). An accepted lock is a
step that takes empty directories (`AcquireTakes`), what a session or its command
writes or erases is its own (`WritesItsOwn`, `ErasesItsOwn`), the release gives empty
directories back (`ReleaseGives`), everything else is invisible.

**`UploadProofs`.** For any list of files, any room in the stream and all the faults.
The requests are numbered by file and chunk. `Queue` and `Progress` say that what the
server has taken, what is in the stream and what the client wrote last are one
sequence of those numbers without a gap; `Client` and `Server` say which number each
of the two stands at, place by place; `Prefixes` that file and buffer together hold
the first chunks of the file. An action moves one boundary of that sequence.
`FilesAreBeginnings`, `CommandSeesAllSent` and `OkIsEveryChunk` follow. `CommandStep`
says that the command changes nothing of it.

**`ReservationProofs`.** For any list of files, any `MaxRetry` and all the faults.
The invariant has a part for each half of the story: `CallOver` (TaskSubmit returns
only from a call that has ended or was cancelled), `CommandWatched` (no command
before the end of the stream, none running after CANCELLED), `InHand` (from `query` to
`release` the reservation the client knows of is in the pool), `NotTooEarly` (it is
given back only when the call is over) and `Accounted` (what is left in the pool has
a reason). The upload enters by one lemma only, `UploadStep`: none of its steps undoes
the end of a call. `UtilizationIsAccounted` needs `Halfway`, which says that a second
client that has not ended has not failed, reaches the pool only after the command,
and that the value does not leave the command altogether in between.
The theorems of the upload carry over (`ClientFilesAreBeginnings` and the two after
it): every step of a client is a step of `Upload`, leaves its variables alone, or is
the loss of the stream (`UploadOrHangup`).

**`DpuDriverProofs`.** For any number of tasks, any window, any size of a batch and all
the faults. The counters stand behind one another (reported, ended, launched), and
launched is at most `max_inflight` ahead where the loop has made room. The gate needs
more: the kernels of the batches whose gate has been opened are a whole number of
batches, the threshold of the batch under way is above theirs, and the gate value is
below it. `LoopDone` and `GatesOpened` give the exit status its meaning, `Lives` follows
each object through the places of `main`, and what is known after a failure gives
`HangsOnlyAfterFailure`.

**`GpuLoopProofs`.** For any number of processes, setups, windows and restarts.
`WindowsAreShared` rests on a sum: while a segment has had two users and was not used
before it was initialized, its count is the number of arrivals of the one and of the
other (`PairInv`), and no process has passed more barriers than the other has arrived
at, since the target of the n-th barrier is 2n. Before the second user comes the first
has passed none (`AloneInv`), so the second joins at the start. The initialization can
reset only a count that is 0 already (`SegmentInv`: only the creator initializes).
`RowsInv` relates rows and windows by the place of the process, `PaidInv` follows the
token from `Acquire()` to the inference, `EngineInv` says that those who write the
engine are at the write and that two of them at a time have been noticed.

Only model-checked: the liveness properties (`WorkspaceGivenBack`, `TimeoutEnds`,
`CancelEnds`, `ExitEnds`, `UpdateReachesCommand`, `EveryClientEnds`,
`EveryProgramEnds`, `EveryLoopEnds`), which depend on fairness and are out of the
prover's reach. No module declares a RECURSIVE operator, so that each can be proved
about. The assumptions on constants are those of the modules (`...Assumption`), which
TLC evaluates in every run.

## 7. Not modelled

* `server.cc` and the loggers: they start gRPC and print. The colouring and the
  progress bar of the client.
* `dpa_common.c` has three equal copies; of each about half (RPC, DPA threads,
  completion contexts, notification completion, kernel sync events) has no caller
  in the repository.
* The arguments and environment variables of the DPU and GPU programs, but for what
  `setup` says; times, sleeps and statistics.
* `TRTModel` beyond where it may abort, and the tensors: CUDA and TensorRT decide.
* The sample workloads under `application/cpu` and `application/gpu`: compute loops
  the server runs like any command.
* Flow control of the response stream: `EmitLogChunk()` is taken to return. A client
  that stops reading would hold up the loop of the monitor.
* Locks of the C library at `fork()`, and the reuse of process numbers.
* The build, the run scripts but for what they do to the barrier and the engine.
