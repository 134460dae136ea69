---------------------------- MODULE TaskMonitor ----------------------------
(***************************************************************************)
(* TaskExecutor::MonitorChildProcess of src/server/task_executor.cc        *)
(* (307-483): the handler thread that reads the output of one command and  *)
(* waits for it, the cancel thread it starts, and the processes of the     *)
(* command.  The handler thread and the cancel thread share the two atomic *)
(* flags stop_cancel_thread and cancelled; the processes share the write   *)
(* end of the pipe (or terminal) the handler reads.                        *)
(*                                                                         *)
(* A chunk of output is the process that wrote it.  Time is a choice: any  *)
(* poll() that finds nothing to read may be the one that exceeds the idle  *)
(* timeout.  SIGTERM may end a process or not, as it may end by itself at  *)
(* any time; SIGKILL ends every process of the group.                      *)
(***************************************************************************)
EXTENDS Naturals, Sequences

CONSTANTS
    UsePty,         \* does the command run on a pseudo terminal?
    IdleTimeout,    \* is RPC_WORK_IDLE_TIMEOUT_MS set to a value >= 0?
    Behaviours,     \* what the command and the kernel may do
    PipeSize        \* chunks the pipe holds before a writer blocks

BehaviourKinds ==
    {"closes_output",   \* the shell closes its stdout and stderr and goes on
     "helper",          \* the shell starts a background process
     "foreign",         \* a process outside the group holds the write end
     "io_error",        \* poll() or read() fails
     "wait_error"}      \* waitpid() fails

ASSUME MonitorAssumption ==
    /\ UsePty \in BOOLEAN
    /\ IdleTimeout \in BOOLEAN
    /\ Behaviours \subseteq BehaviourKinds
    /\ PipeSize \in Nat \ {0}

VARIABLES
    pc,                 \* where the handler thread stands
    cpc,                \* where the cancel thread stands
    stop_cancel_thread,
    cancelled,
    rpc_cancelled,      \* context_->IsCancelled()
    child_exited,       \* the loop has reaped the child
    wait_status,        \* what the waitpid() of the loop stored (348)
    status,             \* what the waitpid() after it stored (314, 459)
    rpc_status,         \* the grpc::Status returned
    child,              \* the /bin/sh that leads the process group
    exit,               \* the exit status the kernel keeps for it
    helper,             \* does a background process of the group run?
    holders,            \* who holds the write end of the pipe open
    pipe,               \* chunks written and not yet read
    silent              \* who writes nothing any more

statusVars == <<child_exited, wait_status, status>>
threadVars == <<pc, cpc, stop_cancel_thread, cancelled, statusVars, rpc_status>>
processVars == <<child, exit, helper, holders>>
outputVars == <<pipe, silent>>
vars == <<threadVars, rpc_cancelled, processVars, outputVars>>

Writers == {"leader", "helper", "foreign"}

Locations == {"reap", "poll", "read", "join_poll", "idle_kill", "join_idle",
              "wait_idle", "join_read", "close", "join", "wait", "verdict",
              "returned"}

CancelLocations == {"watch", "recheck", "kill", "done"}

(* "IO_ERROR" is the INTERNAL of a poll() or read() that failed,           *)
(* "WAIT_ERROR" that of the waitpid() after the loop, and "INTERNAL" that  *)
(* of a command that failed.                                               *)
Codes == {"none", "OK", "CANCELLED", "DEADLINE_EXCEEDED", "INTERNAL",
          "IO_ERROR", "WAIT_ERROR"}

(* What a wait status says: 0, another exit code, a signal.                *)
Exits == {"zero", "nonzero", "signal"}

Init ==
    /\ pc = "reap"
    /\ cpc = "watch"
    /\ stop_cancel_thread = FALSE
    /\ cancelled = FALSE
    /\ rpc_cancelled = FALSE
    /\ child_exited = FALSE
    /\ wait_status = "zero"
    /\ status = "zero"
    /\ rpc_status = "none"
    /\ child = "running"
    /\ exit = "none"
    /\ helper = FALSE
    /\ \/ holders = {"leader"}
       \/ "foreign" \in Behaviours /\ holders = {"leader", "foreign"}
    /\ pipe = <<>>
    /\ silent = {}

-----------------------------------------------------------------------------
(* The loop of the handler thread.                                         *)

Goto(l) ==
    /\ pc' = l
    /\ UNCHANGED <<cpc, stop_cancel_thread, cancelled, statusVars, rpc_status,
                   rpc_cancelled, processVars, outputVars>>

(* waitpid() with WNOHANG, whose failure is not told from "not yet".       *)
TryReap ==
    /\ pc = "reap"
    /\ pc' = "poll"
    /\ \/ /\ ~child_exited
          /\ child = "zombie"
          /\ child_exited' = TRUE
          /\ wait_status' = exit
          /\ child' = "reaped"
       \/ /\ child_exited \/ child # "zombie" \/ "wait_error" \in Behaviours
          /\ UNCHANGED <<child_exited, wait_status, child>>
    /\ UNCHANGED <<cpc, stop_cancel_thread, cancelled, status, rpc_status,
                   rpc_cancelled, exit, helper, holders, outputVars>>

Quiet == pipe = <<>> /\ holders # {}

EndOfFile == pipe = <<>> /\ holders = {}

Continue == Goto("reap")

Leave == Goto("close")

PollReady ==
    /\ pc = "poll"
    /\ ~Quiet
    /\ Goto("read")

(* poll() found nothing in time, or was interrupted.                       *)
PollTimeout ==
    /\ pc = "poll"
    /\ Quiet
    /\ ~child_exited \/ UsePty
    /\ Continue

(* Mutant: the loop ends as soon as the child is reaped.                   *)
DrainedAtOnce ==
    /\ pc = "poll"
    /\ child_exited
    /\ Leave

(* Mutant: the loop waits for the end of the stream, however long.         *)
DrainedByEndOfFile ==
    /\ pc = "poll"
    /\ EndOfFile
    /\ child_exited
    /\ Leave

(* poll() found nothing after the child was reaped.  On a pipe one timeout *)
(* of 200 ms is already more than the 50 ms the output gets to drain; on a *)
(* terminal it takes two of 30 ms.                                         *)
Drained ==
    /\ pc = "poll"
    /\ Quiet
    /\ child_exited
    /\ Leave

IdleExpires ==
    /\ pc = "poll"
    /\ Quiet
    /\ ~child_exited
    /\ IdleTimeout
    /\ Goto("idle_kill")

ReadChunk ==
    /\ pc = "read"
    /\ pipe # <<>>
    /\ pipe' = Tail(pipe)
    /\ UNCHANGED <<threadVars, rpc_cancelled, processVars, silent>>

(* EAGAIN, and EWOULDBLOCK.                                                *)
ReadNothing ==
    /\ pc = "read"
    /\ Quiet
    /\ Continue

(* read() returned 0, or EIO on a terminal.                                *)
ReadEndOfStream ==
    /\ pc = "read"
    /\ EndOfFile
    /\ Leave

StopCancelThread(l) ==
    /\ stop_cancel_thread' = TRUE
    /\ pc' = l
    /\ UNCHANGED <<cpc, cancelled, statusVars, rpc_status, rpc_cancelled,
                   outputVars>>

(* The thread returns once it has joined the cancel thread, and neither    *)
(* kills nor waits for the child.                                          *)
PollFails ==
    /\ pc = "poll"
    /\ "io_error" \in Behaviours
    /\ StopCancelThread("join_poll")
    /\ UNCHANGED processVars

ReadFails ==
    /\ pc = "read"
    /\ "io_error" \in Behaviours
    /\ StopCancelThread("join_read")
    /\ UNCHANGED processVars

-----------------------------------------------------------------------------
(* The ways out of the loop, each of which joins the cancel thread itself. *)

(* Mutant: kill() in place of killpg().                                    *)
KillLeader ==
    /\ child' = IF child = "running" THEN "zombie" ELSE child
    /\ exit' = IF child = "running" THEN "signal" ELSE exit
    /\ holders' = holders \ {"leader"}
    /\ UNCHANGED helper

(* Mutant: SIGTERM is not followed by SIGKILL.                             *)
KillNobody == UNCHANGED <<child, exit, holders, helper>>

(* killpg(child.pid, SIGKILL).                                             *)
KillGroup ==
    /\ child' = IF child = "running" THEN "zombie" ELSE child
    /\ exit' = IF child = "running" THEN "signal" ELSE exit
    /\ helper' = FALSE
    /\ holders' = holders \ {"leader", "helper"}

(* The handler returns with this status.                                   *)
Return(code) ==
    /\ pc' = "returned"
    /\ rpc_status' = code
    /\ UNCHANGED <<cpc, stop_cancel_thread, cancelled, child_exited,
                   wait_status, rpc_cancelled, exit, helper, holders,
                   outputVars>>

(* cancel_thread.join() returns.                                           *)
Joins(l) == pc = l /\ cpc = "done"

JoinAfterPollFailure ==
    /\ Joins("join_poll")
    /\ Return("IO_ERROR")
    /\ UNCHANGED <<status, child>>

JoinAfterReadFailure ==
    /\ Joins("join_read")
    /\ Return("IO_ERROR")
    /\ UNCHANGED <<status, child>>

(* Two seconds after the SIGTERM of the timeout.                           *)
IdleKill ==
    /\ pc = "idle_kill"
    /\ KillGroup
    /\ StopCancelThread("join_idle")

(* Mutant: the timeout does not wait for the cancel thread.                *)
JoinForgottenAfterTimeout ==
    /\ pc = "join_idle"
    /\ Goto("wait_idle")

JoinAfterTimeout ==
    /\ Joins("join_idle")
    /\ Goto("wait_idle")

(* The waitpid() of the timeout, whose result is not looked at.            *)
WaitAfterTimeout ==
    /\ pc = "wait_idle"
    /\ child = "zombie"
    /\ child' = "reaped"
    /\ status' = exit
    /\ Return("DEADLINE_EXCEEDED")

WaitAfterTimeoutFails ==
    /\ pc = "wait_idle"
    /\ "wait_error" \in Behaviours
    /\ Return("DEADLINE_EXCEEDED")
    /\ UNCHANGED <<status, child>>

CloseOutput ==
    /\ pc = "close"
    /\ StopCancelThread("join")
    /\ UNCHANGED processVars

JoinCancelThread ==
    /\ Joins("join")
    /\ Goto("wait")

(* Mutant: the exit status the loop has found is not taken over.           *)
WaitLosingStatus ==
    /\ pc = "wait"
    /\ \/ child_exited /\ UNCHANGED <<status, child>>
       \/ /\ ~child_exited
          /\ child = "zombie"
          /\ status' = exit
          /\ child' = "reaped"
    /\ pc' = "verdict"
    /\ UNCHANGED <<cpc, stop_cancel_thread, cancelled, child_exited,
                   wait_status, rpc_status, rpc_cancelled, exit, helper,
                   holders, outputVars>>

(* The blocking waitpid() where the loop has not reaped the child.         *)
WaitForChild ==
    /\ pc = "wait"
    /\ \/ /\ child_exited
          /\ status' = wait_status
          /\ UNCHANGED child
       \/ /\ ~child_exited
          /\ child = "zombie"
          /\ status' = exit
          /\ child' = "reaped"
    /\ pc' = "verdict"
    /\ UNCHANGED <<cpc, stop_cancel_thread, cancelled, child_exited,
                   wait_status, rpc_status, rpc_cancelled, exit, helper,
                   holders, outputVars>>

(* It failed: the call returns without a look at cancelled, and the child  *)
(* is left as it is.                                                       *)
WaitFails ==
    /\ pc = "wait"
    /\ ~child_exited
    /\ "wait_error" \in Behaviours
    /\ Return("WAIT_ERROR")
    /\ UNCHANGED <<status, child>>

(* Mutant: the exit status is returned as the status of the call.          *)
VerdictRaw == IF cancelled THEN "CANCELLED" ELSE status

Verdict ==
    IF cancelled THEN "CANCELLED"
    ELSE IF status = "zero" THEN "OK" ELSE "INTERNAL"

ReturnVerdict ==
    /\ pc = "verdict"
    /\ Return(Verdict)
    /\ UNCHANGED <<status, child>>

-----------------------------------------------------------------------------
(* The cancel thread.                                                      *)

WatchEnds ==
    /\ cpc = "watch"
    /\ stop_cancel_thread \/ rpc_cancelled
    /\ cpc' = "recheck"
    /\ UNCHANGED <<pc, stop_cancel_thread, cancelled, statusVars, rpc_status,
                   rpc_cancelled, processVars, outputVars>>

CancelThreadStops ==
    /\ cpc = "recheck"
    /\ stop_cancel_thread
    /\ cpc' = "done"
    /\ UNCHANGED <<pc, stop_cancel_thread, cancelled, statusVars, rpc_status,
                   rpc_cancelled, processVars, outputVars>>

(* The flag, and SIGTERM.                                                  *)
CancelThreadTerminates ==
    /\ cpc = "recheck"
    /\ ~stop_cancel_thread
    /\ cancelled' = TRUE
    /\ cpc' = "kill"
    /\ UNCHANGED <<pc, stop_cancel_thread, statusVars, rpc_status, rpc_cancelled,
                   processVars, outputVars>>

(* SIGKILL two seconds later, whether or not the child is still there.     *)
CancelThreadKills ==
    /\ cpc = "kill"
    /\ KillGroup
    /\ cpc' = "done"
    /\ UNCHANGED <<pc, stop_cancel_thread, cancelled, statusVars, rpc_status,
                   rpc_cancelled, outputVars>>

-----------------------------------------------------------------------------
(* The client and the processes of the command.                            *)

Cancel ==
    /\ pc # "returned"
    /\ rpc_cancelled' = TRUE
    /\ UNCHANGED <<threadVars, processVars, outputVars>>

(* A writer blocks when the pipe is full; once the read end is closed what *)
(* it writes is lost.                                                      *)
Write(w) ==
    /\ w \in holders \ silent
    /\ Len(pipe) < PipeSize
    /\ pipe' = Append(pipe, w)
    /\ UNCHANGED <<threadVars, rpc_cancelled, processVars, silent>>

FallSilent(w) ==
    /\ silent' = silent \cup {w}
    /\ UNCHANGED <<threadVars, rpc_cancelled, processVars, pipe>>

ChildClosesOutput ==
    /\ "closes_output" \in Behaviours
    /\ child = "running"
    /\ holders' = holders \ {"leader"}
    /\ UNCHANGED <<threadVars, rpc_cancelled, child, exit, helper, outputVars>>

(* The background process inherits the output of the shell, or has its own.*)
ChildStartsHelper ==
    /\ "helper" \in Behaviours
    /\ child = "running"
    /\ ~helper
    /\ helper' = TRUE
    /\ \/ "leader" \in holders /\ holders' = holders \cup {"helper"}
       \/ UNCHANGED holders
    /\ UNCHANGED <<threadVars, rpc_cancelled, child, exit, outputVars>>

ChildExits(e) ==
    /\ child = "running"
    /\ child' = "zombie"
    /\ exit' = e
    /\ holders' = holders \ {"leader"}
    /\ UNCHANGED <<threadVars, rpc_cancelled, helper, outputVars>>

HelperExits ==
    /\ helper
    /\ helper' = FALSE
    /\ holders' = holders \ {"helper"}
    /\ UNCHANGED <<threadVars, rpc_cancelled, child, exit, outputVars>>

ForeignCloses ==
    /\ "foreign" \in holders
    /\ holders' = holders \ {"foreign"}
    /\ UNCHANGED <<threadVars, rpc_cancelled, child, exit, helper, outputVars>>

-----------------------------------------------------------------------------
HandlerThread ==
    \/ TryReap
    \/ PollReady
    \/ PollTimeout
    \/ Drained
    \/ ReadChunk
    \/ ReadNothing
    \/ ReadEndOfStream
    \/ JoinAfterPollFailure
    \/ JoinAfterReadFailure
    \/ IdleKill
    \/ JoinAfterTimeout
    \/ WaitAfterTimeout
    \/ CloseOutput
    \/ JoinCancelThread
    \/ WaitForChild
    \/ ReturnVerdict

Failure == PollFails \/ ReadFails \/ WaitAfterTimeoutFails \/ WaitFails

CancelThread ==
    \/ WatchEnds
    \/ CancelThreadStops
    \/ CancelThreadTerminates
    \/ CancelThreadKills

Environment ==
    \/ Cancel
    \/ \E w \in Writers : Write(w) \/ FallSilent(w)
    \/ ChildClosesOutput
    \/ ChildStartsHelper
    \/ \E e \in Exits : ChildExits(e)
    \/ HelperExits
    \/ ForeignCloses

Next ==
    \/ HandlerThread
    \/ IdleExpires
    \/ Failure
    \/ CancelThread
    \/ Environment

Spec == Init /\ [][Next]_vars

(* Both threads are scheduled, a terminal drains within two polls, and the *)
(* clock passes the idle timeout if poll() keeps finding nothing.  Nothing *)
(* is assumed of the command: it need not end, nor close its output.       *)
Fairness ==
    /\ WF_vars(HandlerThread)
    /\ SF_vars(Drained)
    /\ SF_vars(IdleExpires)
    /\ WF_vars(CancelThread)

FairSpec == Spec /\ Fairness

-----------------------------------------------------------------------------
TypeOK ==
    /\ pc \in Locations
    /\ cpc \in CancelLocations
    /\ stop_cancel_thread \in BOOLEAN
    /\ cancelled \in BOOLEAN
    /\ rpc_cancelled \in BOOLEAN
    /\ child_exited \in BOOLEAN
    /\ wait_status \in Exits
    /\ status \in Exits
    /\ rpc_status \in Codes
    /\ child \in {"running", "zombie", "reaped"}
    /\ exit \in {"none", "zero", "nonzero", "signal"}
    /\ helper \in BOOLEAN
    /\ holders \in SUBSET Writers
    /\ pipe \in Seq(Writers)
    /\ silent \in SUBSET Writers

(* A call reported as cancelled has no process of its group running any    *)
(* more ("The subprocess must be stopped explicitly on the server side",   *)
(* task_executor.cc:338): the SIGKILL precedes the return.                 *)
CancelledMeansKilled ==
    pc = "returned" /\ rpc_status = "CANCELLED" => child = "reaped" /\ ~helper

(* The status reported says what became of the command, whichever of the   *)
(* two variables its exit status was stored in (352, 454-460, 466-482), or *)
(* which call failed; a shell that was not waited for is left only after   *)
(* such a failure, and none is left running by a timeout.                  *)
StatusTruthful ==
    pc = "returned" =>
        /\ rpc_status = "OK" => exit = "zero" /\ ~cancelled
        /\ rpc_status = "INTERNAL" => exit \in {"nonzero", "signal"}
        /\ rpc_status = "CANCELLED" => rpc_cancelled
        /\ rpc_status = "DEADLINE_EXCEEDED" => exit # "none" /\ ~helper
        /\ child # "reaped" =>
              \/ rpc_status = "IO_ERROR" /\ "io_error" \in Behaviours
              \/ /\ rpc_status \in {"WAIT_ERROR", "DEADLINE_EXCEEDED"}
                 /\ "wait_error" \in Behaviours

(* Nothing the shell printed is lost when its exit races with the reading: *)
(* a call that ends with the verdict on the command has sent all of it.    *)
OutputComplete ==
    pc = "returned" /\ rpc_status \in {"OK", "CANCELLED", "INTERNAL"} =>
        \A i \in DOMAIN pipe : pipe[i] # "leader"

TimedOut ==
    \/ pc \in {"idle_kill", "join_idle", "wait_idle"}
    \/ rpc_status = "DEADLINE_EXCEEDED"

(* No path out of the loop leaves a SIGKILL of the cancel thread to come:  *)
(* it would reach a group that belongs to nobody, or to a later command.   *)
(* On a timeout, where both threads send signals, each finds the child not *)
(* yet waited for, so the group it names is still the child's.             *)
SignalsOwnGroup ==
    /\ cpc = "kill" => pc # "returned"
    /\ TimedOut /\ (pc = "idle_kill" \/ cpc = "kill") => child # "reaped"

(* A cancelled call comes to an end, whether or not the command does, and  *)
(* however much it prints.                                                 *)
CancelEnds == rpc_cancelled /\ "foreign" \in silent ~> pc = "returned"

(* A call whose shell has exited comes to an end, whoever still holds the  *)
(* output open, once nobody prints any more.                               *)
ExitEnds ==
    child # "running" /\ {"helper", "foreign"} \subseteq silent
        ~> pc = "returned"

(* With an idle timeout every call that has gone silent comes to an end,   *)
(* unless its shell has closed its output: the loop is over then, and with *)
(* it the timeout (441-455).                                               *)
TimeoutEnds ==
    silent = Writers ~> \/ pc = "returned"
                        \/ child = "running" /\ "leader" \notin holders

-----------------------------------------------------------------------------
(* The monitor as TaskSubmission sees it: the one step that leaves the     *)
(* location "monitor", and what happens to the processes before it.  A     *)
(* child is waited for, and a helper noticed, only in that step.           *)

Task == "task"

Where == [dir |-> "workspace", out |-> "workspace",
          slash |-> FALSE, path_slash |-> FALSE]

Only(v) == [s \in {Task} |-> v]

Submission == INSTANCE TaskSubmission
    WITH Sessions <- {Task},
         Dirs <- {"workspace"},
         Below <- [d \in {"workspace"} |-> {"workspace"}],
         Configs <- {Task},
         Resolve <- Only(Where),
         NoPaths <- [dir |-> "none"],
         NoPgid <- "none",
         Faults <- {f \in {"poll", "wait", "helper"} :
                        \/ f = "poll" /\ "io_error" \in Behaviours
                        \/ f = "wait" /\ "wait_error" \in Behaviours
                        \/ f \in Behaviours},
         pc <- Only(IF pc = "returned" THEN "unregister" ELSE "monitor"),
         cancelled <- Only(rpc_cancelled),
         ended <- Only(TRUE),
         paths <- Only(Where),
         locked_ <- Only(TRUE),
         cleanup_registered_ <- Only(TRUE),
         status <- Only(IF pc # "returned" THEN "none"
                        ELSE IF rpc_status \in {"IO_ERROR", "WAIT_ERROR"}
                        THEN "INTERNAL" ELSE rpc_status),
         sent <- Only({}),
         child <- Only(IF child = "reaped" /\ pc # "returned" THEN "zombie"
                       ELSE child),
         helpers <- Only(helper /\ child # "running"),
         remains <- Only({}),
         g_locked_subdirs <- {<<"workspace", FALSE>>},
         g_workspace_to_pgid <- [k \in {"workspace"} \X BOOLEAN |->
                                    IF k[2] THEN "none" ELSE Task],
         tree <- [d \in {"workspace"} |-> {}]

SubmissionStep ==
    \/ Submission!Cancel(Task)
    \/ Submission!MonitorReaps(Task)
    \/ Submission!MonitorTimesOut(Task)
    \/ Submission!MonitorFails(Task)
    \/ Submission!CancelThreadKills(Task)
    \/ Submission!ChildExits(Task)
    \/ Submission!HelpersExit(Task)

(* Every step of the two threads and of the processes is a step of         *)
(* TaskSubmission at its location "monitor", or changes nothing it sees.   *)
ImplementsMonitoring == [][SubmissionStep]_(Submission!vars)
=============================================================================
