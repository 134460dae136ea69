------------------------- MODULE TaskMonitorProofs -------------------------
(***************************************************************************)
(* Proofs about TaskMonitor: the safety properties hold for a pipe of any  *)
(* size and for commands that do anything at all, and every step           *)
(* implements a monitoring step of TaskSubmission.                         *)
(***************************************************************************)
EXTENDS TaskMonitor, TLAPS

Leaving == {"close", "join", "wait", "verdict", "returned"}

(* What the cancel thread does while the handler thread is elsewhere: it   *)
(* has ended when the handler waits for the child, on whichever path.      *)
ThreadInv ==
    /\ pc # "returned" => rpc_status = "none"
    /\ pc \in {"wait_idle", "wait", "verdict", "returned"} => cpc = "done"
    /\ cpc = "watch" => ~cancelled
    /\ cpc = "recheck" => ~cancelled
    /\ cpc = "kill" => cancelled
    /\ cpc = "recheck" /\ ~stop_cancel_thread => rpc_cancelled
    /\ cancelled => rpc_cancelled
    /\ rpc_status = "CANCELLED" => cancelled
    /\ pc \in {"join_poll", "join_read"} => "io_error" \in Behaviours

(* The child is reaped once, by the loop or by one of the two waits after  *)
(* it, and what it exited with is in the variable of that wait; whoever    *)
(* sent SIGKILL left neither the shell nor a helper running.               *)
ChildInv ==
    /\ child_exited => child = "reaped" /\ wait_status = exit
    /\ child = "reaped" => child_exited \/ pc \in {"verdict", "returned"}
    /\ pc = "verdict" => child = "reaped" /\ status = exit
    /\ pc \in {"idle_kill", "join_idle", "wait_idle"} => ~child_exited
    /\ child = "running" <=> exit = "none"
    /\ pc \in {"join_idle", "wait_idle"} => child # "running" /\ ~helper
    /\ cancelled /\ cpc = "done" => child # "running" /\ ~helper

(* Once the loop is left through the end of the stream or a drained pipe,  *)
(* the shell can write no more and nothing it wrote is left.               *)
OutputInv ==
    /\ "leader" \in holders => child = "running"
    /\ pc \in Leaving /\ rpc_status \in {"none", "OK", "CANCELLED", "INTERNAL"} =>
            /\ "leader" \notin holders
            /\ \A i \in DOMAIN pipe : pipe[i] # "leader"

IInv ==
    /\ TypeOK
    /\ ThreadInv
    /\ ChildInv
    /\ StatusTruthful
    /\ OutputInv

-----------------------------------------------------------------------------
(* Initially.                                                              *)
LEMMA InitIInv == Init => IInv
<1> SUFFICES ASSUME Init PROVE IInv
    OBVIOUS
<1>1. TypeOK
    <2>1. holders \in SUBSET Writers
        BY DEF Init, Writers
    <2>2. pipe \in Seq(Writers)
        BY DEF Init
    <2>3. silent \in SUBSET Writers
        BY DEF Init
    <2> QED
        BY <2>1, <2>2, <2>3 DEF Init, TypeOK, Locations, CancelLocations, Codes,
           Exits
<1>2. ThreadInv /\ ChildInv /\ StatusTruthful
    BY DEF Init, ThreadInv, ChildInv, StatusTruthful
<1>3. OutputInv
    BY DEF Init, OutputInv, Leaving
<1> QED
    BY <1>1, <1>2, <1>3 DEF IInv

LEMMA TryReapType == TypeOK /\ ChildInv /\ TryReap => TypeOK'
<1> SUFFICES ASSUME TypeOK, ChildInv, TryReap PROVE TypeOK'
    OBVIOUS
<1>1. /\ pc' = "poll"
      /\ UNCHANGED <<cpc, stop_cancel_thread, cancelled, status, rpc_status,
                     rpc_cancelled, exit, helper, holders, pipe, silent>>
    BY DEF TryReap, outputVars
<1>2. /\ child_exited' \in BOOLEAN
      /\ wait_status' \in Exits
      /\ child' \in {"running", "zombie", "reaped"}
    <2>1. CASE /\ child_exited' = TRUE /\ wait_status' = exit
               /\ child = "zombie" /\ child' = "reaped"
        BY <2>1 DEF TypeOK, ChildInv, Exits
    <2>2. CASE UNCHANGED <<child_exited, wait_status, child>>
        BY <2>2 DEF TypeOK
    <2> QED
        BY <2>1, <2>2 DEF TryReap
<1> QED
    BY <1>1, <1>2 DEF TypeOK, Locations

(* The steps of the handler thread.                                        *)
LEMMA HandlerPreserves == IInv /\ HandlerThread => IInv'
<1> SUFFICES ASSUME IInv, HandlerThread PROVE IInv'
    OBVIOUS
<1> USE DEF IInv, TypeOK, ThreadInv, ChildInv, StatusTruthful, OutputInv,
        Leaving, Locations, CancelLocations, Codes, Exits, Writers,
        statusVars, threadVars, processVars, outputVars
<1>1. CASE TryReap
    <2>1. TypeOK'
        BY <1>1, TryReapType
    <2>2. ThreadInv'
        BY <1>1 DEF TryReap
    <2>3. ChildInv'
        BY <1>1 DEF TryReap
    <2>4. StatusTruthful'
        BY <1>1 DEF TryReap
    <2>5. OutputInv'
        BY <1>1 DEF TryReap
    <2> QED
        BY <2>1, <2>2, <2>3, <2>4, <2>5
<1>2. CASE PollReady
    BY <1>2 DEF PollReady, Goto
<1>3. CASE PollTimeout
    BY <1>3 DEF PollTimeout, Continue, Goto
<1>4. CASE Drained
    <2>1. "leader" \notin holders
        BY <1>4 DEF Drained
    <2>2. \A i \in DOMAIN pipe : pipe[i] # "leader"
        BY <1>4 DEF Drained, Quiet
    <2> QED
        BY <1>4, <2>1, <2>2 DEF Drained, Leave, Goto
<1>5. CASE ReadChunk
    BY <1>5 DEF ReadChunk
<1>6. CASE ReadNothing
    BY <1>6 DEF ReadNothing, Continue, Goto
<1>7. CASE ReadEndOfStream
    <2>1. holders = {} /\ pipe = <<>>
        BY <1>7 DEF ReadEndOfStream, EndOfFile
    <2> QED
        BY <1>7, <2>1 DEF ReadEndOfStream, Leave, Goto
<1>8. CASE JoinAfterPollFailure
    BY <1>8 DEF JoinAfterPollFailure, Joins, Return
<1>9. CASE JoinAfterReadFailure
    BY <1>9 DEF JoinAfterReadFailure, Joins, Return
<1>10. CASE IdleKill
    BY <1>10 DEF IdleKill, StopCancelThread, KillGroup
<1>11. CASE JoinAfterTimeout
    BY <1>11 DEF JoinAfterTimeout, Joins, Goto
<1>12. CASE WaitAfterTimeout
    BY <1>12 DEF WaitAfterTimeout, Return
<1>13. CASE CloseOutput
    BY <1>13 DEF CloseOutput, StopCancelThread
<1>14. CASE JoinCancelThread
    BY <1>14 DEF JoinCancelThread, Joins, Goto
<1>15. CASE WaitForChild
    BY <1>15 DEF WaitForChild
<1>16. CASE ReturnVerdict
    BY <1>16 DEF ReturnVerdict, Return, Verdict
<1> QED
    BY <1>1, <1>2, <1>3, <1>4, <1>5, <1>6, <1>7, <1>8, <1>9, <1>10, <1>11,
       <1>12, <1>13, <1>14, <1>15, <1>16
    DEF HandlerThread

(* A timeout, and a failure of poll(), read() or waitpid().                *)
LEMMA InterruptionPreserves == IInv /\ (IdleExpires \/ Failure) => IInv'
<1> SUFFICES ASSUME IInv, IdleExpires \/ Failure PROVE IInv'
    OBVIOUS
<1> USE DEF IInv, TypeOK, ThreadInv, ChildInv, StatusTruthful, OutputInv,
        Leaving, Locations, CancelLocations, Codes, Exits, Writers,
        statusVars, threadVars, processVars, outputVars
<1>1. CASE IdleExpires
    BY <1>1 DEF IdleExpires, Goto
<1>2. CASE PollFails
    BY <1>2 DEF PollFails, StopCancelThread
<1>3. CASE ReadFails
    BY <1>3 DEF ReadFails, StopCancelThread
<1>4. CASE WaitAfterTimeoutFails
    BY <1>4 DEF WaitAfterTimeoutFails, Return
<1>5. CASE WaitFails
    BY <1>5 DEF WaitFails, Return
<1> QED
    BY <1>1, <1>2, <1>3, <1>4, <1>5 DEF Failure

(* The steps of the cancel thread.                                         *)
LEMMA CancelThreadPreserves == IInv /\ CancelThread => IInv'
<1> SUFFICES ASSUME IInv, CancelThread PROVE IInv'
    OBVIOUS
<1> USE DEF IInv, TypeOK, ThreadInv, ChildInv, StatusTruthful, OutputInv,
        Leaving, Locations, CancelLocations, Codes, Exits, Writers,
        statusVars, threadVars, processVars, outputVars
<1>1. CASE WatchEnds
    BY <1>1 DEF WatchEnds
<1>2. CASE CancelThreadStops
    BY <1>2 DEF CancelThreadStops
<1>3. CASE CancelThreadTerminates
    BY <1>3 DEF CancelThreadTerminates
<1>4. CASE CancelThreadKills
    <2>1. TypeOK'
        BY <1>4 DEF CancelThreadKills, KillGroup
    <2>2. ThreadInv'
        BY <1>4 DEF CancelThreadKills, KillGroup
    <2>3. ChildInv'
        BY <1>4 DEF CancelThreadKills, KillGroup
    <2>4. StatusTruthful'
        BY <1>4 DEF CancelThreadKills, KillGroup
    <2>5. OutputInv'
        BY <1>4 DEF CancelThreadKills, KillGroup
    <2> QED
        BY <2>1, <2>2, <2>3, <2>4, <2>5
<1> QED
    BY <1>1, <1>2, <1>3, <1>4 DEF CancelThread

(* The client and the processes of the command.                            *)
LEMMA EnvironmentPreserves == IInv /\ Environment => IInv'
<1> SUFFICES ASSUME IInv, Environment PROVE IInv'
    OBVIOUS
<1> USE DEF IInv, TypeOK, ThreadInv, ChildInv, StatusTruthful, OutputInv,
        Leaving, Locations, CancelLocations, Codes, Exits, Writers,
        statusVars, threadVars, processVars, outputVars
<1>1. CASE Cancel
    BY <1>1 DEF Cancel
<1>2. ASSUME NEW w \in Writers, Write(w) PROVE IInv'
    <2>1. pipe' \in Seq(Writers)
        BY <1>2 DEF Write
    <2>2. ASSUME \A i \in DOMAIN pipe : pipe[i] # "leader",
                 "leader" \notin holders
          PROVE  \A i \in DOMAIN pipe' : pipe'[i] # "leader"
        BY <1>2, <2>2 DEF Write
    <2> QED
        BY <1>2, <2>1, <2>2 DEF Write
<1>3. ASSUME NEW w \in Writers, FallSilent(w) PROVE IInv'
    BY <1>3 DEF FallSilent
<1>4. CASE ChildClosesOutput
    BY <1>4 DEF ChildClosesOutput
<1>5. CASE ChildStartsHelper
    <2>1. TypeOK'
        <3>1. holders' \in SUBSET Writers
            BY <1>5 DEF ChildStartsHelper
        <3>2. helper' = TRUE /\ UNCHANGED <<threadVars, rpc_cancelled, child,
                                            exit, outputVars>>
            BY <1>5 DEF ChildStartsHelper
        <3>3. UNCHANGED <<pc, cpc, stop_cancel_thread, cancelled, child_exited,
                          wait_status, status, rpc_status>>
            BY <3>2
        <3> QED
            BY <3>1, <3>2, <3>3
    <2>2. ThreadInv'
        BY <1>5 DEF ChildStartsHelper
    <2>3. ChildInv'
        BY <1>5 DEF ChildStartsHelper
    <2>4. StatusTruthful'
        BY <1>5 DEF ChildStartsHelper
    <2>5. OutputInv'
        BY <1>5 DEF ChildStartsHelper
    <2> QED
        BY <2>1, <2>2, <2>3, <2>4, <2>5
<1>6. ASSUME NEW e \in Exits, ChildExits(e)
      PROVE IInv'
    BY <1>6 DEF ChildExits
<1>7. CASE HelperExits
    <2>1. holders' \in SUBSET Writers
        BY <1>7 DEF HelperExits
    <2>2. "leader" \in holders' => "leader" \in holders
        BY <1>7 DEF HelperExits
    <2>3. helper' = FALSE /\ UNCHANGED <<pc, cpc, cancelled, stop_cancel_thread,
                statusVars, rpc_status, rpc_cancelled, child, exit,
                pipe, silent>>
        BY <1>7 DEF HelperExits
    <2>4. TypeOK'
        <3>1. pipe' \in Seq(Writers) /\ silent' \in SUBSET Writers
            BY <2>3
        <3>2. pc' \in Locations /\ cpc' \in CancelLocations
            BY <2>3
        <3>3. /\ wait_status' \in Exits /\ status' \in Exits
              /\ child_exited' \in BOOLEAN /\ rpc_status' \in Codes
            BY <2>3
        <3> QED
            BY <2>1, <2>3, <3>1, <3>2, <3>3
    <2>5. ThreadInv' /\ ChildInv' /\ StatusTruthful'
        BY <2>3
    <2>6. OutputInv'
        BY <2>2, <2>3
    <2> QED
        BY <2>4, <2>5, <2>6
<1>8. CASE ForeignCloses
    BY <1>8 DEF ForeignCloses
<1> QED
    BY <1>1, <1>2, <1>3, <1>4, <1>5, <1>6, <1>7, <1>8 DEF Environment

LEMMA StutterPreserves == IInv /\ UNCHANGED vars => IInv'
BY DEF IInv, TypeOK, ThreadInv, ChildInv, StatusTruthful, OutputInv, vars,
       statusVars, threadVars, processVars, outputVars

LEMMA Invariance == Spec => []IInv
<1>1. IInv /\ [Next]_vars => IInv'
    BY HandlerPreserves, InterruptionPreserves, CancelThreadPreserves,
       EnvironmentPreserves, StutterPreserves DEF Next
<1> QED
    BY InitIInv, <1>1, PTL DEF Spec

-----------------------------------------------------------------------------
(* Type correctness.                                                       *)
THEOREM TypeCorrect == Spec => []TypeOK
<1>1. IInv => TypeOK
    BY DEF IInv
<1> QED
    BY Invariance, <1>1, PTL

(* A monitor that reports a cancellation has ended the whole group of the  *)
(* command: the signals are sent and the thread is joined before the       *)
(* report (338-344, 454-464).                                              *)
THEOREM GroupIsEnded == Spec => []CancelledMeansKilled
<1>1. IInv => CancelledMeansKilled
    BY DEF IInv, ThreadInv, ChildInv, StatusTruthful, CancelledMeansKilled
<1> QED
    BY Invariance, <1>1, PTL

(* The status that is reported is that of the command, whichever of the    *)
(* two variables it was stored in, and a call that leaves its child        *)
(* unwaited for reports the failure it comes from (352, 391, 454-482).     *)
THEOREM StatusIsTrue == Spec => []StatusTruthful
<1>1. IInv => StatusTruthful
    BY DEF IInv
<1> QED
    BY Invariance, <1>1, PTL

(* Everything the shell printed was read before the report, for a pipe of  *)
(* any size and a loop left by either of its exits (397-445).              *)
THEOREM OutputIsComplete == Spec => []OutputComplete
<1>1. IInv => OutputComplete
    BY DEF IInv, OutputInv, OutputComplete, Leaving
<1> QED
    BY Invariance, <1>1, PTL

(* The cancel thread sends its SIGKILL before the monitor returns, on each *)
(* of the paths that join it (371, 388, 435, 450), and before the child of *)
(* a timeout is waited for (385-391).                                      *)
THEOREM SignalsStayHome == Spec => []SignalsOwnGroup
<1>1. IInv => SignalsOwnGroup
    BY DEF IInv, ThreadInv, ChildInv, TypeOK, Locations, SignalsOwnGroup,
       TimedOut
<1> QED
    BY Invariance, <1>1, PTL

-----------------------------------------------------------------------------
(* The refinement.  What TaskSubmission sees of a state, and when a step   *)
(* shows it nothing new.                                                   *)

SeenChild ==
    IF child = "reaped" /\ pc # "returned" THEN "zombie" ELSE child

SeenHelper == helper /\ child # "running"

LEMMA SameView ==
    ASSUME rpc_cancelled' = rpc_cancelled,
           pc' = "returned" <=> pc = "returned",
           rpc_status' = rpc_status \/ pc' # "returned",
           SeenChild' = SeenChild,
           SeenHelper' = SeenHelper
    PROVE  UNCHANGED Submission!vars
BY DEF Submission!vars, Submission!handlerVars,
       Submission!clientVars, Submission!processVars, Only,
       SeenChild, SeenHelper

(* A shell that ends, by itself or by the SIGKILL of a timeout.            *)
LEMMA ExitStep ==
    ASSUME child = "running", child' = "zombie",
           helper' \in BOOLEAN, helper' => "helper" \in Behaviours,
           rpc_cancelled' = rpc_cancelled,
           \/ pc' = pc /\ rpc_status' = rpc_status
           \/ pc # "returned" /\ pc' # "returned"
    PROVE  Submission!ChildExits(Task)
BY DEF Submission!ChildExits, Submission!handlerVars, Submission!clientVars,
       Submission!processVars, Only

LEMMA HelperStep ==
    ASSUME child # "running", helper = TRUE, helper' = FALSE,
           UNCHANGED <<child, rpc_cancelled>>,
           \/ pc' = pc /\ rpc_status' = rpc_status
           \/ pc # "returned" /\ pc' # "returned"
    PROVE  Submission!HelpersExit(Task)
BY DEF Submission!HelpersExit, Submission!handlerVars, Submission!clientVars,
       Submission!processVars, Only

LEMMA CancelStep ==
    ASSUME pc # "returned", rpc_cancelled = FALSE, rpc_cancelled' = TRUE,
           UNCHANGED <<pc, rpc_status, child, helper>>
    PROVE  Submission!Cancel(Task)
BY DEF Submission!Cancel, Submission!handlerVars,
       Submission!clientVars, Submission!processVars, Only

LEMMA KillStep ==
    ASSUME pc # "returned", pc' = pc, rpc_cancelled = TRUE,
           rpc_cancelled' = TRUE,
           child = "running" \/ helper,
           child \in {"running", "zombie", "reaped"},
           child' = IF child = "running" THEN "zombie" ELSE child,
           helper' = FALSE
    PROVE  Submission!CancelThreadKills(Task)
BY DEF Submission!CancelThreadKills, Submission!Alive, Submission!handlerVars,
       Submission!clientVars, Submission!processVars, Only

LEMMA ReapStep ==
    ASSUME pc # "returned", pc' = "returned",
           child = "reaped", UNCHANGED <<child, rpc_cancelled, helper>>,
           \/ rpc_status' \in {"OK", "INTERNAL", "IO_ERROR"}
           \/ rpc_status' = "CANCELLED" /\ rpc_cancelled = TRUE
                 /\ helper = FALSE
    PROVE  Submission!MonitorReaps(Task)
BY DEF Submission!MonitorReaps, Submission!MonitorReturns, Submission!Goto,
       Submission!handlerVars, Submission!clientVars, Submission!processVars,
       Only

LEMMA TimeoutStep ==
    ASSUME pc # "returned", pc' = "returned", IdleTimeout = TRUE,
           child = "zombie",
           \/ child' = "reaped"
           \/ child' = "zombie" /\ "wait_error" \in Behaviours,
           UNCHANGED rpc_cancelled, helper = FALSE, helper' = FALSE,
           rpc_status' = "DEADLINE_EXCEEDED"
    PROVE  Submission!MonitorTimesOut(Task)
BY DEF Submission!MonitorTimesOut, Submission!MonitorReturns,
       Submission!Goto, Submission!handlerVars, Submission!clientVars,
       Submission!processVars, Only

LEMMA FailStep ==
    ASSUME pc # "returned", pc' = "returned", child # "reaped",
           UNCHANGED <<child, helper, rpc_cancelled>>,
           \/ rpc_status' = "IO_ERROR" /\ "io_error" \in Behaviours
           \/ rpc_status' = "WAIT_ERROR" /\ "wait_error" \in Behaviours
    PROVE  Submission!MonitorFails(Task)
BY DEF Submission!MonitorFails, Submission!MonitorReturns,
       Submission!Goto, Submission!handlerVars, Submission!clientVars,
       Submission!processVars, Only

(* Helpers, failures and timeouts happen only where they are allowed.      *)
CauseInv ==
    /\ helper => "helper" \in Behaviours
    /\ pc \in {"join_poll", "join_read"} => "io_error" \in Behaviours
    /\ pc \in {"idle_kill", "join_idle", "wait_idle"} => IdleTimeout

LEMMA Causes == Spec => []CauseInv
<1>1. Init => CauseInv
    BY DEF Init, CauseInv
<1>2. CauseInv /\ [Next]_vars => CauseInv'
    <2> SUFFICES ASSUME CauseInv, [Next]_vars PROVE CauseInv'
        OBVIOUS
    <2> USE DEF CauseInv, statusVars, threadVars, processVars, outputVars
    <2>1. CASE HandlerThread
        BY <2>1 DEF HandlerThread, TryReap, PollReady, PollTimeout, Drained,
           ReadChunk, ReadNothing, ReadEndOfStream, Continue, Leave, Goto,
           JoinAfterPollFailure, JoinAfterReadFailure, IdleKill,
           JoinAfterTimeout, WaitAfterTimeout, CloseOutput, JoinCancelThread,
           WaitForChild, ReturnVerdict, Joins, Return, StopCancelThread,
           KillGroup
    <2>2. CASE IdleExpires
        BY <2>2 DEF IdleExpires, Goto
    <2>3. CASE Failure
        BY <2>3 DEF Failure, PollFails, ReadFails,
           WaitAfterTimeoutFails, WaitFails, StopCancelThread, Return
    <2>4. CASE CancelThread
        BY <2>4 DEF CancelThread, WatchEnds, CancelThreadStops,
           CancelThreadTerminates, CancelThreadKills, KillGroup
    <2>5. CASE Environment
        BY <2>5 DEF Environment, Cancel, Write, FallSilent, ChildClosesOutput,
           ChildStartsHelper, ChildExits, HelperExits, ForeignCloses
    <2>6. CASE UNCHANGED vars
        BY <2>6 DEF vars
    <2> QED
        BY <2>1, <2>2, <2>3, <2>4, <2>5, <2>6 DEF Next
<1> QED
    BY <1>1, <1>2, PTL DEF Spec

(* The steps that show TaskSubmission nothing.                             *)
Unseen ==
    /\ rpc_cancelled' = rpc_cancelled
    /\ pc' = "returned" <=> pc = "returned"
    /\ rpc_status' = rpc_status \/ pc' # "returned"
    /\ SeenChild' = SeenChild
    /\ SeenHelper' = SeenHelper

LEMMA HandlerImplements ==
    IInv /\ CauseInv /\ HandlerThread => SubmissionStep \/ Unseen
<1> SUFFICES ASSUME IInv, CauseInv, HandlerThread
             PROVE  SubmissionStep \/ Unseen
    OBVIOUS
<1> USE DEF IInv, TypeOK, statusVars, threadVars, processVars, Unseen,
        SeenChild, SeenHelper
<1>1. CASE TryReap
    BY <1>1 DEF TryReap
<1>2. CASE PollReady
    BY <1>2 DEF PollReady, Goto
<1>3. CASE PollTimeout \/ ReadNothing
    BY <1>3 DEF PollTimeout, ReadNothing, Continue, Goto
<1>4. CASE Drained \/ ReadEndOfStream
    BY <1>4 DEF Drained, ReadEndOfStream, Leave, Goto
<1>5. CASE ReadChunk
    BY <1>5 DEF ReadChunk
<1>6. CASE JoinAfterPollFailure \/ JoinAfterReadFailure
    <2>1. /\ pc # "returned" /\ pc' = "returned"
          /\ rpc_status' = "IO_ERROR" /\ "io_error" \in Behaviours
          /\ UNCHANGED <<child, rpc_cancelled, helper>>
        BY <1>6 DEF JoinAfterPollFailure, JoinAfterReadFailure, Joins, Return,
           CauseInv
    <2>2. CASE child = "reaped"
        <3>1. Submission!MonitorReaps(Task)
            BY <2>1, <2>2, ReapStep
        <3> QED
            BY <3>1 DEF SubmissionStep
    <2>3. CASE child # "reaped"
        <3>1. Submission!MonitorFails(Task)
            BY <2>1, <2>3, FailStep
        <3> QED
            BY <3>1 DEF SubmissionStep
    <2> QED
        BY <2>2, <2>3
<1>7. CASE IdleKill
    <2> USE DEF IdleKill, StopCancelThread, KillGroup
    <2>1. CASE child = "running"
        <3>1. Submission!ChildExits(Task)
            BY <1>7, <2>1, ExitStep
        <3> QED
            BY <3>1 DEF SubmissionStep
    <2>2. CASE child # "running" /\ helper
        <3>1. Submission!HelpersExit(Task)
            BY <1>7, <2>2, HelperStep
        <3> QED
            BY <3>1 DEF SubmissionStep
    <2>3. CASE child # "running" /\ ~helper
        BY <1>7, <2>3
    <2> QED
        BY <2>1, <2>2, <2>3
<1>8. CASE JoinAfterTimeout \/ JoinCancelThread
    BY <1>8 DEF JoinAfterTimeout, JoinCancelThread, Joins, Goto
<1>9. CASE WaitAfterTimeout
    <2>1. /\ pc # "returned" /\ pc' = "returned"
          /\ UNCHANGED <<rpc_cancelled, helper>>
          /\ helper = FALSE
          /\ rpc_status' = "DEADLINE_EXCEEDED"
          /\ IdleTimeout = TRUE
        BY <1>9, MonitorAssumption
        DEF WaitAfterTimeout, Return, ChildInv, CauseInv
    <2>2. child = "zombie" /\ child' = "reaped"
        BY <1>9 DEF WaitAfterTimeout
    <2>3. Submission!MonitorTimesOut(Task)
        BY <2>1, <2>2, TimeoutStep
    <2> QED
        BY <2>3 DEF SubmissionStep
<1>10. CASE CloseOutput
    BY <1>10 DEF CloseOutput, StopCancelThread
<1>11. CASE WaitForChild
    BY <1>11 DEF WaitForChild, ChildInv
<1>12. CASE ReturnVerdict
    <2>1. /\ pc # "returned" /\ pc' = "returned"
          /\ child = "reaped"
          /\ UNCHANGED <<child, rpc_cancelled, helper>>
          /\ rpc_status' = Verdict
          /\ cancelled => rpc_cancelled = TRUE /\ helper = FALSE
        BY <1>12 DEF ReturnVerdict, Return, ThreadInv, ChildInv
    <2>2. Submission!MonitorReaps(Task)
        BY <2>1, ReapStep DEF Verdict
    <2> QED
        BY <2>2 DEF SubmissionStep
<1> QED
    BY <1>1, <1>2, <1>3, <1>4, <1>5, <1>6, <1>7, <1>8, <1>9, <1>10, <1>11,
       <1>12
    DEF HandlerThread

LEMMA OtherImplements ==
    /\ IInv /\ CauseInv /\ CauseInv'
    /\ IdleExpires \/ Failure \/ CancelThread \/ Environment
    => SubmissionStep \/ Unseen
<1> SUFFICES ASSUME IInv, CauseInv, CauseInv',
                    IdleExpires \/ Failure \/ CancelThread \/ Environment
             PROVE  SubmissionStep \/ Unseen
    OBVIOUS
<1> USE DEF IInv, TypeOK, statusVars, threadVars, processVars, Unseen,
        SeenChild, SeenHelper
<1>1. CASE IdleExpires \/ PollFails \/ ReadFails
    BY <1>1 DEF IdleExpires, PollFails, ReadFails, Goto, StopCancelThread
<1>2. CASE WatchEnds \/ CancelThreadStops \/ CancelThreadTerminates
    BY <1>2 DEF WatchEnds, CancelThreadStops, CancelThreadTerminates
<1>3. CASE CancelThreadKills
    <2>1. pc # "returned" /\ pc' = pc /\ UNCHANGED <<rpc_cancelled, rpc_status>>
        BY <1>3 DEF CancelThreadKills, ThreadInv
    <2>2. rpc_cancelled = TRUE
        BY <1>3 DEF CancelThreadKills, ThreadInv
    <2>3. CASE child = "running" \/ helper
        <3>1. Submission!CancelThreadKills(Task)
            BY <1>3, <2>1, <2>2, <2>3, KillStep
            DEF CancelThreadKills, KillGroup
        <3> QED
            BY <3>1 DEF SubmissionStep
    <2>4. CASE child # "running" /\ ~helper
        BY <1>3, <2>1, <2>4 DEF CancelThreadKills, KillGroup
    <2> QED
        BY <2>3, <2>4
<1>4. CASE Cancel
    <2>1. CASE rpc_cancelled = TRUE
        BY <1>4, <2>1 DEF Cancel
    <2>2. CASE rpc_cancelled = FALSE
        <3>1. Submission!Cancel(Task)
            BY <1>4, <2>2, CancelStep DEF Cancel
        <3> QED
            BY <3>1 DEF SubmissionStep
    <2> QED
        BY <2>1, <2>2
<1>5. ASSUME NEW w \in Writers, Write(w) \/ FallSilent(w)
      PROVE  Unseen
    BY <1>5 DEF Write, FallSilent
<1>6. CASE ChildClosesOutput \/ ForeignCloses
    BY <1>6 DEF ChildClosesOutput, ForeignCloses
<1>7. CASE ChildStartsHelper
    BY <1>7 DEF ChildStartsHelper
<1>8. ASSUME NEW e \in Exits, ChildExits(e)
      PROVE  SubmissionStep
    <2>1. /\ child = "running" /\ child' = "zombie"
          /\ UNCHANGED <<pc, rpc_status, rpc_cancelled, helper>>
        BY <1>8 DEF ChildExits
    <2>2. Submission!ChildExits(Task)
        BY <2>1, ExitStep DEF CauseInv
    <2> QED
        BY <2>2 DEF SubmissionStep
<1>9. CASE HelperExits
    <2>1. CASE child = "running"
        BY <1>9, <2>1 DEF HelperExits
    <2>2. CASE child # "running"
        <3>1. /\ helper = TRUE /\ helper' = FALSE
              /\ UNCHANGED <<pc, rpc_status, rpc_cancelled, child>>
            BY <1>9 DEF HelperExits
        <3>2. Submission!HelpersExit(Task)
            BY <2>2, <3>1, HelperStep
        <3> QED
            BY <3>2 DEF SubmissionStep
    <2> QED
        BY <2>1, <2>2
<1>10. CASE WaitAfterTimeoutFails
    <2>1. /\ pc # "returned" /\ pc' = "returned"
          /\ UNCHANGED <<rpc_cancelled, helper>>
          /\ helper = FALSE
          /\ rpc_status' = "DEADLINE_EXCEEDED"
          /\ IdleTimeout = TRUE
        BY <1>10, MonitorAssumption
        DEF WaitAfterTimeoutFails, Return, ChildInv, CauseInv
    <2>2. /\ child = "zombie" /\ child' = "zombie"
          /\ "wait_error" \in Behaviours
        BY <1>10 DEF WaitAfterTimeoutFails, Return, ChildInv
    <2>3. Submission!MonitorTimesOut(Task)
        BY <2>1, <2>2, TimeoutStep
    <2> QED
        BY <2>3 DEF SubmissionStep
<1>11. CASE WaitFails
    <2>1. Submission!MonitorFails(Task)
        BY <1>11, FailStep DEF WaitFails, Return, ChildInv
    <2> QED
        BY <2>1 DEF SubmissionStep
<1> QED
    BY <1>1, <1>2, <1>3, <1>4, <1>5, <1>6, <1>7, <1>8, <1>9, <1>10, <1>11
    DEF CancelThread, Environment, Failure

(* MonitorChildProcess, with its two threads, its polls and its races, is  *)
(* what TaskSubmission takes it to be: between registration and            *)
(* unregistration of the process group (492-501) it shows exactly the      *)
(* monitoring steps, so what is proved of submissions holds with it.       *)
THEOREM MonitorImplementsSubmission == Spec => ImplementsMonitoring
<1>1. IInv /\ CauseInv /\ CauseInv' /\ [Next]_vars
        => [SubmissionStep]_(Submission!vars)
    <2> SUFFICES ASSUME IInv, CauseInv, CauseInv', [Next]_vars
                 PROVE  SubmissionStep \/ UNCHANGED Submission!vars
        OBVIOUS
    <2>1. CASE HandlerThread
        BY <2>1, HandlerImplements, SameView DEF Unseen
    <2>2. CASE IdleExpires \/ Failure \/ CancelThread \/ Environment
        BY <2>2, OtherImplements, SameView DEF Unseen
    <2>3. CASE UNCHANGED vars
        BY <2>3, SameView DEF vars, statusVars, threadVars, processVars,
           SeenChild, SeenHelper
    <2> QED
        BY <2>1, <2>2, <2>3 DEF Next
<1> QED
    BY Invariance, Causes, <1>1, PTL DEF Spec, ImplementsMonitoring
=============================================================================
