------------------------- MODULE ReservationProofs -------------------------
(***************************************************************************)
(* Proofs about Reservation: for any list of files, any number of retries  *)
(* and any faults, the reservation of integrated_client lasts as long as   *)
(* its call and is given back, and the pool counts the utilization the     *)
(* command runs with, with the exceptions the properties name.             *)
(***************************************************************************)
EXTENDS Reservation, UploadProofs

(* TaskSubmit returns only from a call that is over.                       *)
CallOver == cpc = "returned" => spc = "returned" \/ rpc_cancelled

(* Before the end of the stream there is no command, and a call that       *)
(* returned as cancelled has seen it end.                                  *)
CommandWatched ==
    /\ spc = "download" => command = "none"
    /\ spc = "returned" /\ server_status = "CANCELLED" => command # "running"

(* What the client knows of its reservation, by the place it is at.        *)
InHand ==
    /\ attempts \in Nat
    /\ NoTask \notin pool
    /\ stage \in {"options", "prepare", "apply"} => task_id = NoTask
    /\ stage \in {"query", "target", "execute", "release"} =>
            task_id \in pool \cup {NoTask}

(* A reservation is given back only when the call is over.                 *)
NotTooEarly ==
    /\ stage = "release" => spc = "returned" \/ rpc_cancelled
    /\ stage = "exited" =>
            spc = "returned" \/ rpc_cancelled \/ task_id \in pool \cup {NoTask}

(* What is left in the pool has a reason.                                  *)
Accounted ==
    /\ (Integrated /\ stage = "exited" /\ task_id \in pool)
            => why \cap {"thrown", "killed", "release"} # {}
    /\ pool \subseteq {task_id} \/ why \cap {"lost", "noid"} # {}

Places == stage \in Stages

(* How far the second client has got: until it has ended it has not failed, *)
(* and it changes the pool only after the command, from which the value    *)
(* does not go away altogether.                                            *)
Halfway ==
    /\ updater \in [program : {"none", "integrated_client", "remote_client"},
                    stage : {"options", "query", "server", "pool", "exited"},
                    rc : {"none", "0", "1"}]
    /\ xsched_utilization \in [runtime : SUBSET Utilizations, pool : Utilizations]
    /\ updater.program = "none" <=> updater.stage = "options"
    /\ updater.stage # "exited" => updater.rc = "none"
    /\ updater.stage = "pool" => "new" \in xsched_utilization.runtime
    /\ updater.stage = "pool" =>
          \/ xsched_utilization.runtime = {"new"}
          \/ why \cap {"partial", "configured"} # {}

IInv == /\ CallOver
        /\ CommandWatched
        /\ Places
        /\ InHand
        /\ NotTooEarly
        /\ Accounted

-----------------------------------------------------------------------------
(* The upload never undoes the end of a call.                              *)
LEMMA UploadStep ==
    ASSUME CallOver, CommandWatched,
           TaskSubmit \/ Session \/ OpenFails \/ ReadFails \/ Cancel
               \/ HandleFails \/ ExecuteLeavesCommand \/ FlushBuffer
    PROVE  /\ CallOver' /\ CommandWatched'
           /\ spc = "returned" => spc' = "returned"
           /\ rpc_cancelled => rpc_cancelled'
<1> USE DEF CallOver, CommandWatched, clientVars, streamVars, serverVars, Send, StopUpload,
        NextFile, Take, ServerReturns, Reads
<1>1. CASE TaskSubmit
    <2>1. CASE SendConfig
        BY <2>1 DEF SendConfig
    <2>2. CASE SendConfigFails
        BY <2>2 DEF SendConfigFails, Over
    <2>3. CASE OpenFile \/ AllSent \/ SendChunk \/ SendChunkFails \/ FileRead
        BY <2>3 DEF OpenFile, AllSent, SendChunk, SendChunkFails, FileRead
    <2>4. CASE WritesDone
        BY <2>4 DEF WritesDone
    <2>5. CASE Finish
        BY <2>5 DEF Finish
    <2> QED
        BY <1>1, <2>1, <2>2, <2>3, <2>4, <2>5 DEF TaskSubmit
<1>2. CASE Session
    <2>1. CASE ReadCancelled
        BY <2>1 DEF ReadCancelled
    <2>2. CASE HandleConfig
        BY <2>2 DEF HandleConfig
    <2>3. CASE HandleFileChunk
        BY <2>3 DEF HandleFileChunk
    <2>4. CASE EndOfStream
        BY <2>4 DEF EndOfStream, StreamEnded
    <2>5. CASE StartCommand \/ CommandEnds
        BY <2>5 DEF StartCommand, CommandEnds, MoveCommand
    <2>6. CASE StartFails \/ ExecuteReturns
        BY <2>6 DEF StartFails, ExecuteReturns
    <2> QED
        BY <1>2, <2>1, <2>2, <2>3, <2>4, <2>5, <2>6 DEF Session
<1>3. CASE OpenFails \/ ReadFails
    BY <1>3 DEF OpenFails, ReadFails
<1>4. CASE Cancel
    BY <1>4 DEF Cancel
<1>5. CASE HandleFails
    BY <1>5 DEF HandleFails
<1>6. CASE ExecuteLeavesCommand
    BY <1>6 DEF ExecuteLeavesCommand
<1>7. CASE FlushBuffer
    BY <1>7 DEF FlushBuffer
<1> QED
    BY <1>1, <1>2, <1>3, <1>4, <1>5, <1>6, <1>7

(* A step of the upload leaves the reservation alone.                      *)
LEMMA UploadKeeps ==
    ASSUME IInv, UNCHANGED callVars,
           TaskSubmit \/ Session \/ OpenFails \/ ReadFails \/ Cancel
               \/ HandleFails \/ ExecuteLeavesCommand \/ FlushBuffer
    PROVE  IInv'
<1>1. /\ CallOver' /\ CommandWatched'
      /\ spc = "returned" => spc' = "returned"
      /\ rpc_cancelled => rpc_cancelled'
    BY UploadStep DEF IInv
<1>2. /\ stage' = stage /\ task_id' = task_id /\ pool' = pool /\ why' = why
      /\ attempts' = attempts /\ program' = program
    BY DEF callVars
<1> QED
    BY <1>1, <1>2 DEF IInv, Places, InHand, NotTooEarly, Accounted, Integrated

-----------------------------------------------------------------------------
(* The client between its options and the submission.                      *)
LEMMA BeforeSubmit ==
    ASSUME IInv,
           ParseArguments \/ WrongArguments \/ PrepareWorkspace \/ NothingToUpload
               \/ ApplyResource \/ ApplyRetried \/ ApplyFails \/ QueryResource
               \/ QueryFails \/ FormatNodeTarget \/ EmptyNodeIP
    PROVE  IInv'
<1> USE DEF IInv, CallOver, CommandWatched, Places, Stages, InHand, NotTooEarly, Accounted, vars,
        clientVars, streamVars, serverVars, Integrated, NoTask
<1>1. CASE ParseArguments
    BY <1>1 DEF ParseArguments, Enter
<1>2. CASE WrongArguments
    BY <1>2 DEF WrongArguments, GiveUp
<1>3. CASE PrepareWorkspace
    BY <1>3 DEF PrepareWorkspace, Enter
<1>4. CASE NothingToUpload
    BY <1>4 DEF NothingToUpload, GiveUp
<1>5. CASE ApplyResource
    BY <1>5 DEF ApplyResource, Enter, Attempt
<1>6. CASE ApplyRetried
    BY <1>6 DEF ApplyRetried, Enter, Attempt
<1>7. CASE ApplyFails
    BY <1>7 DEF ApplyFails, GiveUp, Attempt
<1>8. CASE QueryResource
    BY <1>8 DEF QueryResource
<1>9. CASE QueryFails
    BY <1>9 DEF QueryFails, GiveUp
<1>10. CASE FormatNodeTarget
    BY <1>10 DEF FormatNodeTarget, Enter
<1>11. CASE EmptyNodeIP
    BY <1>11 DEF EmptyNodeIP, GiveUp
<1> QED
    BY <1>1, <1>2, <1>3, <1>4, <1>5, <1>6, <1>7, <1>8, <1>9, <1>10, <1>11

(* The client from the end of the submission on.                           *)
LEMMA AfterSubmission ==
    ASSUME IInv, ExecuteTask \/ ReleaseResource \/ ReleaseFails \/ Killed
    PROVE  IInv'
<1> USE DEF IInv, CallOver, CommandWatched, Places, Stages, InHand, NotTooEarly, Accounted, vars,
        clientVars, streamVars, serverVars, Integrated
<1>1. CASE ExecuteTask
    BY <1>1 DEF ExecuteTask, SubmitReturned, AfterSubmit
<1>2. CASE ReleaseResource
    BY <1>2 DEF ReleaseResource, Enter
<1>3. CASE ReleaseFails
    BY <1>3 DEF ReleaseFails, Enter
<1>4. CASE Killed
    <2>1. /\ stage' = "exited" /\ why' = why \cup {"killed"}
          /\ UNCHANGED <<cpc, spc, command, server_status, program, attempts,
                         task_id, pool>>
          /\ rpc_cancelled => rpc_cancelled'
        BY <1>4 DEF Killed
    <2> QED
        BY <2>1, <1>4 DEF Killed
<1> QED
    BY <1>1, <1>2, <1>3, <1>4

(* The invariant is inductive.                                             *)
LEMMA Step ==
    ASSUME IInv, [ReservationNext]_allVars
    PROVE  IInv'
<1>1. CASE RunClient
    <2>1. CASE Submit
        BY <2>1, UploadKeeps DEF Submit
    <2> QED
        BY <1>1, <2>1, BeforeSubmit, AfterSubmission DEF RunClient
<1>2. CASE RunUpdate \/ ConfiguresAnew
    <2>1. NotTheUpdate /\ why \subseteq why'
        BY <1>2 DEF RunUpdate, StartUpdate, UpdateQuery, UpdateUtilization,
                    UpdateResourceUtilization, ConfiguresAnew, NoValueChanges
    <2> QED
        BY <2>1 DEF NotTheUpdate, IInv, CallOver, CommandWatched, Places, InHand,
            NotTooEarly, Accounted, vars, clientVars, streamVars, serverVars,
            Integrated
<1>3. CASE ServerSession
    BY <1>3, UploadKeeps DEF ServerSession
<1>4. CASE ClientFault
    BY <1>4, BeforeSubmit, AfterSubmission DEF ClientFault
<1>5. CASE UploadFault
    BY <1>5, UploadKeeps DEF UploadFault
<1>6. CASE UNCHANGED allVars
    BY <1>6 DEF IInv, CallOver, CommandWatched, Places, InHand, NotTooEarly, Accounted, allVars,
        vars, clientVars, streamVars, serverVars, callVars, Integrated
<1> QED
    BY <1>1, <1>2, <1>3, <1>4, <1>5, <1>6 DEF ReservationNext

LEMMA Start ==
    ASSUME ReservationInit
    PROVE  IInv
BY DEF ReservationInit, Init, IInv, CallOver, CommandWatched, Places, Stages, InHand, NotTooEarly,
    Accounted, NoTask

(* The reservation of integrated_client is in the pool as long as its      *)
(* command runs (integrated_client.cc 562-563), but for a cancelled call   *)
(* that has not returned yet and for a handler that returned, not as       *)
(* cancelled, before its command.                                          *)
THEOREM CommandHoldsReservation == ReservationSpec => []RunsUnderReservation
<1>1. IInv => RunsUnderReservation
    BY DEF IInv, CommandWatched, Places, Stages, InHand, NotTooEarly,
        RunsUnderReservation
<1> QED
    BY <1>1, Start, Step, PTL DEF ReservationSpec

(* What integrated_client leaves in the pool, it leaves for one of the     *)
(* reasons named (554-566).                                                *)
THEOREM ReservationIsReturned == ReservationSpec => []ReservationReturned
<1>1. IInv => ReservationReturned
    BY DEF IInv, Accounted, ReservationReturned
<1> QED
    BY <1>1, Start, Step, PTL DEF ReservationSpec

-----------------------------------------------------------------------------
(* The second client, one step of it and the steps of everybody else.      *)
LEMMA UpdateStep ==
    ASSUME Halfway, UtilizationAccounted, [ReservationNext]_allVars
    PROVE  (Halfway /\ UtilizationAccounted)'
<1> USE DEF Halfway, UtilizationAccounted, Utilizations, UpdaterEnds
<1>1. CASE StartUpdate
    BY <1>1 DEF StartUpdate, NoValueChanges
<1>2. CASE UpdateQuery
    BY <1>2 DEF UpdateQuery, NoValueChanges
<1>3. CASE UpdateUtilization
    <2> DEFINE r == xsched_utilization.runtime
    <2>1. /\ updater.stage = "server" /\ updater.rc = "none"
          /\ updater.program \in {"integrated_client", "remote_client"}
          /\ r \in SUBSET Utilizations /\ "new" \in Utilizations
        BY <1>3 DEF UpdateUtilization
    <2>2. \/ UpdateTaken /\ Hinted({"new"}) /\ why' = why
          \/ /\ UpdateTaken /\ Hinted(r \cup {"new"})
             /\ why' = why \cup {"partial"}
          \/ /\ UpdaterEnds("1") /\ why' = why
             /\ \E v \in {r, r \cup {"new"}, {"new"}} : Hinted(v)
        BY <1>3 DEF UpdateUtilization
    <2>3. \A v \in SUBSET Utilizations : Hinted(v) =>
             /\ xsched_utilization' \in [runtime : SUBSET Utilizations,
                                         pool : Utilizations]
             /\ xsched_utilization'.runtime = v
        BY DEF Hinted
    <2>4. CASE /\ UpdateTaken
               /\ \/ Hinted({"new"}) /\ why' = why
                  \/ Hinted(r \cup {"new"}) /\ why' = why \cup {"partial"}
        <3>1. /\ updater' \in [program : {"none", "integrated_client", "remote_client"},
                    stage : {"options", "query", "server", "pool", "exited"},
                    rc : {"none", "0", "1"}]
              /\ updater'.program = updater.program
              /\ \/ /\ updater'.program = "integrated_client"
                    /\ updater'.stage = "pool" /\ updater'.rc = "none"
                 \/ /\ updater'.program = "remote_client"
                    /\ updater'.stage = "exited"
            BY <2>1, <2>4 DEF UpdateTaken
        <3>2. CASE Hinted({"new"}) /\ why' = why
            <4>1. /\ xsched_utilization' \in [runtime : SUBSET Utilizations,
                                              pool : Utilizations]
                  /\ xsched_utilization'.runtime = {"new"}
                BY <2>1, <2>3, <3>2
            <4> QED
                BY <2>1, <3>1, <4>1
        <3>3. CASE Hinted(r \cup {"new"}) /\ why' = why \cup {"partial"}
            <4>1. /\ xsched_utilization' \in [runtime : SUBSET Utilizations,
                                              pool : Utilizations]
                  /\ "new" \in xsched_utilization'.runtime
                BY <2>1, <2>3, <3>3
            <4>2. why' \cap {"partial", "configured"} # {}
                BY <3>3
            <4> QED
                BY <2>1, <3>1, <4>1, <4>2
        <3> QED
            BY <2>4, <3>2, <3>3
    <2>5. CASE /\ UpdaterEnds("1") /\ why' = why
               /\ \E v \in {r, r \cup {"new"}, {"new"}} : Hinted(v)
        BY <2>1, <2>3, <2>5
    <2> QED
        BY <2>2, <2>4, <2>5
<1>4. CASE UpdateResourceUtilization
    BY <1>4 DEF UpdateResourceUtilization, ExitCode
<1>5. CASE ConfiguresAnew
    BY <1>5 DEF ConfiguresAnew, Hinted
<1>6. CASE UNCHANGED <<updater, xsched_utilization>> /\ why \subseteq why'
    BY <1>6
<1>7. RunClient => UNCHANGED <<updater, xsched_utilization>> /\ why \subseteq why'
    BY DEF RunClient, ParseArguments, WrongArguments, PrepareWorkspace,
        NothingToUpload, ApplyResource, ApplyFails, QueryResource,
        FormatNodeTarget, Submit, ExecuteTask, ReleaseResource, Enter, GiveUp,
        callVars
<1>8. ClientFault => UNCHANGED <<updater, xsched_utilization>> /\ why \subseteq why'
    BY DEF ClientFault, ApplyRetried, QueryFails, EmptyNodeIP, ReleaseFails,
        Killed, Enter, GiveUp
<1>9. ServerSession \/ UploadFault \/ UNCHANGED allVars
        => UNCHANGED <<updater, xsched_utilization>> /\ why \subseteq why'
    BY DEF ServerSession, UploadFault, callVars, allVars
<1> QED
    BY <1>1, <1>2, <1>3, <1>4, <1>5, <1>6, <1>7, <1>8, <1>9
        DEF ReservationNext, RunUpdate

(* The command and the pool disagree about the utilization only for the    *)
(* reasons named: the two calls of an update are ordered, the failure of   *)
(* the second one is in the exit code (513-532), and what the OK of the    *)
(* first one does not promise is named (181-197 of task_runtime_control.cc,*)
(* 279 of task_executor.cc).                                               *)
THEOREM UtilizationIsAccounted == ReservationSpec => []UtilizationAccounted
<1>1. ReservationInit => Halfway /\ UtilizationAccounted
    BY DEF ReservationInit, Halfway, UtilizationAccounted, Utilizations
<1> QED
    BY <1>1, UpdateStep, PTL DEF ReservationSpec

-----------------------------------------------------------------------------
(* The upload among the three clients: what they do around it leaves it    *)
(* alone, and the end of a process is the end of its call.                 *)
LEMMA UploadOrHangup ==
    ASSUME UploadInv, [ReservationNext]_allVars
    PROVE  [Next]_vars \/ Hangup
<1>1. CASE Killed
    BY <1>1, Zenon DEF Killed, Hangup, UploadInv, TypeOK
<1>2. RunClient => [Next]_vars
    BY DEF RunClient, ParseArguments, WrongArguments, PrepareWorkspace,
        NothingToUpload, ApplyResource, ApplyFails, QueryResource,
        FormatNodeTarget, Submit, ExecuteTask, ReleaseResource, Enter, GiveUp, Next
<1>3. RunUpdate \/ ConfiguresAnew => UNCHANGED vars
    BY DEF RunUpdate, StartUpdate, UpdateQuery, UpdateUtilization,
        UpdateResourceUtilization, ConfiguresAnew, NotTheUpdate
<1>4. ServerSession \/ UploadFault => Next
    BY DEF ServerSession, UploadFault, Next
<1>5. ClientFault => UNCHANGED vars \/ Killed
    BY DEF ClientFault, ApplyRetried, QueryFails, EmptyNodeIP, ReleaseFails, Enter, GiveUp
<1>6. UNCHANGED allVars => UNCHANGED vars
    BY DEF allVars
<1> QED
    BY <1>1, <1>2, <1>3, <1>4, <1>5, <1>6 DEF ReservationNext

LEMMA UploadOfAClient == ReservationSpec => []UploadInv
<1>1. ReservationInit => UploadInv
    BY NothingSent DEF ReservationInit
<1>2. UploadInv /\ [ReservationNext]_allVars => UploadInv'
    BY UploadOrHangup, KeepsUploadInv, HangupStep
<1> QED
    BY <1>1, <1>2, PTL DEF ReservationSpec

(* What the clients keep besides the upload.                               *)
Retries ==
    /\ program \in Kinds
    /\ missing \in Options \cup {NoOption}
    /\ stage \in Stages
    /\ attempts \in 0..MaxRetry
    /\ task_id \in 0..(MaxRetry + 1)
    /\ rc \in {"none", "0", "1", "killed"}
    /\ pool \subseteq 1..(MaxRetry + 1)
    /\ why \subseteq CallFaultKinds \cup
            {"lost", "refused", "thrown", "killed", "partial", "configured"}

LEMMA RetriesStart ==
    ASSUME ReservationInit
    PROVE  Retries
<1>1. MaxRetry \in Nat /\ Programs \subseteq Kinds
    BY ReservationAssumption
<1>2. missing \in Options \cup {NoOption}
    <2>1. program \in Kinds
        BY <1>1 DEF ReservationInit
    <2>2. Checks \subseteq Options
        BY <2>1 DEF Kinds, Checks, IntegratedChecks, RemoteChecks, ResourceChecks,
            Options
    <2> QED
        BY <2>2 DEF ReservationInit, Options
<1>3. attempts = 0 /\ task_id = 0 /\ 0 \in 0..MaxRetry /\ 0 \in 0..(MaxRetry + 1)
    BY <1>1 DEF ReservationInit, NoTask
<1> QED
    BY <1>1, <1>2, <1>3 DEF ReservationInit, Retries, Stages

LEMMA RetriesStep ==
    ASSUME Retries, [ReservationNext]_allVars
    PROVE  Retries'
<1>1. /\ MaxRetry \in Nat /\ Attempt = attempts + 1
      /\ attempts \in 0..MaxRetry
      /\ Attempt \in 1..(MaxRetry + 1)
      /\ attempts < MaxRetry => Attempt \in 0..MaxRetry
      /\ \A n \in 1..(MaxRetry + 1) : n \in 0..(MaxRetry + 1)
      /\ NoTask \in 0..(MaxRetry + 1)
    BY ReservationAssumption DEF Retries, Attempt, NoTask
<1>2. CASE UNCHANGED <<program, missing, stage, attempts, task_id, rc, pool, why>>
    BY <1>2 DEF Retries
<1>3. CASE ParseArguments \/ PrepareWorkspace \/ FormatNodeTarget
    BY <1>3 DEF ParseArguments, PrepareWorkspace, FormatNodeTarget, Enter, Retries, Stages
<1>4. CASE WrongArguments \/ NothingToUpload \/ QueryFails \/ EmptyNodeIP
    BY <1>4 DEF WrongArguments, NothingToUpload, QueryFails, EmptyNodeIP, GiveUp,
        Retries, Stages, CallFaultKinds
<1>5. CASE ApplyResource
    BY <1>1, <1>5 DEF ApplyResource, Enter, Retries, Stages, CallFaultKinds
<1>6. CASE ApplyRetried
    BY <1>1, <1>6 DEF ApplyRetried, Enter, Retries, Stages
<1>7. CASE ApplyFails
    BY <1>1, <1>7 DEF ApplyFails, GiveUp, Retries, Stages
<1>8. CASE QueryResource \/ ExecuteTask
    BY <1>8 DEF QueryResource, ExecuteTask, AfterSubmit, Retries, Stages
<1>9. CASE ReleaseResource \/ ReleaseFails
    BY <1>9 DEF ReleaseResource, ReleaseFails, Enter, Retries, Stages, CallFaultKinds
<1>10. CASE Killed
    BY <1>10 DEF Killed, Retries, Stages
<1>11. CASE RunUpdate \/ ConfiguresAnew
    <2>1. /\ UNCHANGED <<program, missing, stage, attempts, task_id, rc, pool>>
          /\ why' \subseteq why \cup {"partial", "configured"}
        BY <1>11 DEF RunUpdate, StartUpdate, UpdateQuery, UpdateUtilization,
            UpdateResourceUtilization, ConfiguresAnew, NotTheUpdate, NoValueChanges
    <2> QED
        BY <2>1 DEF Retries
<1>12. CASE ServerSession \/ UploadFault \/ Submit \/ UNCHANGED allVars
    BY <1>2, <1>12 DEF ServerSession, UploadFault, Submit, callVars, allVars
<1> QED
    BY <1>3, <1>4, <1>5, <1>6, <1>7, <1>8, <1>9, <1>10, <1>11, <1>12
       DEF ReservationNext, RunClient, ClientFault

(* The exit codes, the attempts and the reservations stay within what the  *)
(* three main() functions and max_retry allow, whatever the controller     *)
(* answers.                                                                *)
THEOREM ReservationTypeCorrect == ReservationSpec => []ReservationTypeOK
<1>1. ReservationInit => Halfway /\ UtilizationAccounted
    BY DEF ReservationInit, Halfway, UtilizationAccounted, Utilizations
<1>2. UploadInv /\ Retries /\ Halfway => ReservationTypeOK
    <2> SUFFICES ASSUME UploadInv, Retries, Halfway
                 PROVE  ReservationTypeOK
        OBVIOUS
    <2>1. updater \in [program : Kinds \cup {"none"}, rc : {"none", "0", "1"},
                       stage : {"options", "query", "server", "pool", "exited"}]
        BY DEF Halfway, Kinds
    <2> QED
        BY <2>1 DEF UploadInv, Retries, Halfway, ReservationTypeOK
<1> QED
    BY <1>1, <1>2, UpdateStep, RetriesStart, RetriesStep, UploadOfAClient, PTL
       DEF ReservationSpec

(* Under each of the three clients, whatever ends it, the workspace of the *)
(* server holds beginnings of the files (remote_service_implement.cc       *)
(* 312-373).                                                               *)
THEOREM ClientFilesAreBeginnings == ReservationSpec => []DiskIsPrefix
BY UploadOfAClient, UploadImplies, PTL

(* The command of a submission runs on what its client has sent, whatever  *)
(* becomes of the client (remote_service_implement.cc 248-283).            *)
THEOREM ClientCommandSeesAllSent == ReservationSpec => []RunsOnWhatWasSent
BY UploadOfAClient, UploadImplies, PTL

(* TaskSubmit says OK to each of the clients only when every chunk of the  *)
(* list it was given has arrived, but for the failures nobody looks at     *)
(* (client_api.cc 393-456).                                                *)
THEOREM ClientOkIsEveryChunk == ReservationSpec => []OkMeansEveryChunk
BY UploadOfAClient, UploadImplies, PTL
=============================================================================
