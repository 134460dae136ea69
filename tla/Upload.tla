------------------------------- MODULE Upload -------------------------------
(***************************************************************************)
(* The upload of one submission: RemoteServiceClient::TaskSubmit of        *)
(* src/client/client_api.cc (120-189, 393-456) on one side of the stream   *)
(* and WorkspaceDownloadSession of src/server/remote_service_implement.cc  *)
(* (240-383) on the other.                                                 *)
(*                                                                         *)
(* A file is its position in the client's list; no two have one relative   *)
(* path (CollectDirectoryFiles walks a directory tree).  Its content is    *)
(* the sequence of its chunks, a chunk its position in the file.  The gRPC *)
(* stream is external: it delivers requests in order, holds a bounded      *)
(* number of them, and loses what is under way when the call is cancelled  *)
(* or the connection breaks.                                               *)
(***************************************************************************)
EXTENDS Naturals, Sequences

CONSTANTS
    NumFiles,       \* files.size()
    Chunks,         \* Chunks[f]: reads of kChunkSize bytes file f takes
    Full,           \* files whose last chunk is a full kChunkSize
    Window,         \* requests the stream holds
    Faults          \* what may go wrong, see FaultKinds

FaultKinds ==
    {"open",        \* the client cannot open one of the files
     "read",        \* the client's read() of a file fails or ends early
     "cancel",      \* Ctrl+C, or the connection is lost
     "server",      \* the server refuses the config or cannot write a file
     "flush",       \* the server's file system loses what close() flushes
     "outlive"}     \* the command, or a process of it, outlives the handler

Files == 1..NumFiles

ASSUME UploadAssumption ==
    /\ NumFiles \in Nat \ {0}
    /\ Chunks \in [Files -> Nat]
    /\ Full \subseteq Files
    /\ Window \in Nat \ {0}
    /\ Faults \subseteq FaultKinds

VARIABLES
    cpc,                \* where TaskSubmit stands
    file,               \* the file it is sending
    sent,               \* sent[f]: chunks of file f written to the stream
    upload_status,
    report,             \* the status TaskSubmit returns
    requests,           \* requests in the stream
    writes_done,        \* WritesDone() was called
    rpc_cancelled,
    spc,                \* where the server's handler stands
    received_config_,
    current_file_path_, \* the file open for writing, or NoFile
    unflushed,          \* chunks in the buffer of outfile_
    disk,               \* disk[f]: what file f holds in the workspace
    made,               \* the files that exist in the workspace
    command,            \* the processes of the command
    server_status,      \* the status the server returned
    cut                 \* history: files a failure went unnoticed at

clientVars == <<cpc, file, sent, upload_status, report>>
streamVars == <<requests, writes_done, rpc_cancelled>>
serverVars == <<spc, received_config_, current_file_path_, unflushed, disk,
                made, command, server_status>>
vars == <<clientVars, streamVars, serverVars, cut>>

NoFile == 0

Codes == {"none", "OK", "CANCELLED", "INVALID_ARGUMENT", "INTERNAL", "ABORTED"}

Config == [file |-> NoFile, index |-> 0, start |-> FALSE, end |-> FALSE]

Chunk(f, i) ==
    [file |-> f, index |-> i, start |-> i = 1,
     end |-> i = Chunks[f] /\ f \notin Full]

Requests == [file : Nat, index : Nat, start : BOOLEAN, end : BOOLEAN]

(* The content of a file whose first n chunks have been written.           *)
Content(n) == [i \in 1..n |-> i]

Init ==
    /\ cpc = "config"
    /\ file = 1
    /\ sent = [f \in Files |-> 0]
    /\ upload_status = "OK"
    /\ report = "none"
    /\ requests = <<>>
    /\ writes_done = FALSE
    /\ rpc_cancelled = FALSE
    /\ spc = "download"
    /\ received_config_ = FALSE
    /\ current_file_path_ = NoFile
    /\ unflushed = <<>>
    /\ disk = [f \in Files |-> <<>>]
    /\ made = {}
    /\ command = "none"
    /\ server_status = "none"
    /\ cut = {}

-----------------------------------------------------------------------------
(* ClientReaderWriter::Write: it waits for room, and fails when the call   *)
(* is over.                                                                *)

Room == Len(requests) < Window /\ ~rpc_cancelled

(* Mutant: only a cancellation makes Write() fail.                         *)
OverOnlyIfCancelled == rpc_cancelled

Over == rpc_cancelled \/ spc = "returned"

Send(m) ==
    /\ Room
    /\ requests' = Append(requests, m)
    /\ UNCHANGED <<writes_done, rpc_cancelled, serverVars, cut>>

SendConfig ==
    /\ cpc = "config"
    /\ Send(Config)
    /\ cpc' = "open"
    /\ UNCHANGED <<file, sent, upload_status, report>>

SendConfigFails ==
    /\ cpc = "config"
    /\ Over
    /\ writes_done' = TRUE
    /\ report' = "ABORTED"
    /\ cpc' = "returned"
    /\ UNCHANGED <<file, sent, upload_status, requests, rpc_cancelled,
                   serverVars, cut>>

(* StreamWorkspaceFiles.                                                   *)
OpenFile ==
    /\ cpc = "open"
    /\ file \in Files
    /\ cpc' = "read"
    /\ UNCHANGED <<file, sent, upload_status, report, streamVars, serverVars, cut>>

StopUpload(code) ==
    /\ upload_status' = code
    /\ cpc' = "done"
    /\ UNCHANGED <<file, sent, report, streamVars, serverVars, cut>>

OpenFails ==
    /\ cpc = "open"
    /\ file \in Files
    /\ "open" \in Faults
    /\ StopUpload("INVALID_ARGUMENT")

AllSent ==
    /\ cpc = "open"
    /\ file \notin Files
    /\ StopUpload(upload_status)

SendChunk ==
    /\ cpc = "read"
    /\ sent[file] < Chunks[file]
    /\ Send(Chunk(file, sent[file] + 1))
    /\ sent' = [sent EXCEPT ![file] = @ + 1]
    /\ UNCHANGED <<cpc, file, upload_status, report>>

SendChunkFails ==
    /\ cpc = "read"
    /\ sent[file] < Chunks[file]
    /\ Over
    /\ StopUpload("ABORTED")

(* The loop over a file ends when read() returns nothing, at the end of    *)
(* the file or at an error; the two are not told apart.                    *)
NextFile ==
    /\ file' = file + 1
    /\ cpc' = "open"
    /\ UNCHANGED <<sent, upload_status, report, streamVars, serverVars>>

FileRead ==
    /\ cpc = "read"
    /\ sent[file] = Chunks[file]
    /\ NextFile
    /\ UNCHANGED cut

ReadFails ==
    /\ cpc = "read"
    /\ "read" \in Faults
    /\ sent[file] < Chunks[file]
    /\ NextFile
    /\ cut' = cut \cup {file}

WritesDone ==
    /\ cpc = "done"
    /\ writes_done' = TRUE
    /\ cpc' = "drain"
    /\ UNCHANGED <<file, sent, upload_status, report, requests, rpc_cancelled,
                   serverVars, cut>>

(* Mutant: the status of the upload is dropped.                            *)
ReportOfServer(status) == status

(* Mutant: what the server says of a failure is returned for its code.     *)
ReportMessage(status) == IF status = "OK" THEN upload_status ELSE "message"

ReportOf(status) == IF status = "OK" THEN upload_status ELSE status

(* DrainServerResponses and Finish().                                      *)
Finish ==
    /\ cpc = "drain"
    /\ \/ spc = "returned" /\ report' = ReportOf(server_status)
       \/ rpc_cancelled /\ report' = "CANCELLED"
    /\ cpc' = "returned"
    /\ UNCHANGED <<file, sent, upload_status, streamVars, serverVars, cut>>

(* ScopedClientCancellation, or the end of the connection.                 *)
Cancel ==
    /\ "cancel" \in Faults
    /\ cpc # "returned"
    /\ rpc_cancelled' = TRUE
    /\ UNCHANGED <<clientVars, requests, writes_done, serverVars, cut>>

-----------------------------------------------------------------------------
(* WorkspaceDownloadSession.                                               *)

(* What closing the file at path, with data in its buffer, makes of the    *)
(* disk: a failure to write the buffer out is not looked at.               *)
Close(now, path, data) ==
    IF path = NoFile THEN {now}
    ELSE {[now EXCEPT !.disk[path] = @ \o data]}
         \cup {[now EXCEPT !.cut = @ \cup {path}] :
                    fault \in IF data = <<>> THEN {} ELSE Faults \cap {"flush"}}

Now == [disk |-> disk, cut |-> cut]

CloseCurrentFile ==
    /\ \E after \in Close(Now, current_file_path_, unflushed) :
          disk' = after.disk /\ cut' = after.cut
    /\ current_file_path_' = NoFile
    /\ unflushed' = <<>>

(* Mutant: a file that is still open is taken for the right one.           *)
NeedNewFileIfClosed(m) == current_file_path_ = NoFile

NeedNewFile(m) == m.start \/ current_file_path_ # m.file

ServerReturns(code) ==
    /\ server_status' = code
    /\ spc' = "returned"
    /\ CloseCurrentFile
    /\ UNCHANGED <<received_config_, made, command>>

Reads == spc = "download" /\ requests # <<>>

Take == requests' = Tail(requests) /\ UNCHANGED <<writes_done, rpc_cancelled>>

ReadCancelled ==
    /\ spc = "download"
    /\ rpc_cancelled
    /\ ServerReturns("CANCELLED")
    /\ UNCHANGED <<clientVars, streamVars>>

HandleConfig ==
    /\ Reads
    /\ ~rpc_cancelled
    /\ Head(requests) = Config
    /\ Take
    /\ received_config_' = TRUE
    /\ UNCHANGED <<clientVars, spc, current_file_path_, unflushed, disk, made,
                   command, server_status, cut>>

(* The workspace is occupied or outside the root, a path leaves the        *)
(* workspace, a file cannot be made or written.                            *)
HandleFails ==
    /\ Reads
    /\ ~rpc_cancelled
    /\ "server" \in Faults
    /\ Take
    /\ ServerReturns("INTERNAL")
    /\ UNCHANGED clientVars

(* EnsureOutputFile(), the write into the buffer of the stream, and        *)
(* CloseCurrentFile() at the end of the file.                              *)
HandleFileChunk ==
    /\ Reads
    /\ ~rpc_cancelled
    /\ Head(requests) # Config
    /\ Take
    /\ LET m == Head(requests)
           new == NeedNewFile(m)
           buffer == IF new THEN <<m.index>> ELSE Append(unflushed, m.index)
       IN \E before \in IF new THEN Close(Now, current_file_path_, unflushed)
                                ELSE {Now} :
            LET opened == IF new THEN [before EXCEPT !.disk[m.file] = <<>>]
                                 ELSE before
            IN /\ \E after \in IF m.end THEN Close(opened, m.file, buffer)
                                        ELSE {opened} :
                    disk' = after.disk /\ cut' = after.cut
               /\ current_file_path_' = IF m.end THEN NoFile ELSE m.file
               /\ unflushed' = IF m.end THEN <<>> ELSE buffer
               /\ made' = made \cup {m.file}
    /\ UNCHANGED <<clientVars, spc, received_config_, command, server_status>>

(* The buffer of outfile_ is written to the file whenever it is full.      *)
FlushBuffer ==
    /\ unflushed # <<>>
    /\ disk' = [disk EXCEPT ![current_file_path_] = @ \o unflushed]
    /\ unflushed' = <<>>
    /\ UNCHANGED <<clientVars, streamVars, spc, received_config_,
                   current_file_path_, made, command, server_status, cut>>

(* Read() returns false.  The config has arrived: this client sends it     *)
(* first (a stream without one is an action of TaskSubmission).            *)
StreamEnded ==
    /\ spc = "download"
    /\ requests = <<>>
    /\ writes_done
    /\ ~rpc_cancelled

(* Mutant: the file that is still open is not closed before the command.   *)
EndOfStreamLeavesOpen ==
    /\ StreamEnded
    /\ spc' = "execute"
    /\ UNCHANGED <<clientVars, streamVars, received_config_,
                   current_file_path_, unflushed, disk, made, command,
                   server_status, cut>>

EndOfStream ==
    /\ StreamEnded
    /\ spc' = "execute"
    /\ CloseCurrentFile
    /\ UNCHANGED <<clientVars, streamVars, received_config_, made, command,
                   server_status>>

-----------------------------------------------------------------------------
(* TaskExecutor::Execute.  The command is its shell with the processes the *)
(* shell has started; what they do is not modelled, nor how the handler    *)
(* watches them (TaskMonitor).                                             *)

MoveCommand(here, there) ==
    /\ command = here
    /\ command' = there
    /\ UNCHANGED <<clientVars, streamVars, spc, received_config_,
                   current_file_path_, unflushed, disk, made, server_status, cut>>

StartCommand == spc = "execute" /\ MoveCommand("none", "running")

(* No directory to run in, no pipe, no process.                            *)
StartFails ==
    /\ spc = "execute"
    /\ command = "none"
    /\ ServerReturns("INTERNAL")
    /\ UNCHANGED <<clientVars, streamVars>>

(* By itself, or by the signals of the handler.                            *)
CommandEnds == MoveCommand("running", "ended")

ExecuteReturns ==
    /\ spc = "execute"
    /\ command = "ended"
    /\ \/ \E code \in {"OK", "INTERNAL"} : ServerReturns(code)
       \/ rpc_cancelled /\ ServerReturns("CANCELLED")
    /\ UNCHANGED <<clientVars, streamVars>>

(* An error of poll(), read() or waitpid() ends the handler and not the    *)
(* command; and the shell may exit and leave a process of its own behind.  *)
ExecuteLeavesCommand ==
    /\ "outlive" \in Faults
    /\ spc = "execute"
    /\ command = "running"
    /\ \E code \in {"OK", "INTERNAL"} : ServerReturns(code)
    /\ UNCHANGED <<clientVars, streamVars>>

-----------------------------------------------------------------------------
TaskSubmit ==
    \/ SendConfig
    \/ SendConfigFails
    \/ OpenFile
    \/ AllSent
    \/ SendChunk
    \/ SendChunkFails
    \/ FileRead
    \/ WritesDone
    \/ Finish

Session ==
    \/ ReadCancelled
    \/ HandleConfig
    \/ HandleFileChunk
    \/ EndOfStream
    \/ StartCommand
    \/ StartFails
    \/ CommandEnds
    \/ ExecuteReturns

Next ==
    \/ TaskSubmit
    \/ OpenFails
    \/ ReadFails
    \/ Cancel
    \/ Session
    \/ HandleFails
    \/ ExecuteLeavesCommand
    \/ FlushBuffer

Spec == Init /\ [][Next]_vars

-----------------------------------------------------------------------------
TypeOK ==
    /\ cpc \in {"config", "open", "read", "done", "drain", "returned"}
    /\ file \in 1..(NumFiles + 1)
    /\ sent \in [Files -> Nat]
    /\ upload_status \in Codes
    /\ report \in Codes
    /\ requests \in Seq(Requests)
    /\ writes_done \in BOOLEAN
    /\ rpc_cancelled \in BOOLEAN
    /\ spc \in {"download", "execute", "returned"}
    /\ received_config_ \in BOOLEAN
    /\ current_file_path_ \in Files \cup {NoFile}
    /\ unflushed \in Seq(Nat)
    /\ disk \in [Files -> Seq(Nat)]
    /\ made \in SUBSET Files
    /\ command \in {"none", "running", "ended"}
    /\ server_status \in Codes
    /\ cut \in SUBSET Files

(* When the command starts the workspace holds exactly what the client has *)
(* sent: every chunk is on the disk, once and in order, in its own file.   *)
(* Only a file whose last write failed unnoticed may be short.             *)
RunsOnWhatWasSent ==
    spc = "execute" =>
        \A f \in Files : /\ f \in made <=> sent[f] > 0
                         /\ f \notin cut => disk[f] = Content(sent[f])

(* When the command starts every file of the list is there, and whole.     *)
RunsOnWholeUpload ==
    spc = "execute" => \A f \in Files : /\ disk[f] = Content(Chunks[f])
                                        /\ f \in made

(* At any time a file of the workspace holds a beginning of its original,  *)
(* with nothing missing in between, whatever fails on the way.             *)
DiskIsPrefix == \A f \in Files : disk[f] = Content(Len(disk[f]))

(* OK means that every chunk of every file is on the server's disk, in     *)
(* its place, and that only files without a chunk (158) are missing there: *)
(* a failure of the upload is never taken for a success because the server *)
(* has run the command (449).  Left out are the files at which nobody      *)
(* looks at a failure: a read() that ended early (157), a close() that     *)
(* could not flush (369 of remote_service_implement.cc).                   *)
OkMeansEveryChunk ==
    report = "OK" =>
        \A f \in Files \ cut : /\ disk[f] = Content(Chunks[f])
                               /\ f \in made <=> Chunks[f] > 0
=============================================================================
