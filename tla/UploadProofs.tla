---------------------------- MODULE UploadProofs ----------------------------
(***************************************************************************)
(* Proofs about Upload: for any list of files, any room in the stream and  *)
(* all the faults, what the server holds of a file is a beginning of it,   *)
(* the command runs on what the client has sent, and OK is said only when  *)
(* every chunk has arrived.                                                *)
(*                                                                         *)
(* The argument is about positions: the requests are numbered by file and  *)
(* chunk, the config being number 1 of file 0.  What the server has taken, *)
(* what is in the stream and what the client has sent last are one         *)
(* sequence of them.                                                       *)
(***************************************************************************)
EXTENDS Upload, TLAPS

Number(m) == IF m.file = NoFile THEN 1 ELSE m.index

Request(f, k) == IF f = NoFile THEN Config ELSE Chunk(f, k)

Positions == 0..NumFiles

(* How many requests of each file the client has written to the stream.    *)
Written ==
    [f \in Positions |-> IF f # NoFile THEN sent[f]
                         ELSE IF cpc = "config" THEN 0 ELSE 1]

WasSent(m, w) ==
    /\ m.file \in Positions
    /\ Number(m) \in 1..w[m.file]
    /\ m = Request(m.file, Number(m))

(* The request m comes next after number k of file f, and number k of file *)
(* f is the last one.                                                      *)
Follows(m, f, k, w) ==
    \/ m.file = f /\ Number(m) = k + 1
    \/ /\ m.file > f /\ Number(m) = 1
       /\ k = w[f]
       /\ \A g \in Positions : g > f /\ g < m.file => w[g] = 0

Latest(f, k, w) ==
    /\ k = w[f]
    /\ \A g \in Positions : g > f => w[g] = 0

InOrder(s, w) ==
    /\ \A i \in 1..Len(s) : WasSent(s[i], w)
    /\ \A i \in 1..Len(s) :
          IF i = Len(s) THEN Latest(s[i].file, Number(s[i]), w)
          ELSE Follows(s[i + 1], s[i].file, Number(s[i]), w)

Queue == InOrder(requests, Written)

(* What the server holds of file f, on the disk and in its buffer.         *)
Held(f) == IF f = current_file_path_ THEN disk[f] \o unflushed ELSE disk[f]

(* The server has taken the requests up to number k of file p.             *)
Taken(p, k) ==
    /\ \A f \in Files : f \in made <=> f <= p /\ sent[f] > 0
    /\ current_file_path_ \in {NoFile, p}
    /\ p # NoFile => k >= 1
    /\ p # NoFile /\ current_file_path_ = NoFile => k = Chunks[p]
    /\ \A f \in Files :
          /\ f < p /\ f \notin cut => disk[f] = Content(sent[f])
          /\ f > p => disk[f] = <<>>
          /\ f = p /\ (f \notin cut \/ f = current_file_path_)
                => Held(f) = Content(k)

(* The stream continues what the server has taken.                         *)
Continues(s, p, k, w) ==
    IF s = <<>> THEN Latest(p, k, w) ELSE Follows(s[1], p, k, w)

Progress ==
    spc = "download" /\ ~rpc_cancelled =>
        \E p \in Positions : \E k \in 0..Written[p] :
            Taken(p, k) /\ Continues(requests, p, k, Written)

(* The client, by the place it is at.                                      *)
Client ==
    /\ cpc = "config" => file = 1 /\ requests = <<>>
    /\ cpc \in {"config", "open"} /\ file \in Files => sent[file] = 0
    /\ cpc = "read" => file \in Files
    /\ \A f \in Files : /\ f > file => sent[f] = 0
                        /\ f < file => sent[f] = Chunks[f] \/ f \in cut
                        /\ sent[f] <= Chunks[f]
    /\ writes_done => cpc \in {"drain", "returned"}
    /\ cpc = "returned" => spc = "returned" \/ rpc_cancelled
    /\ cpc \in {"done", "drain"} /\ upload_status = "OK" => file = NumFiles + 1
    /\ report # "none" => cpc = "returned"
    /\ report = "OK" => /\ file = NumFiles + 1
                        /\ server_status = "OK"

(* The command, once started, has the whole of what was sent.              *)
Arrived ==
    \A f \in Files : /\ f \in made <=> sent[f] > 0
                     /\ f \notin cut => disk[f] = Content(sent[f])

Server ==
    /\ current_file_path_ = NoFile => unflushed = <<>>
    /\ server_status = "OK" => spc = "returned"
    /\ spc = "execute" \/ server_status = "OK" =>
            /\ cpc \in {"drain", "returned"}
            /\ current_file_path_ = NoFile
            /\ Arrived

Prefixes == \A f \in Files : Held(f) = Content(Len(Held(f)))

UploadInv ==
    /\ TypeOK
    /\ Queue
    /\ Progress
    /\ Client
    /\ Server
    /\ Prefixes

-----------------------------------------------------------------------------
(* The content of a file.                                                  *)
LEMMA ContentType ==
    ASSUME NEW n \in Nat
    PROVE  Content(n) \in Seq(Nat) /\ Len(Content(n)) = n
BY DEF Content

LEMMA ContentNone == Content(0) = <<>>
BY DEF Content

LEMMA ContentNext ==
    ASSUME NEW k \in Nat
    PROVE  Append(Content(k), k + 1) = Content(k + 1)
BY DEF Content

LEMMA ContentFirst == Append(<<>>, 1) = Content(1)
BY DEF Content

LEMMA ContentHead ==
    ASSUME NEW s \in Seq(Nat), NEW t \in Seq(Nat), NEW k \in Nat,
           s \o t = Content(k)
    PROVE  s = Content(Len(s))
<1>1. Len(s) <= k
    BY ContentType
<1>2. \A i \in 1..Len(s) : s[i] = (s \o t)[i]
    OBVIOUS
<1>3. \A i \in 1..Len(s) : s[i] = i
    <2>1. \A i \in 1..k : Content(k)[i] = i
        BY DEF Content
    <2>2. \A i \in 1..Len(s) : i \in 1..k
        BY <1>1
    <2> QED
        BY <1>2, <2>1, <2>2
<1>4. Content(Len(s)) \in Seq(Nat) /\ Len(Content(Len(s))) = Len(s)
    BY ContentType
<1> QED
    BY <1>3, <1>4 DEF Content

LEMMA AppendLast ==
    ASSUME NEW s \in Seq(Nat), NEW t \in Seq(Nat), NEW i \in Nat
    PROVE  s \o Append(t, i) = Append(s \o t, i)
OBVIOUS

-----------------------------------------------------------------------------
USE DEF vars, clientVars, streamVars, serverVars

(* Who writes what: the client, the server, or only the cancellation.      *)
ClientTurn ==
    \/ SendConfig \/ SendChunk
    \/ SendConfigFails \/ OpenFile \/ OpenFails \/ AllSent \/ SendChunkFails
    \/ FileRead \/ ReadFails \/ WritesDone \/ Finish

ServerTurn ==
    \/ ReadCancelled \/ HandleFails \/ StartFails \/ ExecuteReturns
    \/ ExecuteLeavesCommand \/ EndOfStream \/ StartCommand \/ CommandEnds
    \/ HandleConfig \/ HandleFileChunk \/ FlushBuffer

Hangup ==
    /\ rpc_cancelled' \in BOOLEAN /\ (rpc_cancelled => rpc_cancelled')
    /\ UNCHANGED <<clientVars, requests, writes_done, serverVars, cut>>

LEMMA Turns ==
    ASSUME TypeOK, [Next]_vars
    PROVE  ClientTurn \/ ServerTurn \/ Hangup
BY DEF Next, TaskSubmit, Session, ClientTurn, ServerTurn, Hangup, Cancel, TypeOK

(* The end of the connection changes nothing else.                         *)
LEMMA HangupStep ==
    ASSUME UploadInv, Hangup
    PROVE  UploadInv'
<1> USE DEF UploadInv, Hangup
<1>1. TypeOK'
    BY DEF TypeOK
<1>2. Queue'
    BY DEF Queue, Written
<1>3. Progress'
    BY DEF Progress, Taken, Held, Written
<1>4. Client'
    BY DEF Client
<1>5. Server' /\ Prefixes'
    BY DEF Server, Arrived, Prefixes, Held
<1> QED
    BY <1>1, <1>2, <1>3, <1>4, <1>5

(* What the client does but send.                                          *)
ClientQuiet ==
    \/ SendConfigFails \/ OpenFile \/ OpenFails \/ AllSent \/ SendChunkFails
    \/ FileRead \/ ReadFails \/ WritesDone \/ Finish

LEMMA ClientQuietFrame ==
    ASSUME TypeOK, Client, ClientQuiet
    PROVE  /\ UNCHANGED <<sent, requests, rpc_cancelled, serverVars>>
           /\ cut \subseteq cut' /\ cut' \subseteq Files
           /\ cpc = "config" => spc = "returned" \/ rpc_cancelled
           /\ cpc # "config" => cpc' # "config"
           /\ cpc # "returned"
           /\ cpc \in {"drain", "returned"} => cpc' = "returned" /\ cut' = cut
<1> USE DEF StopUpload, NextFile
<1>1. CASE SendConfigFails
    BY <1>1 DEF SendConfigFails, Over, TypeOK
<1>2. CASE OpenFile \/ OpenFails \/ AllSent
    BY <1>2 DEF OpenFile, OpenFails, AllSent, TypeOK
<1>3. CASE SendChunkFails \/ FileRead
    BY <1>3 DEF SendChunkFails, FileRead, TypeOK
<1>4. CASE ReadFails
    BY <1>4 DEF ReadFails, TypeOK, Client, Files
<1>5. CASE WritesDone \/ Finish
    BY <1>5 DEF WritesDone, Finish, TypeOK
<1> QED
    BY <1>1, <1>2, <1>3, <1>4, <1>5 DEF ClientQuiet

LEMMA ClientQuietStep ==
    ASSUME UploadInv, ClientQuiet
    PROVE  UploadInv'
<1> USE DEF UploadInv, StopUpload, NextFile
<1>1. /\ UNCHANGED <<sent, requests, rpc_cancelled, serverVars>>
      /\ cut \subseteq cut' /\ cut' \subseteq Files
      /\ cpc = "config" => spc = "returned" \/ rpc_cancelled
      /\ cpc # "config" => cpc' # "config"
      /\ cpc # "returned"
      /\ cpc \in {"drain", "returned"} => cpc' = "returned" /\ cut' = cut
    BY ClientQuietFrame
<1>2. Client'
    <2> USE UploadAssumption DEF Client, TypeOK, Files
    <2>1. CASE SendConfigFails
        BY <2>1 DEF SendConfigFails, Over
    <2>2. CASE OpenFile
        BY <2>2 DEF OpenFile
    <2>3. CASE OpenFails
        BY <2>3 DEF OpenFails
    <2>4. CASE AllSent
        BY <2>4 DEF AllSent
    <2>5. CASE SendChunkFails
        BY <2>5 DEF SendChunkFails
    <2>6. CASE FileRead
        BY <2>6 DEF FileRead
    <2>7. CASE ReadFails
        BY <2>7 DEF ReadFails
    <2>8. CASE WritesDone
        BY <2>8 DEF WritesDone
    <2>9. CASE Finish
        BY <2>9 DEF Finish, ReportOf
    <2> QED
        BY <2>1, <2>2, <2>3, <2>4, <2>5, <2>6, <2>7, <2>8, <2>9 DEF ClientQuiet
<1>3. TypeOK'
    <2>1. /\ cpc' \in {"config", "open", "read", "done", "drain", "returned"}
          /\ file' \in 1..(NumFiles + 1)
          /\ upload_status' \in Codes /\ report' \in Codes
          /\ writes_done' \in BOOLEAN
        <3> USE UploadAssumption DEF TypeOK, Codes, Files, Client
        <3>1. CASE SendConfigFails \/ WritesDone
            BY <3>1 DEF SendConfigFails, WritesDone
        <3>2. CASE OpenFile \/ OpenFails \/ AllSent \/ SendChunkFails
            BY <3>2 DEF OpenFile, OpenFails, AllSent, SendChunkFails
        <3>3. CASE FileRead \/ ReadFails
            <4>1. file \in 1..NumFiles /\ NumFiles \in Nat
                BY <3>3 DEF FileRead, ReadFails
            <4>2. file + 1 \in 1..(NumFiles + 1)
                BY <4>1
            <4> QED
                BY <3>3, <4>2 DEF FileRead, ReadFails
        <3>4. CASE Finish
            BY <3>4 DEF Finish, ReportOf
        <3> QED
            BY <3>1, <3>2, <3>3, <3>4 DEF ClientQuiet
    <2> QED
        BY <1>1, <2>1 DEF TypeOK
<1>4. Queue'
    <2>1. CASE cpc = "config"
        BY <1>1, <2>1 DEF Queue, InOrder, Client
    <2>2. CASE cpc # "config"
        BY <1>1, <2>2 DEF Queue, Written
    <2> QED
        BY <2>1, <2>2
<1>5. Progress'
    <2>1. CASE cpc = "config"
        BY <1>1, <2>1 DEF Progress
    <2>2. CASE cpc # "config"
        <3>1. Written' = Written
            BY <1>1, <2>2 DEF Written
        <3> QED
            BY <1>1, <3>1 DEF Progress, Taken, Held
    <2> QED
        BY <2>1, <2>2
<1>6. Server' /\ Prefixes'
    BY <1>1 DEF Server, Arrived, Prefixes, Held, Client
<1> QED
    BY <1>2, <1>3, <1>4, <1>5, <1>6

(* A request more keeps the stream in order, and behind what was taken.    *)
LEMMA SendInOrder ==
    ASSUME NEW w \in [Positions -> Nat], NEW c \in Positions,
           \A g \in Positions : g > c => w[g] = 0,
           NEW m \in Requests, m = Request(c, w[c] + 1), m.file = c,
           Number(m) = w[c] + 1,
           NEW s \in Seq(Requests), InOrder(s, w)
    PROVE  LET v == [w EXCEPT ![c] = w[c] + 1]
               z == Append(s, m)
           IN /\ InOrder(z, v)
              /\ \A p \in Positions, k \in Nat :
                    Continues(s, p, k, w) /\ (p # NoFile => k >= 1)
                        => Continues(z, p, k, v)
<1> DEFINE n == w[c] + 1
           v == [w EXCEPT ![c] = n]
           z == Append(s, m)
<1>1. /\ \A f \in Positions : f \in Nat /\ f >= NoFile /\ w[f] \in Nat
      /\ c \in Nat /\ n \in Nat
    BY UploadAssumption DEF Positions, NoFile
<1>2. v[c] = n /\ \A f \in Positions : f # c => v[f] = w[f]
    OBVIOUS
<1>3. /\ Len(z) = Len(s) + 1 /\ z # <<>> /\ z[Len(z)] = m /\ Len(s) \in Nat
      /\ \A i \in 1..Len(s) : z[i] = s[i]
    OBVIOUS
<1>4. m = Request(c, n) /\ Number(m) = n /\ n = w[c] + 1
    OBVIOUS
<1> HIDE DEF n, v, z
<1>5. WasSent(m, v) /\ Latest(c, n, v)
    BY <1>1, <1>2, <1>4 DEF WasSent, Latest
<1>6. ASSUME NEW q, WasSent(q, w)
      PROVE  WasSent(q, v)
    <2>1. q.file \in Positions /\ w[q.file] \in Nat /\ Number(q) \in 1..w[q.file]
        BY <1>1, <1>6 DEF WasSent
    <2>2. w[q.file] <= v[q.file] /\ v[q.file] \in Nat
        <3>1. CASE q.file = c
            <4>1. v[q.file] = w[q.file] + 1
                BY <1>2, <1>4, <3>1
            <4> QED
                BY <2>1, <4>1
        <3>2. CASE q.file # c
            BY <1>2, <2>1, <3>2
        <3> QED
            BY <3>1, <3>2
    <2> QED
        BY <1>6, <2>1, <2>2 DEF WasSent
<1>7. ASSUME NEW q, NEW f \in Positions, NEW k \in Nat, WasSent(q, w),
             Follows(q, f, k, w)
      PROVE  Follows(q, f, k, v)
    <2>1. q.file \in Positions /\ w[q.file] # 0
        BY <1>1, <1>7 DEF WasSent
    <2>2. q.file <= c
        <3>1. ~(q.file > c)
            BY <2>1
        <3>2. q.file \in Nat
            BY <1>1, <2>1
        <3> QED
            BY <1>1, <3>1, <3>2
    <2> QED
        BY <1>1, <1>2, <1>7, <2>1, <2>2 DEF Follows
<1>8. ASSUME NEW f \in Positions, NEW k \in Nat, Latest(f, k, w), f # NoFile => k >= 1
      PROVE  Follows(m, f, k, v)
    <2>1. CASE f = c
        BY <1>8, <1>4, <2>1 DEF Latest, Follows
    <2>2. CASE f # c
        <3>1. f < c
            <4>1. f # NoFile => w[f] # 0
                BY <1>1, <1>8 DEF Latest
            <4> QED
                BY <1>1, <2>2, <4>1
        <3>2. w[c] = 0
            BY <1>8, <3>1 DEF Latest
        <3> QED
            BY <1>1, <1>2, <1>8, <1>4, <2>2, <3>1, <3>2 DEF Latest, Follows
    <2> QED
        BY <2>1, <2>2
<1>9. ASSUME NEW i \in 1..Len(s)
      PROVE  WasSent(s[i], w) /\ s[i].file \in Positions
             /\ Number(s[i]) \in Nat /\ Number(s[i]) >= 1
    <2>1. WasSent(s[i], w)
        BY DEF InOrder
    <2> QED
        BY <2>1 DEF WasSent
<1>10. ASSUME NEW i \in 1..Len(z)
      PROVE  WasSent(z[i], v)
    <2>1. CASE i = Len(z)
        BY <1>5, <1>3, <2>1
    <2>2. CASE i # Len(z)
        <3>1. i \in 1..Len(s)
            BY <1>3, <2>2
        <3> QED
            BY <1>6, <1>3, <1>9, <3>1
    <2> QED
        BY <2>1, <2>2
<1>11. ASSUME NEW i \in 1..Len(z), i # Len(z)
      PROVE  Follows(z[i + 1], z[i].file, Number(z[i]), v)
    <2>1. i \in 1..Len(s) /\ z[i] = s[i]
        BY <1>3, <1>11
    <2>2. CASE i = Len(s)
        <3>1. Latest(s[i].file, Number(s[i]), w) /\ z[i + 1] = m
            BY <1>3, <2>1, <2>2 DEF InOrder
        <3> QED
            BY <1>5, <1>6, <1>7, <1>8, <1>9, <2>1, <3>1
    <2>3. CASE i # Len(s)
        <3>1. i + 1 \in 1..Len(s) /\ z[i + 1] = s[i + 1]
            BY <1>3, <2>1, <2>3
        <3>2. Follows(s[i + 1], s[i].file, Number(s[i]), w)
            BY <2>1, <2>3 DEF InOrder
        <3> QED
            BY <1>5, <1>6, <1>7, <1>8, <1>9, <2>1, <3>1, <3>2
    <2> QED
        BY <2>2, <2>3
<1>12. InOrder(z, v)
    <2>1. Latest(z[Len(z)].file, Number(z[Len(z)]), v)
        BY <1>3, <1>4, <1>5
    <2> QED
        BY <1>10, <1>11, <2>1 DEF InOrder
<1>13. ASSUME NEW p \in Positions, NEW k \in Nat, Continues(s, p, k, w),
             p # NoFile => k >= 1
      PROVE  Continues(z, p, k, v)
    <2>1. CASE s = <<>>
        <3>1. z[1] = m
            BY <1>3, <2>1
        <3> QED
            BY <1>8, <1>3, <1>13, <2>1, <3>1 DEF Continues
    <2>2. CASE s # <<>>
        <3>1. 1 \in 1..Len(s) /\ z[1] = s[1]
            BY <1>3, <2>2
        <3> QED
            BY <1>5, <1>6, <1>7, <1>8, <1>3, <1>9, <1>13, <2>2, <3>1 DEF Continues
    <2> QED
        BY <2>1, <2>2
<1> QED
    BY <1>12, <1>13 DEF v, z, n

LEMMA WrittenType ==
    ASSUME TypeOK
    PROVE  /\ Written \in [Positions -> Nat]
           /\ Files \subseteq Positions /\ NoFile \in Positions
           /\ Positions = Files \cup {NoFile} /\ NoFile \notin Files
           /\ \A f \in Files : Written[f] = sent[f] /\ f > NoFile /\ f \in Nat
           /\ Written[NoFile] = IF cpc = "config" THEN 0 ELSE 1
<1>1. NumFiles \in Nat
    BY UploadAssumption
<1>2. Positions = Files \cup {NoFile} /\ NoFile \notin Files
      /\ \A f \in Files : f > NoFile /\ f \in Nat
    BY <1>1 DEF Positions, Files, NoFile
<1> QED
    BY <1>2 DEF Written, TypeOK

(* The first request.                                                      *)
LEMMA SendConfigStep ==
    ASSUME UploadInv, SendConfig
    PROVE  UploadInv'
<1> USE DEF UploadInv
<1>1. /\ cpc = "config" /\ cpc' = "open" /\ requests = <<>> /\ file = 1
      /\ requests' = Append(requests, Config)
      /\ UNCHANGED <<file, sent, upload_status, report, writes_done, rpc_cancelled,
                     serverVars, cut>>
      /\ \A f \in Files : sent[f] = 0
    <2>1. cpc = "config" /\ requests = <<>> /\ file = 1
        BY DEF SendConfig, Client
    <2>2. NumFiles \in Nat /\ \A f \in Files : sent[f] = 0
        BY <2>1, UploadAssumption DEF Client, Files
    <2> QED
        BY <2>1, <2>2 DEF SendConfig, Send
<1>2. Config \in Requests /\ Config.file = NoFile /\ Number(Config) = 1
      /\ Config = Request(NoFile, 1)
    BY DEF Config, Requests, Number, NoFile, Request
<1>3. TypeOK'
    BY <1>1, <1>2 DEF TypeOK
<1>4. /\ Written \in [Positions -> Nat] /\ NoFile \in Positions
      /\ \A g \in Positions : g > NoFile => Written[g] = 0
      /\ 1 = Written[NoFile] + 1
      /\ Written' = [Written EXCEPT ![NoFile] = 1]
    <2>1. /\ Written \in [Positions -> Nat] /\ NoFile \in Positions
          /\ Positions = Files \cup {NoFile} /\ NoFile \notin Files
          /\ \A f \in Files : Written[f] = sent[f]
          /\ Written[NoFile] = 0
        BY <1>1, WrittenType
    <2>2. Written' = [Written EXCEPT ![NoFile] = 1]
        BY <1>1, <2>1 DEF Written
    <2>3. \A g \in Positions : g > NoFile => Written[g] = 0
        BY <1>1, <2>1 DEF NoFile
    <2> QED
        BY <2>1, <2>2, <2>3
<1>5. requests \in Seq(Requests) /\ InOrder(requests, Written)
    BY DEF TypeOK, Queue
<1>6. /\ InOrder(requests', Written')
      /\ \A p \in Positions, k \in Nat :
            Continues(requests, p, k, Written) /\ (p # NoFile => k >= 1)
                => Continues(requests', p, k, Written')
    <2>1. Written' = [Written EXCEPT ![NoFile] = Written[NoFile] + 1]
        BY <1>4
    <2>2. Config = Request(NoFile, Written[NoFile] + 1)
          /\ Number(Config) = Written[NoFile] + 1
        BY <1>2, <1>4
    <2>3. requests' = Append(requests, Config)
        BY <1>1
    <2>4. Config \in Requests /\ Config.file = NoFile
        BY <1>2
    <2>5. /\ Written \in [Positions -> Nat] /\ NoFile \in Positions
          /\ \A g \in Positions : g > NoFile => Written[g] = 0
        BY <1>4
    <2> HIDE DEF UploadInv
    <2> QED
        BY <1>5, <2>1, <2>2, <2>3, <2>4, <2>5, SendInOrder
<1>7. Progress'
    <2> SUFFICES ASSUME spc = "download", ~rpc_cancelled
                 PROVE  \E p \in Positions : \E k \in 0..Written'[p] :
                            Taken(p, k)' /\ Continues(requests', p, k, Written')
        BY <1>1 DEF Progress
    <2>1. PICK p \in Positions : \E k \in 0..Written[p] :
             Taken(p, k) /\ Continues(requests, p, k, Written)
        BY DEF Progress
    <2>2. PICK k \in 0..Written[p] :
             Taken(p, k) /\ Continues(requests, p, k, Written)
        BY <2>1
    <2>3. k \in Nat /\ (p # NoFile => k >= 1) /\ k \in 0..Written'[p]
        BY <1>4, <2>2 DEF Taken
    <2>4. Taken(p, k)'
        BY <1>1, <2>2 DEF Taken, Held
    <2> QED
        BY <1>6, <2>2, <2>3, <2>4
<1>8. Client'
    BY <1>1, UploadAssumption DEF Client
<1>9. Server' /\ Prefixes'
    BY <1>1 DEF Server, Arrived, Prefixes, Held
<1> QED
    BY <1>3, <1>6, <1>7, <1>8, <1>9 DEF Queue

(* The next chunk of the file.                                             *)
LEMMA SendChunkStep ==
    ASSUME UploadInv, SendChunk
    PROVE  UploadInv'
<1> USE DEF UploadInv
<1> DEFINE n == sent[file] + 1
           m == Chunk(file, n)
<1>1. /\ cpc = "read" /\ cpc' = "read" /\ file \in Files
      /\ sent[file] \in Nat /\ Chunks[file] \in Nat /\ n \in Nat /\ n <= Chunks[file]
      /\ UNCHANGED <<file, upload_status, report, writes_done, rpc_cancelled,
                     serverVars, cut>>
      /\ sent' = [sent EXCEPT ![file] = n]
      /\ requests' = Append(requests, m)
    <2>1. /\ cpc = "read" /\ cpc' = "read" /\ sent[file] < Chunks[file]
          /\ UNCHANGED <<file, upload_status, report, writes_done, rpc_cancelled,
                         serverVars, cut>>
          /\ sent' = [sent EXCEPT ![file] = n]
          /\ requests' = Append(requests, m)
        BY DEF SendChunk, Send
    <2>2. file \in Files
        BY <2>1 DEF Client
    <2>3. sent[file] \in Nat /\ Chunks[file] \in Nat
        BY <2>2, UploadAssumption DEF TypeOK
    <2> QED
        BY <2>1, <2>2, <2>3
<1>2. /\ Written \in [Positions -> Nat] /\ file \in Positions /\ file # NoFile
      /\ Positions = Files \cup {NoFile} /\ NoFile \notin Files
      /\ \A f \in Files : Written[f] = sent[f] /\ f > NoFile /\ f \in Nat
      /\ sent \in [Files -> Nat]
    BY <1>1, WrittenType DEF TypeOK
<1>3. m \in Requests /\ m.file = file /\ Number(m) = n /\ m = Request(file, n)
    BY <1>1, <1>2 DEF Chunk, Requests, Number, Request
<1>4. n = Written[file] + 1 /\ Written' = [Written EXCEPT ![file] = n]
    BY <1>1, <1>2 DEF Written
<1> HIDE DEF n, m
<1>5. sent'[file] = n /\ \A f \in Files \ {file} : sent'[f] = sent[f]
    BY <1>1, <1>2
<1>6. /\ \A f \in Files : f > file => sent[f] = 0
      /\ \A g \in Positions : g > file => Written[g] = 0
    BY <1>1, <1>2 DEF Client, NoFile
<1>7. TypeOK'
    BY <1>1, <1>2, <1>3 DEF TypeOK
<1>8. Client'
    BY <1>1, <1>2, <1>5 DEF Client
<1>9. Server' /\ Prefixes'
    BY <1>1 DEF Server, Prefixes, Held
<1>10. requests \in Seq(Requests) /\ InOrder(requests, Written)
    BY DEF TypeOK, Queue
<1>11. /\ InOrder(requests', Written')
       /\ \A p \in Positions, k \in Nat :
            Continues(requests, p, k, Written) /\ (p # NoFile => k >= 1)
                => Continues(requests', p, k, Written')
    <2>1. Written' = [Written EXCEPT ![file] = Written[file] + 1]
        BY <1>4
    <2>2. m = Request(file, Written[file] + 1) /\ Number(m) = Written[file] + 1
        BY <1>3, <1>4
    <2> QED
        BY <1>1, <1>2, <1>3, <1>6, <1>10, <2>1, <2>2, SendInOrder
<1>12. Progress'
    <2> SUFFICES ASSUME spc = "download", ~rpc_cancelled
                 PROVE  \E p \in Positions : \E k \in 0..Written'[p] :
                            Taken(p, k)' /\ Continues(requests', p, k, Written')
        BY <1>1 DEF Progress
    <2>1. PICK p \in Positions : \E k \in 0..Written[p] :
             Taken(p, k) /\ Continues(requests, p, k, Written)
        BY DEF Progress
    <2>2. PICK k \in 0..Written[p] :
             Taken(p, k) /\ Continues(requests, p, k, Written)
        BY <2>1
    <2>3. k \in Nat /\ (p # NoFile => k >= 1) /\ k \in 0..Written'[p]
        BY <1>1, <1>2, <1>4, <2>2 DEF Taken
    <2>4. p <= file /\ (p = file => sent[file] > 0)
        BY <1>1, <1>2, <1>6, <2>2, <2>3 DEF NoFile
    <2>5. Taken(p, k)'
        <3>1. \A f \in Files : f \in made <=> f <= p /\ sent'[f] > 0
            <4>1. \A f \in Files : f # file => sent'[f] = sent[f]
                BY <1>5
            <4>2. \A f \in Files : f \in made <=> f <= p /\ sent[f] > 0
                BY <2>2 DEF Taken
            <4>3. file <= p => sent[file] > 0 /\ n > 0
                <5>1. file \in Nat /\ p \in Nat
                    BY <1>2, UploadAssumption DEF Positions
                <5>2. n > 0
                    BY <1>1 DEF n
                <5>3. file <= p => p = file
                    BY <2>4, <5>1
                <5> QED
                    BY <2>4, <5>2, <5>3
            <4> QED
                BY <1>5, <4>1, <4>2, <4>3
        <3>2. \A f \in Files : f < p => sent'[f] = sent[f]
            BY <1>1, <1>2, <1>5, <2>4 DEF NoFile
        <3> QED
            BY <1>1, <2>2, <3>1, <3>2 DEF Taken, Held
    <2> QED
        BY <1>11, <2>2, <2>3, <2>5
<1> QED
    BY <1>7, <1>8, <1>9, <1>11, <1>12 DEF Queue

-----------------------------------------------------------------------------
(* What closing a file does: what is in the buffer gets to the disk, or    *)
(* the file is one whose failure nobody notices.                           *)
Closes(d, c, path, data, after) ==
    /\ after = [disk |-> after.disk, cut |-> after.cut]
    /\ after.disk \in [Files -> Seq(Nat)]
    /\ c \subseteq after.cut /\ after.cut \subseteq Files
    /\ \A f \in Files :
          IF f = path
          THEN \/ after.disk[f] = d[f] \o data /\ (f \in after.cut => f \in c)
               \/ after.disk[f] = d[f] /\ f \in after.cut
          ELSE after.disk[f] = d[f] /\ (f \in after.cut => f \in c)

LEMMA CloseLemma ==
    ASSUME NEW d \in [Files -> Seq(Nat)], NEW c \in SUBSET Files,
           NEW path \in Files \cup {NoFile}, NEW data \in Seq(Nat),
           NEW now, now = [disk |-> d, cut |-> c],
           NEW after \in Close(now, path, data)
    PROVE  Closes(d, c, path, data, after)
<1>1. NoFile \notin Files
    BY UploadAssumption DEF Files, NoFile
<1>2. CASE path = NoFile
    BY <1>1, <1>2 DEF Close, Closes
<1>3. CASE path # NoFile
    <2>1. path \in Files
        BY <1>3
    <2>2. CASE after = [now EXCEPT !.disk[path] = @ \o data]
        <3>1. after.cut = c /\ after.disk = [d EXCEPT ![path] = d[path] \o data]
            BY <2>2
        <3>2. d[path] \o data \in Seq(Nat)
            BY <2>1
        <3>3. after = [disk |-> after.disk, cut |-> after.cut]
            BY <2>2
        <3> QED
            BY <2>1, <3>1, <3>2, <3>3 DEF Closes
    <2>3. CASE after = [now EXCEPT !.cut = @ \cup {path}]
        <3>1. after.cut = c \cup {path} /\ after.disk = d
            BY <2>3
        <3>2. after = [disk |-> after.disk, cut |-> after.cut]
            BY <2>3
        <3> QED
            BY <2>1, <3>1, <3>2 DEF Closes
    <2> QED
        BY <1>3, <2>2, <2>3 DEF Close
<1> QED
    BY <1>2, <1>3

LEMMA CloseCurrent ==
    ASSUME TypeOK, CloseCurrentFile, Server
    PROVE  /\ current_file_path_' = NoFile /\ unflushed' = <<>>
           /\ disk' \in [Files -> Seq(Nat)]
           /\ cut \subseteq cut' /\ cut' \subseteq Files
           /\ \A f \in Files : /\ disk'[f] \in {disk[f], Held(f)}
                               /\ f \notin cut' => disk'[f] = Held(f)
                               /\ f # current_file_path_ => (f \in cut' => f \in cut)
<1>1. PICK after \in Close(Now, current_file_path_, unflushed) :
         disk' = after.disk /\ cut' = after.cut
    BY DEF CloseCurrentFile
<1>2. Closes(disk, cut, current_file_path_, unflushed, after)
    BY <1>1, CloseLemma DEF TypeOK, Now
<1>3. \A f \in Files : Held(f) = IF f = current_file_path_ THEN disk[f] \o unflushed
                                 ELSE disk[f]
    BY DEF Held
<1> QED
    BY <1>1, <1>2, <1>3 DEF CloseCurrentFile, Closes

(* What is on the disk is a beginning of what is held.                     *)
LEMMA DiskPrefixes ==
    ASSUME TypeOK, Prefixes
    PROVE  DiskIsPrefix
<1> SUFFICES ASSUME NEW f \in Files
             PROVE  disk[f] = Content(Len(disk[f]))
    BY DEF DiskIsPrefix
<1>1. Held(f) = Content(Len(Held(f)))
    BY DEF Prefixes
<1>2. CASE f = current_file_path_
    <2>1. disk[f] \in Seq(Nat) /\ unflushed \in Seq(Nat)
        BY DEF TypeOK
    <2>2. disk[f] \o unflushed = Content(Len(Held(f))) /\ Len(Held(f)) \in Nat
        BY <1>1, <1>2, <2>1 DEF Held
    <2> QED
        BY <2>1, <2>2, ContentHead
<1>3. CASE f # current_file_path_
    BY <1>1, <1>3 DEF Held
<1> QED
    BY <1>2, <1>3

LEMMA ClosedPrefixes ==
    ASSUME TypeOK, Prefixes, CloseCurrentFile, Server
    PROVE  Prefixes'
<1>1. /\ current_file_path_' = NoFile
      /\ \A f \in Files : disk'[f] \in {disk[f], Held(f)}
    BY CloseCurrent
<1> SUFFICES ASSUME NEW f \in Files
             PROVE  Held(f)' = Content(Len(Held(f)'))
    BY DEF Prefixes
<1>2. Held(f)' = disk'[f]
    BY <1>1, UploadAssumption DEF Held, NoFile, Files
<1>3. Held(f) = Content(Len(Held(f))) /\ disk[f] = Content(Len(disk[f]))
    BY DiskPrefixes DEF Prefixes, DiskIsPrefix
<1> QED
    BY <1>1, <1>2, <1>3

(* What is left in the stream when its first request has been taken.       *)
LEMMA TakeFirst ==
    ASSUME NEW s \in Seq(Requests), NEW w, InOrder(s, w), s # <<>>
    PROVE  /\ WasSent(s[1], w) /\ Head(s) = s[1]
           /\ Tail(s) \in Seq(Requests) /\ InOrder(Tail(s), w)
           /\ Continues(Tail(s), s[1].file, Number(s[1]), w)
<1> DEFINE t == Tail(s)
<1>1. /\ Len(s) \in Nat /\ Len(s) >= 1 /\ Head(s) = s[1]
      /\ t \in Seq(Requests) /\ Len(t) = Len(s) - 1
      /\ \A i \in 1..Len(t) : t[i] = s[i + 1]
      /\ t = <<>> <=> Len(s) = 1
    <2>1. Len(s) \in Nat /\ Len(s) >= 1 /\ Head(s) = s[1]
        OBVIOUS
    <2>2. t \in Seq(Requests) /\ Len(t) = Len(s) - 1
        OBVIOUS
    <2>3. \A i \in 1..Len(t) : t[i] = s[i + 1]
        BY <2>2
    <2>4. t = <<>> <=> Len(t) = 0
        BY <2>2
    <2> HIDE DEF t
    <2> QED
        BY <2>1, <2>2, <2>3, <2>4
<1> HIDE DEF t
<1>2. ASSUME NEW i \in 1..Len(t)
      PROVE  /\ WasSent(t[i], w)
             /\ IF i = Len(t) THEN Latest(t[i].file, Number(t[i]), w)
                ELSE Follows(t[i + 1], t[i].file, Number(t[i]), w)
    <2>1. i + 1 \in 1..Len(s) /\ t[i] = s[i + 1] /\ (i = Len(t) <=> i + 1 = Len(s))
        BY <1>1
    <2>2. /\ WasSent(s[i + 1], w)
          /\ IF i + 1 = Len(s) THEN Latest(s[i + 1].file, Number(s[i + 1]), w)
             ELSE Follows(s[(i + 1) + 1], s[i + 1].file, Number(s[i + 1]), w)
        BY <2>1 DEF InOrder
    <2>3. i # Len(t) => i + 1 \in 1..Len(t) /\ t[i + 1] = s[(i + 1) + 1]
        BY <1>1
    <2> QED
        BY <2>1, <2>2, <2>3
<1>3. InOrder(t, w)
    BY <1>2 DEF InOrder
<1>4. 1 \in 1..Len(s)
    BY <1>1
<1>5. WasSent(s[1], w) /\ IF 1 = Len(s) THEN Latest(s[1].file, Number(s[1]), w)
                          ELSE Follows(s[1 + 1], s[1].file, Number(s[1]), w)
    BY <1>4 DEF InOrder
<1>6. t # <<>> => t[1] = s[1 + 1]
    BY <1>1
<1>7. Continues(t, s[1].file, Number(s[1]), w)
    BY <1>1, <1>5, <1>6 DEF Continues
<1> QED
    BY <1>1, <1>3, <1>5, <1>7 DEF t

(* The ways out of the server's handler.                                   *)
LEMMA ReturnStep ==
    ASSUME UploadInv,
           ReadCancelled \/ HandleFails \/ StartFails \/ ExecuteReturns
               \/ ExecuteLeavesCommand
    PROVE  UploadInv'
<1> USE DEF UploadInv
<1>1. /\ spc \in {"download", "execute"} /\ spc' = "returned" /\ CloseCurrentFile
      /\ server_status' \in Codes
      /\ UNCHANGED <<clientVars, writes_done, rpc_cancelled, received_config_,
                     made, command>>
      /\ requests' = requests \/ (requests # <<>> /\ requests' = Tail(requests))
      /\ server_status' = "OK" => spc = "execute"
    BY DEF ReadCancelled, HandleFails, StartFails, ExecuteReturns,
        ExecuteLeavesCommand, ServerReturns, Reads, Take, Codes
<1>2. /\ current_file_path_' = NoFile /\ unflushed' = <<>>
      /\ disk' \in [Files -> Seq(Nat)]
      /\ cut \subseteq cut' /\ cut' \subseteq Files
      /\ \A f \in Files : disk'[f] \in {disk[f], Held(f)}
    BY <1>1, CloseCurrent
<1>3. Written' = Written
    BY <1>1 DEF Written
<1>4. requests' \in Seq(Requests) /\ Queue'
    <2>1. requests \in Seq(Requests) /\ InOrder(requests, Written)
        BY DEF TypeOK, Queue
    <2>2. requests' \in Seq(Requests) /\ InOrder(requests', Written)
        BY <1>1, <2>1, TakeFirst
    <2> QED
        BY <1>3, <2>2 DEF Queue
<1>5. TypeOK'
    BY <1>1, <1>2, <1>4 DEF TypeOK
<1>6. server_status # "OK" /\ report # "OK"
    BY <1>1 DEF Server, Client
<1>7. Client'
    BY <1>1, <1>2, <1>6 DEF Client
<1>8. Server'
    <2>1. CASE server_status' = "OK"
        <3>1. /\ cpc \in {"drain", "returned"} /\ current_file_path_ = NoFile /\ Arrived
            BY <1>1, <2>1 DEF Server
        <3>2. \A f \in Files : disk'[f] = disk[f]
            BY <1>2, <3>1, UploadAssumption DEF Held, NoFile, Files
        <3>3. Arrived'
            BY <1>1, <1>2, <3>1, <3>2 DEF Arrived
        <3> QED
            BY <1>1, <1>2, <3>1, <3>3 DEF Server
    <2>2. CASE server_status' # "OK"
        BY <1>1, <1>2, <2>2 DEF Server
    <2> QED
        BY <2>1, <2>2
<1>9. Prefixes'
    BY <1>1, ClosedPrefixes
<1>10. Progress'
    BY <1>1 DEF Progress
<1> QED
    BY <1>4, <1>5, <1>7, <1>8, <1>9, <1>10

(* The command comes and goes without a change to the upload.              *)
LEMMA CommandStep ==
    ASSUME UploadInv, StartCommand \/ CommandEnds
    PROVE  UploadInv'
<1> USE DEF UploadInv
<1>1. /\ command' \in {"none", "running", "ended"}
      /\ UNCHANGED <<clientVars, streamVars, spc, received_config_,
                     current_file_path_, unflushed, disk, made, server_status, cut>>
    BY DEF StartCommand, CommandEnds, MoveCommand
<1>2. TypeOK'
    BY <1>1 DEF TypeOK
<1>3. Queue'
    BY <1>1 DEF Queue, Written
<1>4. Progress'
    BY <1>1 DEF Progress, Taken, Held, Written
<1>5. Client'
    BY <1>1 DEF Client
<1>6. Server' /\ Prefixes'
    BY <1>1 DEF Server, Arrived, Prefixes, Held
<1> QED
    BY <1>2, <1>3, <1>4, <1>5, <1>6

(* The end of the stream: what was sent has arrived.                       *)
LEMMA EndOfStreamStep ==
    ASSUME UploadInv, EndOfStream
    PROVE  UploadInv'
<1> USE DEF UploadInv
<1>1. /\ spc = "download" /\ spc' = "execute" /\ CloseCurrentFile
      /\ requests = <<>> /\ writes_done /\ ~rpc_cancelled
      /\ UNCHANGED <<clientVars, streamVars, received_config_, made, command,
                     server_status>>
    BY DEF EndOfStream, StreamEnded
<1>2. /\ current_file_path_' = NoFile /\ unflushed' = <<>>
      /\ disk' \in [Files -> Seq(Nat)]
      /\ cut \subseteq cut' /\ cut' \subseteq Files
      /\ \A f \in Files : f \notin cut' => disk'[f] = Held(f)
    BY <1>1, CloseCurrent
<1>3. cpc \in {"drain", "returned"} /\ server_status # "OK"
    BY <1>1 DEF Client, Server
<1>4. PICK p \in Positions : \E k \in 0..Written[p] : Taken(p, k) /\ Latest(p, k, Written)
    BY <1>1 DEF Progress, Continues
<1>5. PICK k \in 0..Written[p] : Taken(p, k) /\ Latest(p, k, Written)
    BY <1>4
<1>6. /\ p \in Nat /\ \A f \in Files : f \in Positions /\ Written[f] = sent[f] /\ f \in Nat
      /\ \A f \in Files : sent[f] \in Nat
    BY WrittenType, UploadAssumption DEF Positions, TypeOK
<1>7. \A f \in Files : f > p => sent[f] = 0
    BY <1>5, <1>6 DEF Latest
<1>8. Arrived'
    <2> SUFFICES ASSUME NEW f \in Files
                 PROVE  /\ f \in made <=> sent[f] > 0
                        /\ f \notin cut' => disk'[f] = Content(sent[f])
        BY <1>1 DEF Arrived
    <2>1. f \in made <=> sent[f] > 0
        BY <1>5, <1>6, <1>7 DEF Taken
    <2>2. ASSUME f \notin cut'
          PROVE  Held(f) = Content(sent[f])
        <3>1. f \notin cut
            BY <1>2, <2>2
        <3>2. CASE f < p
            BY <1>5, <1>6, <3>1, <3>2, UploadAssumption DEF Taken, Held, NoFile, Files
        <3>3. CASE f = p
            BY <1>5, <1>6, <3>1, <3>3 DEF Taken, Latest
        <3>4. CASE f > p
            <4>1. disk[f] = <<>> /\ sent[f] = 0 /\ f # current_file_path_
                BY <1>5, <1>6, <1>7, <3>4, UploadAssumption DEF Taken, NoFile, Files
            <4> QED
                BY <4>1, ContentNone DEF Held
        <3> QED
            BY <1>6, <3>2, <3>3, <3>4
    <2> QED
        BY <1>2, <2>1, <2>2
<1>9. TypeOK'
    BY <1>1, <1>2 DEF TypeOK
<1>10. Queue' /\ Progress'
    BY <1>1 DEF Queue, Written, Progress
<1>11. Client'
    BY <1>1, <1>2, <1>3 DEF Client
<1>12. Server'
    BY <1>1, <1>2, <1>3, <1>8 DEF Server
<1>13. Prefixes'
    BY <1>1, ClosedPrefixes
<1> QED
    BY <1>9, <1>10, <1>11, <1>12, <1>13

(* The buffer goes to the disk: nothing changes in what is held.           *)
LEMMA FlushStep ==
    ASSUME UploadInv, FlushBuffer
    PROVE  UploadInv'
<1> USE DEF UploadInv
<1>1. /\ unflushed # <<>> /\ unflushed' = <<>>
      /\ disk' = [disk EXCEPT ![current_file_path_] = @ \o unflushed]
      /\ UNCHANGED <<clientVars, streamVars, spc, received_config_,
                     current_file_path_, made, command, server_status, cut>>
    BY DEF FlushBuffer
<1>2. current_file_path_ \in Files
    BY <1>1 DEF Server, TypeOK
<1>3. /\ disk \in [Files -> Seq(Nat)] /\ unflushed \in Seq(Nat)
      /\ disk[current_file_path_] \o unflushed \in Seq(Nat)
    BY <1>2 DEF TypeOK
<1>4. \A f \in Files : /\ Held(f)' = Held(f)
                       /\ f # current_file_path_ => disk'[f] = disk[f]
    BY <1>1, <1>2, <1>3 DEF Held
<1>5. TypeOK'
    BY <1>1, <1>2, <1>3 DEF TypeOK
<1>6. Queue'
    BY <1>1 DEF Queue, Written
<1>7. Progress'
    <2> SUFFICES ASSUME NEW p \in Positions, NEW k \in Nat, Taken(p, k)
                 PROVE  Taken(p, k)'
        BY <1>1 DEF Progress, Written
    <2>1. current_file_path_ = p
        BY <1>2, UploadAssumption DEF Taken, NoFile, Files
    <2>2. p \in Nat /\ \A f \in Files : f \in Nat
        BY UploadAssumption DEF Positions, Files
    <2>3. \A f \in Files : f < p \/ f > p => disk'[f] = disk[f]
        BY <1>4, <2>1, <2>2
    <2> QED
        BY <1>1, <1>4, <2>3 DEF Taken
<1>8. Client'
    BY <1>1 DEF Client
<1>9. Server'
    BY <1>1, <1>2, UploadAssumption DEF Server, NoFile, Files
<1>10. Prefixes'
    BY <1>4 DEF Prefixes
<1> QED
    BY <1>5, <1>6, <1>7, <1>8, <1>9, <1>10

(* The config is the first request the server takes.                       *)
LEMMA ConfigStep ==
    ASSUME UploadInv, HandleConfig
    PROVE  UploadInv'
<1> USE DEF UploadInv
<1>1. /\ requests # <<>> /\ spc = "download" /\ ~rpc_cancelled
      /\ Head(requests) = Config
      /\ requests' = Tail(requests) /\ received_config_' = TRUE
      /\ UNCHANGED <<clientVars, writes_done, rpc_cancelled, spc, current_file_path_,
                     unflushed, disk, made, command, server_status, cut>>
    BY DEF HandleConfig, Reads, Take
<1>2. Written' = Written
    BY <1>1 DEF Written
<1>3. requests \in Seq(Requests) /\ InOrder(requests, Written)
    BY DEF TypeOK, Queue
<1>4. /\ WasSent(Config, Written) /\ requests[1] = Config
      /\ requests' \in Seq(Requests) /\ InOrder(requests', Written)
      /\ Continues(requests', Config.file, Number(Config), Written)
    BY <1>1, <1>3, TakeFirst
<1>5. Config.file = 0 /\ Number(Config) = 1 /\ NoFile = 0
    BY DEF Config, Number, NoFile
<1>6. TypeOK'
    BY <1>1, <1>4 DEF TypeOK
<1>7. Queue'
    BY <1>2, <1>4 DEF Queue
<1>8. Progress'
    <2>1. PICK p \in Positions : \E k \in 0..Written[p] :
             Taken(p, k) /\ Follows(Config, p, k, Written)
        BY <1>1, <1>4 DEF Progress, Continues
    <2>2. PICK k \in 0..Written[p] : Taken(p, k) /\ Follows(Config, p, k, Written)
        BY <2>1
    <2>3. p = 0
        BY <1>5, <2>2, UploadAssumption DEF Follows, Positions
    <2>4. Taken(0, 1)'
        <3>1. \A f \in Files : f # 0
            BY UploadAssumption DEF Files
        <3> QED
            BY <1>1, <1>5, <2>2, <2>3, <3>1 DEF Taken, Held
    <2>5. 0 \in Positions /\ 1 \in 0..Written[0]
        BY <1>4, <1>5, WrittenType DEF WasSent
    <2>6. Continues(requests', 0, 1, Written')
        BY <1>2, <1>4, <1>5
    <2> QED
        BY <1>2, <2>4, <2>5, <2>6 DEF Progress
<1>9. Client'
    BY <1>1 DEF Client
<1>10. Server' /\ Prefixes'
    BY <1>1 DEF Server, Arrived, Prefixes, Held
<1> QED
    BY <1>6, <1>7, <1>8, <1>9, <1>10

(* What HandleFileChunk makes of the disk and of the buffer, for chunk j   *)
(* of file f.                                                              *)
LEMMA ChunkEffect ==
    ASSUME UploadInv, HandleFileChunk,
           NEW f \in Files, NEW j \in Nat, Head(requests) = Chunk(f, j),
           NEW base \in Seq(Nat),
           IF j = 1 THEN base = <<>>
           ELSE current_file_path_ = f /\ base = Held(f)
    PROVE  /\ made' = made \cup {f}
           /\ disk' \in [Files -> Seq(Nat)] /\ unflushed' \in Seq(Nat)
           /\ cut \subseteq cut' /\ cut' \subseteq Files
           /\ \A g \in Files \ {f} : /\ disk'[g] \in {disk[g], Held(g)}
                                     /\ g \notin cut' => disk'[g] = Held(g)
           /\ \/ /\ current_file_path_' = f
                 /\ disk'[f] \o unflushed' = Append(base, j)
              \/ /\ current_file_path_' = NoFile /\ unflushed' = <<>>
                 /\ j = Chunks[f]
                 /\ \/ disk'[f] = Append(base, j)
                    \/ f \in cut' /\ disk'[f] \in {<<>>, disk[f]}
<1> USE DEF UploadInv
<1> DEFINE m == Head(requests)
           new == j = 1
           buffer == IF new THEN <<j>> ELSE Append(unflushed, j)
<1>1. /\ m.file = f /\ m.index = j /\ (m.start <=> j = 1)
      /\ m.end => j = Chunks[f]
      /\ m.start \in BOOLEAN /\ m.end \in BOOLEAN
    <2>1. m = Chunk(f, j)
        OBVIOUS
    <2> HIDE DEF m
    <2>2. m.file = f /\ m.index = j
        BY <2>1 DEF Chunk
    <2>3. m.start = (j = 1)
        BY <2>1, Zenon DEF Chunk
    <2>4. m.end = (j = Chunks[f] /\ f \notin Full)
        BY <2>1, Zenon DEF Chunk
    <2> QED
        BY <2>2, <2>3, <2>4, Zenon
<1>2. NeedNewFile(m) <=> new
    BY <1>1 DEF NeedNewFile
<1>3. /\ disk \in [Files -> Seq(Nat)] /\ cut \in SUBSET Files
      /\ unflushed \in Seq(Nat) /\ current_file_path_ \in Files \cup {NoFile}
    BY DEF TypeOK
<1>4. /\ made' = made \cup {f}
      /\ current_file_path_' = IF m.end THEN NoFile ELSE f
      /\ unflushed' = IF m.end THEN <<>> ELSE buffer
    BY <1>1, <1>2 DEF HandleFileChunk
<1>5. PICK before \in IF new THEN Close(Now, current_file_path_, unflushed) ELSE {Now} :
         LET opened == IF new THEN [before EXCEPT !.disk[f] = <<>>] ELSE before
         IN \E after \in IF m.end THEN Close(opened, f, buffer) ELSE {opened} :
                disk' = after.disk /\ cut' = after.cut
    BY <1>1, <1>2 DEF HandleFileChunk
<1> DEFINE opened == IF new THEN [before EXCEPT !.disk[f] = <<>>] ELSE before
<1>6. PICK after \in IF m.end THEN Close(opened, f, buffer) ELSE {opened} :
         disk' = after.disk /\ cut' = after.cut
    BY <1>5
<1>7. buffer \in Seq(Nat)
    BY <1>3
<1> HIDE DEF m, buffer
<1>8. /\ before = [disk |-> before.disk, cut |-> before.cut]
      /\ before.disk \in [Files -> Seq(Nat)]
      /\ cut \subseteq before.cut /\ before.cut \subseteq Files
      /\ \A g \in Files : /\ before.disk[g] \in {disk[g], Held(g)}
                          /\ g \notin before.cut \/ ~new =>
                                before.disk[g] = IF new THEN Held(g) ELSE disk[g]
    <2>1. CASE new
        <3>1. Closes(disk, cut, current_file_path_, unflushed, before)
            BY <1>3, <1>5, <2>1, CloseLemma DEF Now
        <3> QED
            BY <2>1, <3>1 DEF Closes, Held
    <2>2. CASE ~new
        BY <1>3, <1>5, <2>2 DEF Now
    <2> QED
        BY <2>1, <2>2
<1> DEFINE d == IF new THEN [before.disk EXCEPT ![f] = <<>>] ELSE before.disk
           c == before.cut
<1>9. /\ opened = [disk |-> d, cut |-> c] /\ d \in [Files -> Seq(Nat)]
      /\ c \in SUBSET Files
      /\ \A g \in Files \ {f} : d[g] = before.disk[g]
      /\ d[f] = IF new THEN <<>> ELSE disk[f]
    <2>1. CASE new
        BY <1>8, <2>1
    <2>2. CASE ~new
        BY <1>8, <2>2
    <2> QED
        BY <2>1, <2>2
<1>10. /\ \A g \in Files \ {f} : d[g] \in {disk[g], Held(g)}
       /\ \A g \in Files \ {f} : g \notin c => d[g] = Held(g)
       /\ d[f] \o buffer = Append(base, j) /\ d[f] \in {<<>>, disk[f]}
    <2>1. CASE new
        <3>1. d[f] = <<>> /\ base = <<>> /\ buffer = <<j>>
            BY <1>9, <2>1 DEF buffer
        <3>2. <<>> \o <<j>> = Append(<<>>, j)
            OBVIOUS
        <3>3. \A g \in Files \ {f} : /\ d[g] \in {disk[g], Held(g)}
                                     /\ g \notin c => d[g] = Held(g)
            BY <1>8, <1>9, <2>1
        <3> HIDE DEF d, c
        <3> QED
            BY <3>1, <3>2, <3>3
    <2>2. CASE ~new
        <3>1. /\ d[f] = disk[f] /\ buffer = Append(unflushed, j)
              /\ current_file_path_ = f /\ base = disk[f] \o unflushed
            BY <1>9, <2>2 DEF buffer, Held
        <3>2. disk[f] \o Append(unflushed, j) = Append(disk[f] \o unflushed, j)
            BY <1>3, AppendLast
        <3>3. \A g \in Files \ {f} : Held(g) = disk[g] /\ d[g] = disk[g]
            BY <1>8, <1>9, <2>2, <3>1 DEF Held
        <3> QED
            BY <3>1, <3>2, <3>3
    <2> QED
        BY <2>1, <2>2
<1> HIDE DEF d, c, opened
<1>11. CASE m.end
    <2>1. j = Chunks[f] /\ current_file_path_' = NoFile /\ unflushed' = <<>>
        BY <1>1, <1>4, <1>11
    <2>2. Closes(d, c, f, buffer, after)
        <3>1. after \in Close(opened, f, buffer)
            BY <1>6, <1>11
        <3> QED
            BY <1>7, <1>9, <3>1, CloseLemma
    <2>3. /\ c \subseteq cut' /\ cut' \subseteq Files /\ disk' \in [Files -> Seq(Nat)]
          /\ \A g \in Files \ {f} : disk'[g] = d[g]
          /\ disk'[f] = d[f] \o buffer \/ (f \in cut' /\ disk'[f] = d[f])
        BY <1>6, <2>2 DEF Closes
    <2>4. cut \subseteq c /\ unflushed' \in Seq(Nat)
        BY <1>8, <2>1 DEF c
    <2>5. \A g \in Files \ {f} : /\ disk'[g] \in {disk[g], Held(g)}
                                 /\ g \notin cut' => disk'[g] = Held(g)
        <3> TAKE g \in Files \ {f}
        <3>1. disk'[g] = d[g] /\ c \subseteq cut'
            BY <2>3
        <3>2. d[g] \in {disk[g], Held(g)} /\ (g \notin c => d[g] = Held(g))
            BY <1>10
        <3> QED
            BY <3>1, <3>2
    <2>6. disk'[f] = Append(base, j) \/ (f \in cut' /\ disk'[f] \in {<<>>, disk[f]})
        BY <1>10, <2>3
    <2>7. made' = made \cup {f} /\ cut \subseteq cut'
        BY <1>4, <2>3, <2>4
    <2> QED
        BY <2>1, <2>3, <2>4, <2>5, <2>6, <2>7
<1>12. CASE ~m.end
    <2>1. /\ disk' = d /\ cut' = c /\ current_file_path_' = f /\ unflushed' = buffer
        BY <1>4, <1>6, <1>9, <1>12
    <2>2. cut \subseteq c
        BY <1>8 DEF c
    <2>3. /\ made' = made \cup {f} /\ cut \subseteq cut' /\ cut' \subseteq Files
          /\ disk' \in [Files -> Seq(Nat)] /\ unflushed' \in Seq(Nat)
        BY <1>4, <1>7, <1>9, <2>1, <2>2
    <2>4. \A g \in Files \ {f} : /\ disk'[g] \in {disk[g], Held(g)}
                                 /\ g \notin cut' => disk'[g] = Held(g)
        <3> TAKE g \in Files \ {f}
        <3>1. disk'[g] = d[g] /\ c = cut'
            BY <2>1
        <3>2. d[g] \in {disk[g], Held(g)} /\ (g \notin c => d[g] = Held(g))
            BY <1>10
        <3> QED
            BY <3>1, <3>2
    <2>5. disk'[f] \o unflushed' = Append(base, j)
        BY <1>10, <2>1
    <2> QED
        BY <2>1, <2>3, <2>4, <2>5
<1> QED
    BY <1>11, <1>12

(* A chunk: the server has then taken one request more.                    *)
LEMMA ChunkStep ==
    ASSUME UploadInv, HandleFileChunk
    PROVE  UploadInv'
<1> USE DEF UploadInv
<1> DEFINE m == requests[1]
<1>1. /\ requests # <<>> /\ spc = "download" /\ ~rpc_cancelled
      /\ Head(requests) # Config
      /\ requests' = Tail(requests)
      /\ UNCHANGED <<clientVars, writes_done, rpc_cancelled, spc,
                     received_config_, command, server_status>>
    BY DEF HandleFileChunk, Reads, Take
<1>2. Written' = Written
    BY <1>1 DEF Written
<1>3. requests \in Seq(Requests) /\ InOrder(requests, Written)
    BY DEF TypeOK, Queue
<1>4. /\ WasSent(m, Written) /\ Head(requests) = m
      /\ requests' \in Seq(Requests) /\ InOrder(requests', Written)
      /\ Continues(requests', m.file, Number(m), Written)
    BY <1>1, <1>3, TakeFirst
<1>5. /\ Positions = Files \cup {NoFile} /\ NoFile \notin Files /\ NoFile = 0
      /\ \A g \in Positions : g \in Nat
      /\ \A g \in Files : Written[g] = sent[g] /\ g > NoFile /\ sent[g] \in Nat
      /\ \A g \in Files : Chunks[g] \in Nat
    BY WrittenType, UploadAssumption DEF TypeOK, NoFile
<1>6. PICK f \in Files, j \in Nat :
         f = m.file /\ j = Number(m) /\ j \in 1..sent[f] /\ m = Chunk(f, j)
    <2>1. /\ m.file \in Positions /\ Number(m) \in 1..Written[m.file]
          /\ m = Request(m.file, Number(m))
        BY <1>4 DEF WasSent
    <2>2. m.file # NoFile
        BY <1>1, <1>4, <2>1 DEF Request
    <2> HIDE DEF m
    <2> QED
        BY <1>5, <2>1, <2>2 DEF Request
<1>7. PICK p \in Positions : \E k \in 0..Written[p] :
         Taken(p, k) /\ Follows(m, p, k, Written)
    BY <1>1 DEF Progress, Continues
<1>8. PICK k \in 0..Written[p] : Taken(p, k) /\ Follows(m, p, k, Written)
    BY <1>7
<1> DEFINE base == IF j = 1 THEN <<>> ELSE Held(f)
<1> HIDE DEF m
<1>9. /\ j \in Nat /\ j >= 1 /\ j <= Chunks[f] /\ sent[f] > 0 /\ p \in Nat /\ f \in Nat
      /\ k \in Nat
    <2>1. j \in Nat /\ j >= 1 /\ j <= sent[f] /\ sent[f] \in Nat
        BY <1>5, <1>6
    <2>2. sent[f] <= Chunks[f] /\ Chunks[f] \in Nat
        BY <1>5, <1>6 DEF Client
    <2>3. k \in Nat
        BY <1>5, <1>8, WrittenType
    <2> QED
        BY <1>5, <1>6, <2>1, <2>2, <2>3
<1>10. \/ f = p /\ j = k + 1
       \/ /\ f > p /\ j = 1 /\ k = Written[p]
          /\ \A g \in Positions : g > p /\ g < f => Written[g] = 0
    BY <1>6, <1>8 DEF Follows
<1>11. f = p => j # 1 /\ current_file_path_ = f /\ Held(f) = Content(k) /\ j = k + 1
    <2> SUFFICES ASSUME f = p
                 PROVE  j # 1 /\ current_file_path_ = f /\ Held(f) = Content(k) /\ j = k + 1
        OBVIOUS
    <2>1. j = k + 1
        BY <1>9, <1>10
    <2>2. j # 1 /\ k >= 1
        BY <1>5, <1>6, <1>8, <1>9, <2>1 DEF Taken
    <2>3. current_file_path_ = f
        BY <1>5, <1>6, <1>8, <1>9, <2>1 DEF Taken
    <2>4. Held(f) = Content(k)
        BY <1>6, <1>8, <1>9, <2>3 DEF Taken
    <2> QED
        BY <2>1, <2>2, <2>3, <2>4
<1>12. f # p => /\ f > p /\ j = 1 /\ k = Written[p]
                /\ \A g \in Files : g > p /\ g < f => sent[g] = 0
    BY <1>5, <1>10
<1>13. base \in Seq(Nat) /\ Append(base, j) = Content(j)
    <2>1. CASE j = 1
        BY <2>1, ContentFirst
    <2>2. CASE j # 1
        <3>1. base = Content(k) /\ j = k + 1
            BY <1>11, <1>12, <2>2
        <3> HIDE DEF base
        <3> QED
            BY <1>9, <3>1, ContentType, ContentNext
    <2> QED
        BY <2>1, <2>2
<1>14. IF j = 1 THEN base = <<>> ELSE current_file_path_ = f /\ base = Held(f)
    BY <1>11, <1>12
<1>15. Head(requests) = Chunk(f, j)
    BY <1>4, <1>6
<1> HIDE DEF base
<1>16. /\ made' = made \cup {f}
       /\ disk' \in [Files -> Seq(Nat)] /\ unflushed' \in Seq(Nat)
       /\ cut \subseteq cut' /\ cut' \subseteq Files
       /\ \A g \in Files \ {f} : disk'[g] \in {disk[g], Held(g)}
       /\ \A g \in Files \ {f} : g \notin cut' => disk'[g] = Held(g)
       /\ \/ /\ current_file_path_' = f
             /\ disk'[f] \o unflushed' = Content(j)
          \/ /\ current_file_path_' = NoFile /\ unflushed' = <<>>
             /\ j = Chunks[f]
             /\ \/ disk'[f] = Content(j)
                \/ f \in cut' /\ disk'[f] \in {<<>>, disk[f]}
    <2> HIDE DEF UploadInv
    <2> QED
        BY <1>6, <1>9, <1>13, <1>14, <1>15, ChunkEffect
<1>17. TypeOK'
    BY <1>1, <1>4, <1>6, <1>16 DEF TypeOK
<1>18. Queue'
    BY <1>2, <1>4 DEF Queue
<1>19. current_file_path_' \in {f, NoFile} /\ f # NoFile
    BY <1>5, <1>6, <1>16
<1>20. /\ \A g \in Files \ {f} : Held(g)' = disk'[g]
       /\ f \notin cut' \/ current_file_path_' = f => Held(f)' = Content(j)
       /\ Held(f)' = Content(j) \/ Held(f)' \in {<<>>, disk[f]}
    BY <1>5, <1>6, <1>16, <1>19 DEF Held
<1>21. \A g \in Files : g # current_file_path_ => Held(g) = disk[g]
    BY DEF Held
<1>22. Taken(f, j)'
    <2>1. \A g \in Files : g \in made' <=> g <= f /\ sent[g] > 0
        <3> TAKE g \in Files
        <3>1. g \in made <=> g <= p /\ sent[g] > 0
            BY <1>8 DEF Taken
        <3>2. g \in Nat /\ sent[g] \in Nat
            BY <1>5
        <3>3. CASE f = p
            BY <1>9, <1>16, <3>1, <3>3
        <3>4. CASE f # p
            <4>1. f > p /\ (g > p /\ g < f => sent[g] = 0)
                BY <1>12, <3>4
            <4> QED
                BY <1>9, <1>16, <3>1, <3>2, <4>1
        <3> QED
            BY <3>3, <3>4
    <2>2. \A g \in Files : g < f /\ g \notin cut' => disk'[g] = Content(sent[g])
        <3> SUFFICES ASSUME NEW g \in Files, g < f, g \notin cut'
                     PROVE  disk'[g] = Content(sent[g])
            OBVIOUS
        <3>1. g \in Nat /\ sent[g] \in Nat /\ g # NoFile
            BY <1>5
        <3>2. g \notin cut /\ disk'[g] = Held(g) /\ g # f
            BY <1>9, <1>16, <3>1
        <3>3. CASE g < p
            <4>1. disk[g] = Content(sent[g]) /\ g # current_file_path_
                BY <1>8, <1>9, <3>1, <3>2, <3>3 DEF Taken
            <4> QED
                BY <1>21, <3>2, <4>1
        <3>4. CASE g = p
            <4>1. Held(p) = Content(k) /\ k = Written[p]
                BY <1>8, <1>12, <3>2, <3>4 DEF Taken
            <4> QED
                BY <1>5, <3>2, <3>4, <4>1
        <3>5. CASE g > p
            <4>1. disk[g] = <<>> /\ g # current_file_path_
                BY <1>8, <1>9, <3>1, <3>5 DEF Taken
            <4>2. sent[g] = 0
                BY <1>9, <1>12, <3>1, <3>5
            <4> QED
                BY <1>21, <3>2, <4>1, <4>2, ContentNone
        <3> QED
            BY <1>9, <3>1, <3>3, <3>4, <3>5
    <2>3. \A g \in Files : g > f => disk'[g] = <<>>
        <3> SUFFICES ASSUME NEW g \in Files, g > f
                     PROVE  disk'[g] = <<>>
            OBVIOUS
        <3>1. g \in Nat /\ g # NoFile /\ g # f /\ g > p
            BY <1>5, <1>9, <1>12
        <3>2. disk[g] = <<>> /\ g # current_file_path_
            BY <1>8, <1>9, <3>1 DEF Taken
        <3> QED
            BY <1>16, <1>21, <3>1, <3>2
    <2>4. current_file_path_' = NoFile => j = Chunks[f]
        BY <1>16, <1>19
    <2>5. sent' = sent
        BY <1>1
    <2> QED
        BY <1>9, <1>19, <1>20, <2>1, <2>2, <2>3, <2>4, <2>5 DEF Taken
<1>23. Progress'
    <2>1. f \in Positions /\ j \in 0..Written[f]
        BY <1>5, <1>6, <1>9
    <2> QED
        BY <1>2, <1>4, <1>6, <1>22, <2>1 DEF Progress
<1>24. Client'
    BY <1>1, <1>16 DEF Client
<1>25. Server'
    BY <1>1, <1>16, <1>19 DEF Server
<1>26. Prefixes'
    <2> SUFFICES ASSUME NEW g \in Files
                 PROVE  Held(g)' = Content(Len(Held(g)'))
        BY DEF Prefixes
    <2>1. Held(g) = Content(Len(Held(g))) /\ disk[g] = Content(Len(disk[g]))
        BY DiskPrefixes DEF Prefixes, DiskIsPrefix
    <2>2. Content(j) = Content(Len(Content(j))) /\ <<>> = Content(Len(<<>>))
        BY <1>9, ContentType, ContentNone
    <2>3. Held(g)' \in {disk[g], Held(g), Content(j), <<>>}
        BY <1>16, <1>20
    <2> QED
        BY <2>1, <2>2, <2>3
<1> QED
    BY <1>17, <1>18, <1>23, <1>24, <1>25, <1>26

-----------------------------------------------------------------------------
LEMMA NothingSent ==
    ASSUME Init
    PROVE  UploadInv
<1> USE DEF Init
<1>1. TypeOK
    <2>1. NumFiles \in Nat /\ 1 \in 1..(NumFiles + 1)
        BY UploadAssumption
    <2>2. <<>> \in Seq(Nat) /\ <<>> \in Seq(Requests)
        OBVIOUS
    <2>3. [g \in Files |-> 0] \in [Files -> Nat] /\ [g \in Files |-> <<>>] \in [Files -> Seq(Nat)]
        BY <2>2
    <2> QED
        BY <2>1, <2>2, <2>3 DEF TypeOK, Codes, NoFile
<1>2. \A f \in Files : Held(f) = <<>>
    BY UploadAssumption DEF Held, NoFile, Files
<1>3. Written \in [Positions -> Nat] /\ \A f \in Positions : Written[f] = 0
    BY <1>1, WrittenType
<1>4. Queue
    BY DEF Queue, InOrder
<1>5. Progress
    <2>1. Taken(NoFile, 0)
        BY <1>2, UploadAssumption DEF Taken, NoFile, Files
    <2>2. NoFile \in Positions /\ Continues(requests, NoFile, 0, Written)
        BY <1>1, <1>3, WrittenType DEF Continues, Latest
    <2> QED
        BY <1>3, <2>1, <2>2 DEF Progress
<1>6. Client
    BY UploadAssumption DEF Client, Files
<1>7. Server
    BY DEF Server
<1>8. Prefixes
    BY <1>2, ContentNone DEF Prefixes
<1> QED
    BY <1>1, <1>4, <1>5, <1>6, <1>7, <1>8 DEF UploadInv

LEMMA KeepsUploadInv ==
    ASSUME UploadInv, [Next]_vars
    PROVE  UploadInv'
<1>1. ClientTurn \/ ServerTurn \/ Hangup
    BY Turns DEF UploadInv
<1>2. CASE ClientTurn
    BY <1>2, SendConfigStep, SendChunkStep, ClientQuietStep DEF ClientTurn, ClientQuiet
<1>3. CASE ServerTurn
    BY <1>3, ReturnStep, CommandStep, EndOfStreamStep, ConfigStep, ChunkStep,
       FlushStep
       DEF ServerTurn
<1>4. CASE Hangup
    BY <1>4, HangupStep
<1> QED
    BY <1>1, <1>2, <1>3, <1>4

LEMMA Kept == Spec => []UploadInv
BY NothingSent, KeepsUploadInv, PTL DEF Spec

-----------------------------------------------------------------------------
(* What each part of the invariant is for.                                 *)
LEMMA UploadImplies ==
    ASSUME UploadInv
    PROVE  /\ TypeOK
           /\ DiskIsPrefix
           /\ RunsOnWhatWasSent
           /\ OkMeansEveryChunk
<1> USE DEF UploadInv
<1>1. DiskIsPrefix
    BY DiskPrefixes
<1>2. RunsOnWhatWasSent
    BY DEF RunsOnWhatWasSent, Server, Arrived
<1>3. OkMeansEveryChunk
    <2> SUFFICES ASSUME report = "OK", NEW f \in Files \ cut
                 PROVE  /\ disk[f] = Content(Chunks[f])
                        /\ f \in made <=> Chunks[f] > 0
        BY DEF OkMeansEveryChunk
    <2>1. file = NumFiles + 1 /\ server_status = "OK"
        BY DEF Client
    <2>2. disk[f] = Content(sent[f]) /\ (f \in made <=> sent[f] > 0)
        BY <2>1 DEF Server, Arrived
    <2>3. f < file
        BY <2>1, UploadAssumption DEF Files
    <2>4. sent[f] = Chunks[f]
        BY <2>3 DEF Client
    <2> QED
        BY <2>2, <2>4
<1> QED
    BY <1>1, <1>2, <1>3

(* Whatever the list of files, the state of the two programs and of the    *)
(* stream between them stays what TaskSubmit and the session can be in.    *)
THEOREM TypeCorrect == Spec => []TypeOK
BY Kept, UploadImplies, PTL

(* WorkspaceDownloadSession appends the chunks of a file in their order,   *)
(* whatever fails and wherever the call is cut off: a file of the          *)
(* workspace is never anything but a beginning of the client's file.       *)
THEOREM FilesAreBeginnings == Spec => []DiskIsPrefix
BY Kept, UploadImplies, PTL

(* WorkspaceDownloadSession::Run closes the last file (280) before the     *)
(* command is executed: the workspace then holds all that TaskSubmit wrote *)
(* to the stream and nothing else, but for a file whose last write failed  *)
(* unnoticed.                                                              *)
THEOREM CommandSeesAllSent == Spec => []RunsOnWhatWasSent
BY Kept, UploadImplies, PTL

(* TaskSubmit returns OK (444-455) only if every chunk of every file has   *)
(* arrived, but for the two failures that neither side looks at; a file    *)
(* without a chunk (158) is then missing on the server.                    *)
THEOREM OkIsEveryChunk == Spec => []OkMeansEveryChunk
BY Kept, UploadImplies, PTL
=============================================================================
