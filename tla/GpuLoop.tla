------------------------------ MODULE GpuLoop ------------------------------
(***************************************************************************)
(* The programs that keep a GPU busy and report its throughput by windows  *)
(* of time (under src/application), two processes of one kind at a time:   *)
(*   "dynamic"      both keep in step by a barrier in shared memory;       *)
(*   "token"        each takes a token for each inference;                 *)
(*   "transparent"  neither;                                               *)
(*   "cuda"         a kernel in place of a TensorRT model.                 *)
(* The first three cache the engine TensorRT builds in a file beside the   *)
(* model.  The file and the shared memory outlive a process, so a process  *)
(* that has ended may be started again.                                    *)
(*                                                                         *)
(* TensorRT and CUDA are external: a call succeeds or the program aborts.  *)
(* An inference takes time: after it a window, of the loop or of the       *)
(* throttle, may be over.  The file of the utilization is written by the   *)
(* server (Utilization) and has any contents whenever it is read.          *)
(***************************************************************************)
EXTENDS Integers, FiniteSets, Sequences

CONSTANTS
    Procs,
    Setups,         \* the program and the environment of run.sh
    Faults,         \* what may go wrong, see FaultKinds
    FileContents,   \* the numbers that may be in DREX_UTILIZATION_FILE,
    Unreadable      \* or none

FaultKinds == {"abort", "open", "kill", "stop"}
FullUtilization == 2                    \* for the 100 of the code

ASSUME GpuLoopAssumption ==
    /\ \A s \in Setups :
          /\ s.program \in {"dynamic", "token", "transparent", "cuda"}
          /\ s.reset \in BOOLEAN        \* GPU_DYNAMIC_UP_RESET_SYNC
          /\ s.rebuild \in BOOLEAN      \* GPU_..._UP_REBUILD_ENGINE
          /\ s.throttled \in BOOLEAN    \* GPU_TOKEN_UP_TOKEN_THROTTLE
          /\ s.quota_unit \in Nat \ {0}
          /\ s.windows \in Nat         \* window_count
          /\ s.tasks \in Nat \ {0}     \* bound: inferences of a window
          /\ s.restarts \in Nat        \* bound: starts after the first
          /\ s.engine \in {"none", "whole"}    \* what there is at first
    /\ Faults \subseteq FaultKinds
    /\ FileContents \subseteq Int

VARIABLES
    setup,
    at,             \* where each process stands
    build_only,     \* the process is to build the engine and no more
    stage, window,  \* the barrier it is at or was at; the windows begun
    g_stop,
    throttle,       \* of its TokenThrottle
    count, rows,    \* inferences of the window; lines of the output file
    segment,        \* the shared memory it has attached, 0 for none
    restarts,       \* how often a process was started again
    cause,          \* how it ended
    engine,         \* the file of the engine
    key,            \* the segment of kSyncKey, 0 for none
    shm,            \* the segments
    past            \* history

controlVars == <<at, build_only, stage, window, restarts, cause>>
workVars == <<throttle, count, rows>>
barrierVars == <<segment, key, shm>>
vars == <<setup, controlVars, workVars, g_stop, barrierVars, engine, past>>

Dynamic == setup.program = "dynamic"
Windows == setup.windows

NoThrottle == [utilization |-> FullUtilization, tokens |-> 0, over |-> TRUE,
               paid |-> FALSE]

Init ==
    /\ setup \in Setups
    /\ at = [p \in Procs |-> "script"]
    /\ build_only = [p \in Procs |-> FALSE]
    /\ stage = [p \in Procs |-> "model"]
    /\ window = [p \in Procs |-> 0]
    /\ g_stop = [p \in Procs |-> FALSE]
    /\ throttle = [p \in Procs |-> NoThrottle]
    /\ count = [p \in Procs |-> 0]
    /\ rows = [p \in Procs |-> 0]
    /\ segment = [p \in Procs |-> 0]
    /\ restarts = 0
    /\ cause = [p \in Procs |-> "none"]
    /\ engine = [file |-> setup.engine, writers |-> {}, mixed |-> FALSE]
    /\ key = 0
    /\ shm = <<>>
    /\ past = [users |-> <<>>, left |-> {}, raced |-> {}, torn |-> FALSE,
               unpaid |-> FALSE]

-----------------------------------------------------------------------------
(* Steps and ends of a process.                                            *)

Set(f, p, v) == [f EXCEPT ![p] = v]

Go(p, from, to) == at[p] = from /\ at' = Set(at, p, to)

(* A process that ends before its time leaves the barrier, dies with the   *)
(* shared mutex, or leaves a part of the engine in the file.               *)
Ends(p, how) ==
    /\ at' = Set(at, p, "over")
    /\ cause' = Set(cause, p, how)
    /\ engine' = [engine EXCEPT !.writers = @ \ {p}]
    /\ past' = [past EXCEPT
          !.left = IF at[p] = "next" /\ window[p] = Windows THEN @
                   ELSE @ \cup {segment[p]},
          !.torn = @ \/ p \in engine.writers]
    /\ build_only' = Set(build_only, p, FALSE)
    /\ stage' = Set(stage, p, "model")
    /\ throttle' = Set(throttle, p, NoThrottle)
    /\ count' = Set(count, p, 0)
    /\ segment' = Set(segment, p, 0)
    /\ UNCHANGED <<setup, window, rows, restarts, g_stop, key, shm>>

(* ASSERT, CUDART_ASSERT and ERRO.                                         *)
Aborts(p) == "abort" \in Faults /\ Ends(p, "died")

-----------------------------------------------------------------------------
(* run.sh: the old segment and the old engine are removed on request.  The *)
(* engine is then built by a process of its own.                           *)

ResetSync == IF Dynamic /\ setup.reset THEN 0 ELSE key

Rebuilds == setup.program \in {"token", "transparent"} /\ setup.rebuild

Disturbs(p) == \E q \in Procs \ {p} : at[q] \in {"load", "write"}

RunScript(p) ==
    /\ Go(p, "script", IF setup.program = "cuda" THEN "warmup" ELSE "model")
    /\ key' = ResetSync
    /\ build_only' = Set(build_only, p, Rebuilds)
    /\ engine' = IF Rebuilds
                 THEN [file |-> "none", writers |-> {}, mixed |-> FALSE]
                 ELSE engine
    /\ past' = [past EXCEPT !.torn =
          @ \/ (Rebuilds /\ Disturbs(p))]
    /\ UNCHANGED <<setup, stage, window, restarts, cause, workVars, g_stop,
                   segment, shm>>

-----------------------------------------------------------------------------
(* TRTModel: load the engine if there is one, or build and save it.        *)

ModelVars == <<setup, build_only, stage, window, restarts, workVars, g_stop,
               barrierVars>>

ModelDone(p) == IF build_only[p] THEN "built"
                ELSE IF Dynamic THEN "attach" ELSE "warmup"

TRTModel(p) ==
    /\ Go(p, "model", IF engine.file # "none" THEN "load" ELSE "build")
    /\ UNCHANGED <<ModelVars, cause, engine, past>>

(* A file that is missing, or not whole, cannot be read or deserialized.   *)
LoadEngine(p) ==
    \/ /\ Go(p, "load", "context")
       /\ engine.file = "whole"
       /\ UNCHANGED <<ModelVars, cause, engine, past>>
    \/ /\ at[p] = "load"
       /\ engine.file # "whole"
       /\ Ends(p, "died")
    \/ at[p] = "load" /\ Aborts(p)

BuildEngine(p) ==
    \/ /\ Go(p, "build", "save")
       /\ UNCHANGED <<ModelVars, cause, engine, past>>
    \/ at[p] = "build" /\ Aborts(p)

(* Opening the file truncates it.                                          *)
OpenEngine(p) ==
    /\ Go(p, "save", "write")
    /\ engine' = [file |-> "partial", writers |-> engine.writers \cup {p},
                  mixed |-> engine.writers # {}]
    /\ past' = [past EXCEPT !.torn =
          @ \/ Disturbs(p)]
    /\ UNCHANGED <<ModelVars, cause>>

(* What two processes write at a time may or may not be an engine; what is *)
(* written to a file that has been removed is lost.                        *)
SaveEngine(p) ==
    \/ /\ Go(p, "write", "context")
       /\ engine' \in
             IF p \notin engine.writers THEN {engine}
             ELSE {[engine EXCEPT !.file = f, !.writers = @ \ {p}] :
                      f \in IF engine.mixed THEN {"whole", "partial"}
                            ELSE {"whole"}}
       /\ UNCHANGED <<ModelVars, cause, past>>
    \/ at[p] = "write" /\ Aborts(p)

(* The buffers of the tensors, and the rest of what aborts.                *)
InitContext(p) ==
    \/ /\ Go(p, "context", ModelDone(p))
       /\ UNCHANGED <<ModelVars, cause, engine, past>>
    \/ at[p] = "context" /\ Aborts(p)

(* In build-engine-only mode main() ends here, and run.sh goes on to the   *)
(* process that works, if it has not got the signal itself.                *)
BuildEngineOnly(p) ==
    \/ /\ Go(p, "built", "model")
       /\ build_only' = Set(build_only, p, FALSE)
       /\ g_stop' = Set(g_stop, p, FALSE)
       /\ UNCHANGED <<setup, stage, window, restarts, cause, workVars,
                      barrierVars, engine, past>>
    \/ at[p] = "built" /\ g_stop[p] /\ Ends(p, "died")

-----------------------------------------------------------------------------
(* ProcessSync: a count under a mutex, in shared memory.  A segment is     *)
(* created full of zeros; the first to attach it initializes it.           *)

BarrierVars == <<setup, build_only, window, restarts, cause, workVars, g_stop,
                 engine>>

AcquireSharedSyncState(p) ==
    LET fresh == key = 0
        s == IF fresh THEN Len(shm) + 1 ELSE key
    IN \/ /\ Go(p, "attach", IF fresh THEN "init_shm" ELSE "sync")
          /\ key' = s
          /\ segment' = Set(segment, p, s)
          /\ shm' = IF fresh
                    THEN Append(shm, [count |-> 0, mutex |-> {},
                                      ready |-> FALSE])
                    ELSE shm
          /\ past' = [past EXCEPT !.users =
                IF fresh THEN Append(@, <<p>>)
                ELSE Set(@, s, Append(@[s], p))]
          /\ UNCHANGED <<BarrierVars, stage>>
       \/ at[p] = "attach" /\ Aborts(p)

(* Another process that found it initialized may be using it already.      *)
InitSharedSyncState(p) ==
    LET s == segment[p]
    IN /\ Go(p, "init_shm", "sync")
       /\ shm' = Set(shm, s, [count |-> 0, mutex |-> {},
                              ready |-> TRUE])
       /\ UNCHANGED <<BarrierVars, stage, key, segment, past>>

(* Mutant: a window starts when one of the two has come to it.             *)
WindowTargetOfOne(w) == 4 + (w - 1) * 4 + 1

(* Mutant: a third arrival is waited for.                                  *)
WindowTargetOfThree(w) == 4 + (w - 1) * 4 + 3

WindowTarget(w) == 4 + (w - 1) * 4 + 2

Target(st, w) ==
    CASE st = "model" -> 2
      [] st = "warmup" -> 4
      [] st = "start" -> WindowTarget(w)
      [] st = "stop" -> WindowTarget(w) + 2

(* Where a process stands after the barrier, or without one.               *)
After(st) ==
    CASE st = "model" -> "warmup"
      [] st = "warmup" -> "open"
      [] st = "start" -> "infer"
      [] st = "stop" -> "next"

Reached(p) == shm[segment[p]].count >= Target(stage[p], window[p])

Arrive(p) ==
    LET s == segment[p]
    IN /\ Go(p, "sync", "counted")
       /\ shm[s].mutex = {}
       /\ shm' = [shm EXCEPT ![s].count = @ + 1, ![s].mutex = {p}]
       /\ past' = [past EXCEPT !.raced = IF shm[s].ready THEN @ ELSE @ \cup {s}]
       /\ UNCHANGED <<BarrierVars, stage, key, segment>>

(* A process that does not have to wait leaves the mutex and Sync();       *)
(* pthread_cond_wait() leaves the mutex, too.                              *)
Sync(p) ==
    /\ Go(p, "counted", IF Reached(p) THEN After(stage[p]) ELSE "wait")
    /\ shm' = [shm EXCEPT ![segment[p]].mutex = @ \ {p}]
    /\ UNCHANGED <<BarrierVars, stage, key, segment, past>>

Wake(p) ==
    /\ Go(p, "wait", After(stage[p]))
    /\ shm[segment[p]].mutex = {}
    /\ Reached(p)
    /\ UNCHANGED <<BarrierVars, stage, key, segment, shm, past>>

(* psync.Sync() of "dynamic"; the others go on.                            *)
GoThrough(p, from, st) ==
    /\ Go(p, from, IF Dynamic THEN "sync" ELSE After(st))
    /\ stage' = Set(stage, p, st)
    /\ UNCHANGED <<setup, build_only, restarts, cause, g_stop, throttle,
                   barrierVars, engine>>

-----------------------------------------------------------------------------
(* The warm-up, and the windows.                                           *)

WarmUp(p) ==
    \/ /\ GoThrough(p, "warmup", "warmup")
       /\ UNCHANGED <<window, count, rows, past>>
    \/ at[p] = "warmup" /\ Aborts(p)

OpenOutput(p) ==
    \/ /\ Go(p, "open", "next")
       /\ rows' = Set(rows, p, 0)
       /\ UNCHANGED <<setup, build_only, stage, window, restarts, cause, throttle,
                      count, g_stop, barrierVars, engine, past>>
    \/ /\ at[p] = "open"
       /\ "open" \in Faults
       /\ Ends(p, IF setup.program = "cuda" THEN "failed" ELSE "died")

(* Mutant: the loop runs to window_count + 1.                              *)
MoreWindowsByOne(p) == window[p] <= Windows

MoreWindows(p) == window[p] < Windows

WindowBegins(p) ==
    /\ MoreWindows(p) /\ ~g_stop[p]
    /\ GoThrough(p, "next", "start")
    /\ window' = Set(window, p, window[p] + 1)
    /\ UNCHANGED <<count, rows, past>>

(* A stopped process ends without a word to the one it keeps in step with. *)
LoopEnds(p) ==
    \/ /\ at[p] = "next"
       /\ ~MoreWindows(p) \/ g_stop[p]
       /\ Ends(p, "done")
    \/ at[p] = "next" /\ Aborts(p)

(* Mutant: a window in which nothing was done is not reported.             *)
RowUnlessIdle(p) == IF count[p] = 0 THEN 0 ELSE 1

RowOf(p) == 1

WriteRow(p) ==
    /\ GoThrough(p, "row", "stop")
    /\ rows' = Set(rows, p, rows[p] + RowOf(p))
    /\ count' = Set(count, p, 0)
    /\ UNCHANGED <<window, past>>

-----------------------------------------------------------------------------
(* The inner loop, and its token.                                          *)

LoopVars == <<setup, build_only, stage, window, restarts, cause, rows, g_stop,
              barrierVars, engine>>

Throttled == setup.program = "token" /\ setup.throttled

Stopped(p) == g_stop[p]

StartInference(p) ==
    /\ Go(p, "infer", IF Stopped(p) THEN "row"
                      ELSE IF Throttled THEN "acquire" ELSE "run")
    /\ UNCHANGED <<LoopVars, throttle, count, past>>

Clamped(v) == IF v < 0 THEN 0
              ELSE IF v > FullUtilization THEN FullUtilization ELSE v

(* An empty file leaves the last value as it is.                           *)
ReadUtilization(p, contents) ==
    IF contents = Unreadable THEN throttle[p].utilization ELSE Clamped(contents)

Tokens(utilization) ==
    IF utilization = 0 THEN 1 ELSE utilization * setup.quota_unit

Refill(p) ==
    /\ Go(p, "acquire", "acquire")
    /\ ~g_stop[p]
    /\ throttle[p].over \/ throttle[p].tokens = 0
    /\ \E contents \in FileContents \cup {Unreadable} :
          LET u == ReadUtilization(p, contents)
          IN throttle' = Set(throttle, p,
                [utilization |-> u, tokens |-> Tokens(u), over |-> FALSE,
                 paid |-> FALSE])
    /\ UNCHANGED <<LoopVars, count, past>>

TakesToken(p) ==
    /\ Go(p, "acquire", "acquired")
    /\ ~g_stop[p] /\ ~throttle[p].over /\ throttle[p].tokens > 0
    /\ throttle' = [throttle EXCEPT ![p].tokens = @ - 1, ![p].paid = TRUE]
    /\ UNCHANGED <<LoopVars, count, past>>

(* A stop ends Acquire() without a token.                                  *)
AcquireStopped(p) ==
    /\ Go(p, "acquire", "acquired")
    /\ g_stop[p]
    /\ UNCHANGED <<LoopVars, throttle, count, past>>

(* Mutant: main() does not look at g_stop again.                           *)
AcquiredThenRuns(p) == "run"

AcquiredThen(p) == IF g_stop[p] THEN "row" ELSE "run"

AfterAcquire(p) ==
    /\ Go(p, "acquired", AcquiredThen(p))
    /\ UNCHANGED <<LoopVars, throttle, count, past>>

Infer(p) ==
    \/ /\ \E finished, over \in BOOLEAN :
             /\ count[p] + 1 = setup.tasks => finished
             /\ over => Throttled
             /\ Go(p, "run", IF finished THEN "row" ELSE "infer")
             /\ throttle' = [throttle EXCEPT ![p].paid = FALSE,
                                             ![p].over = @ \/ over]
       /\ count' = [count EXCEPT ![p] = @ + 1]
       /\ past' = [past EXCEPT !.unpaid =
             @ \/ (Throttled /\ ~throttle[p].paid)]
       /\ UNCHANGED LoopVars
    \/ at[p] = "run" /\ Aborts(p)

-----------------------------------------------------------------------------
(* Signals from outside: SIGINT and SIGTERM set a flag, SIGKILL (of the    *)
(* server, two seconds after SIGTERM) ends the process wherever it is.     *)

HandleSignal(p) ==
    /\ "stop" \in Faults
    /\ at[p] \notin {"script", "over"} /\ ~g_stop[p]
    /\ g_stop' = Set(g_stop, p, TRUE)
    /\ UNCHANGED <<setup, controlVars, workVars, barrierVars, engine, past>>

Kill(p) == "kill" \in Faults /\ at[p] # "over" /\ Ends(p, "died")

StartAgain(p) ==
    /\ Go(p, "over", "script")
    /\ restarts < setup.restarts
    /\ restarts' = restarts + 1
    /\ cause' = Set(cause, p, "none")
    /\ window' = Set(window, p, 0)
    /\ g_stop' = Set(g_stop, p, FALSE)
    /\ UNCHANGED <<setup, build_only, stage, workVars, barrierVars, engine,
                   past>>

Model(p) ==
    TRTModel(p) \/ LoadEngine(p) \/ BuildEngine(p) \/ OpenEngine(p)
        \/ SaveEngine(p) \/ InitContext(p) \/ BuildEngineOnly(p)

ProcessSync(p) ==
    AcquireSharedSyncState(p) \/ InitSharedSyncState(p)
        \/ Arrive(p) \/ Sync(p) \/ Wake(p)

Loop(p) ==
    WarmUp(p) \/ OpenOutput(p) \/ WindowBegins(p) \/ StartInference(p)
        \/ Refill(p) \/ TakesToken(p) \/ AcquireStopped(p) \/ AfterAcquire(p)
        \/ Infer(p) \/ WriteRow(p) \/ LoopEnds(p)

Step(p) == RunScript(p) \/ Model(p) \/ ProcessSync(p) \/ Loop(p)

Next == \E p \in Procs : Step(p) \/ HandleSignal(p) \/ Kill(p) \/ StartAgain(p)

Spec == Init /\ [][Next]_vars

(* The processes are scheduled; nobody has to send a signal or start a     *)
(* process a second time.                                                  *)
FairSpec == Spec /\ \A p \in Procs : WF_vars(Step(p))

-----------------------------------------------------------------------------
(* Properties.                                                             *)

(* The types; a mutex has one owner, and no program takes more tokens than *)
(* there are.                                                              *)
TypeOK ==
    /\ setup \in Setups
    /\ at \in [Procs -> {"script", "model", "load", "build", "save", "write",
                         "context", "built", "attach", "init_shm", "sync", "counted",
                         "wait", "warmup", "open", "next", "infer", "acquire",
                         "acquired", "run", "row", "over"}]
    /\ build_only \in [Procs -> BOOLEAN]
    /\ stage \in [Procs -> {"model", "warmup", "start", "stop"}]
    /\ window \in [Procs -> 0..Windows]
    /\ g_stop \in [Procs -> BOOLEAN]
    /\ throttle \in [Procs -> [utilization : 0..FullUtilization,
                               tokens : 0..(FullUtilization * setup.quota_unit),
                               over : BOOLEAN, paid : BOOLEAN]]
    /\ count \in [Procs -> 0..setup.tasks]
    /\ rows \in [Procs -> 0..Windows]
    /\ segment \in [Procs -> 0..Len(shm)]
    /\ restarts \in 0..setup.restarts
    /\ cause \in [Procs -> {"none", "done", "failed", "died"}]
    /\ engine.file \in {"none", "partial", "whole"}
    /\ engine.writers \subseteq Procs /\ engine.mixed \in BOOLEAN
    /\ key \in 0..Len(shm)
    /\ \A s \in DOMAIN shm : shm[s].count \in Nat /\ shm[s].ready \in BOOLEAN
                             /\ Cardinality(shm[s].mutex) <= 1

(* Two processes that share a segment nobody has used before measure the   *)
(* same window, and warm up, together: while one measures a window the     *)
(* other measures it, is about to, or waits for its end.                   *)
Together(p, q) ==
    /\ segment[p] # 0 /\ segment[p] = segment[q] /\ at[q] # "over"
    /\ segment[p] \notin past.raced
    /\ Len(past.users[segment[p]]) = 2

AtBarrier(q, st) == at[q] \in {"sync", "counted", "wait"} /\ stage[q] = st

Passing(q, st) == at[q] \in {"counted", "wait"} /\ stage[q] = st

WindowsInStep ==
    \A p, q \in Procs : p # q /\ Together(p, q) =>
        /\ at[p] = "warmup" =>
              at[q] = "warmup" \/ Passing(q, "model") \/ AtBarrier(q, "warmup")
        /\ at[p] \in {"infer", "run", "row"} =>
              /\ window[q] = window[p]
              /\ at[q] \in {"infer", "run", "row"} \/ Passing(q, "start")
                    \/ AtBarrier(q, "stop")

(* A program that ends by itself has reported every window it began, and   *)
(* all of them unless it was stopped.                                      *)
RowsComplete ==
    \A p \in Procs : cause[p] = "done" =>
        rows[p] = window[p] /\ (window[p] = Windows \/ g_stop[p])

(* Every inference of a throttled window has had its token.                *)
InferencesPaid == ~past.unpaid

(* A file that holds a part of an engine is being written, or has been     *)
(* left behind by a process that died or got in the way of another.        *)
EngineIsWhole ==
    engine.file = "partial" => engine.writers # {} \/ past.torn

ReportIsTrue == RowsComplete /\ InferencesPaid /\ EngineIsWhole

(* A process that waits for ever: the other one has left the loop, or has  *)
(* a segment of its own, or died with the mutex, or its arrival was lost   *)
(* in the initialization, or it never came.                                *)
MutexIsDead(s) ==
    \E q \in shm[s].mutex : at[q] # "counted" \/ segment[q] # s

Apart(p) == \E q \in Procs : segment[q] \notin {0, segment[p]}

NeverCame(p) ==
    \A q \in Procs \ {p} :
        at[q] = "over" /\ \A i \in DOMAIN past.users[segment[p]] :
                            past.users[segment[p]][i] = p

Abandoned(p) ==
    LET s == segment[p]
    IN \/ at[p] \in {"sync", "wait"} /\ MutexIsDead(s)
       \/ /\ at[p] = "wait" /\ ~Reached(p)
          /\ s \in past.left \cup past.raced \/ Apart(p) \/ NeverCame(p)

(* Every process that is started ends, or is abandoned in a barrier.       *)
EveryLoopEnds ==
    \A p \in Procs :
        at[p] = "script" ~> (at[p] = "over" \/ []Abandoned(p))
=============================================================================
