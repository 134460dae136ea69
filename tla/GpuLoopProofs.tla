--------------------------- MODULE GpuLoopProofs ---------------------------
(***************************************************************************)
(* Proofs about GpuLoop, for any number of processes, setups, windows,     *)
(* inferences and restarts, and any faults.  The windows of two processes  *)
(* keep in step because the count in shared memory is the sum of what each *)
(* has added to it, and because nobody is further than the arrivals of the *)
(* other allow; both as long as the segment had no other user and was not  *)
(* used before it was initialized (Together).                              *)
(***************************************************************************)
EXTENDS GpuLoop, TLAPS, FiniteSetTheorems, SequenceTheorems

-----------------------------------------------------------------------------
(* The inductive invariant.                                                *)

Early == {"script", "model", "load", "build", "save", "write", "context",
          "built", "attach", "init_shm"}

Barrier == {"sync", "counted", "wait"}

InWindow == {"infer", "acquire", "acquired", "run", "row"}

Places == Early \cup Barrier \cup InWindow \cup {"warmup", "open", "next", "over"}

Stages == {"model", "warmup", "start", "stop"}

Mutexes == {{}} \cup {{p} : p \in Procs}

Segments == [count : Nat, mutex : Mutexes, ready : BOOLEAN]

Throttles == [utilization : 0..FullUtilization,
              tokens : 0..(FullUtilization * setup.quota_unit),
              over : BOOLEAN, paid : BOOLEAN]

Engines == [file : {"none", "partial", "whole"}, writers : SUBSET Procs,
            mixed : BOOLEAN]

Histories ==
    [users : Seq(Seq(Procs)), left : SUBSET Nat, raced : SUBSET Nat,
     torn : BOOLEAN, unpaid : BOOLEAN]

ControlType ==
    /\ setup \in Setups
    /\ at \in [Procs -> Places]
    /\ build_only \in [Procs -> BOOLEAN]
    /\ stage \in [Procs -> Stages]
    /\ window \in [Procs -> 0..Windows]
    /\ g_stop \in [Procs -> BOOLEAN]
    /\ restarts \in 0..setup.restarts
    /\ cause \in [Procs -> {"none", "done", "failed", "died"}]

WorkType ==
    /\ throttle \in [Procs -> Throttles]
    /\ count \in [Procs -> 0..setup.tasks]
    /\ rows \in [Procs -> 0..Windows]

SharedType ==
    /\ segment \in [Procs -> 0..Len(shm)]
    /\ engine \in Engines
    /\ key \in 0..Len(shm)
    /\ shm \in Seq(Segments)

TypeInv == ControlType /\ WorkType /\ SharedType /\ past \in Histories

(* How far the barriers and the windows of a process have got.             *)
Starting(p) ==
    \/ at[p] \in Early \cup {"warmup", "open"}
    \/ at[p] \in Barrier /\ stage[p] \in {"model", "warmup"}

Measuring(p) ==
    at[p] \in InWindow \/ (at[p] \in Barrier /\ stage[p] = "start")

Reported(p) ==
    at[p] = "next" \/ (at[p] \in Barrier /\ stage[p] = "stop")

(* The rows are those of the windows, but for the one that is measured.    *)
RowsAt(p) ==
    /\ at[p] \in Early \cup {"over"} => stage[p] = "model"
    /\ Starting(p) => window[p] = 0
    /\ Measuring(p) => window[p] = rows[p] + 1
    /\ Reported(p) => window[p] = rows[p]
    /\ at[p] \in Barrier /\ stage[p] = "stop" => window[p] > 0
    /\ at[p] \notin InWindow => count[p] = 0
    /\ at[p] \in InWindow \ {"row"} => count[p] < setup.tasks
    /\ at[p] # "over" => cause[p] = "none"
    /\ cause[p] = "done" =>
          rows[p] = window[p] /\ (window[p] = Windows \/ g_stop[p] = TRUE)

RowsInv == \A p \in Procs : RowsAt(p)

(* A token has been taken on the way to an inference.                      *)
PaidAt(p) ==
    /\ at[p] = "acquired" /\ g_stop[p] = FALSE => throttle[p].paid = TRUE
    /\ at[p] = "run" /\ Throttled => throttle[p].paid = TRUE
    /\ at[p] \in {"acquire", "acquired"} => Throttled

PaidInv ==
    /\ past.unpaid = FALSE
    /\ \A p \in Procs : PaidAt(p)

(* Those that write the engine are there; two at a time are noticed.       *)
EngineInv ==
    /\ \A p \in engine.writers : at[p] = "write"
    /\ engine.mixed = TRUE => past.torn = TRUE
    /\ engine.file = "partial" => engine.writers # {} \/ past.torn = TRUE

(* The segment of a process; only who created it initializes it.           *)
SegmentAt(p) ==
    /\ segment[p] # 0 =>
          /\ Dynamic
          /\ at[p] \notin Early \ {"init_shm"} /\ at[p] # "over"
          /\ \E i \in 1..Len(past.users[segment[p]]) :
                past.users[segment[p]][i] = p
    /\ at[p] \in Barrier \cup {"init_shm"} => segment[p] # 0
    /\ at[p] \notin Early \cup {"over"} /\ Dynamic => segment[p] # 0
    /\ at[p] = "attach" => Dynamic
    /\ at[p] = "init_shm" => shm[segment[p]].ready = FALSE

SegmentInv ==
    /\ Len(past.users) = Len(shm)
    /\ \A p \in Procs : SegmentAt(p)
    /\ \A p, q \in Procs :
          at[p] = "init_shm" /\ at[q] = "init_shm" /\ segment[p] = segment[q]
              => p = q
    /\ \A s \in 1..Len(shm) : Len(past.users[s]) > 0
    /\ \A s \in 1..Len(shm) :
          s \notin past.raced /\ shm[s].ready = FALSE => shm[s].count = 0

(* The barriers a process has passed, and its arrivals.                    *)
Passed(p) ==
    IF at[p] \in Barrier
    THEN IF stage[p] = "model" THEN 0
         ELSE IF stage[p] = "warmup" THEN 1
         ELSE IF stage[p] = "start" THEN 2 * window[p]
         ELSE 2 * window[p] + 1
    ELSE IF at[p] = "warmup" THEN 1
    ELSE IF at[p] = "open" THEN 2
    ELSE IF at[p] = "next" THEN 2 * window[p] + 2
    ELSE IF at[p] \in InWindow THEN 2 * window[p] + 1
    ELSE 0

Arrivals(p) ==
    Passed(p) + (IF at[p] \in {"counted", "wait"} THEN 1 ELSE 0)

(* The first user of a segment passes no barrier.                          *)
AloneInv ==
    \A p \in Procs :
        segment[p] # 0 /\ segment[p] \notin past.raced
        /\ Len(past.users[segment[p]]) = 1
            => shm[segment[p]].count = Arrivals(p) /\ Passed(p) = 0

(* The first two count together, and pass together.                        *)
PairInv ==
    \A p, q \in Procs :
        p # q /\ segment[p] # 0 /\ segment[p] = segment[q]
        /\ segment[p] \notin past.raced
        /\ Len(past.users[segment[p]]) = 2
            => /\ shm[segment[p]].count = Arrivals(p) + Arrivals(q)
               /\ Passed(p) <= Arrivals(q)

StepInv == SegmentInv /\ AloneInv /\ PairInv

IInv == TypeInv /\ RowsInv /\ PaidInv /\ EngineInv /\ StepInv
-----------------------------------------------------------------------------
(* The numbers of a setup.                                                 *)
LEMMA SetupType ==
    ASSUME setup \in Setups
    PROVE  /\ setup.program \in {"dynamic", "token", "transparent", "cuda"}
           /\ setup.windows \in Nat /\ setup.restarts \in Nat
           /\ setup.tasks \in Nat \ {0} /\ setup.quota_unit \in Nat \ {0}
           /\ setup.engine \in {"none", "whole"}
    BY GpuLoopAssumption

(* Initially.                                                              *)
LEMMA InitIInv == Init => IInv
<1> SUFFICES ASSUME Init PROVE IInv
    OBVIOUS
<1>s. setup \in Setups
    BY DEF Init
<1>1. TypeInv
    <2>1. ControlType
        BY <1>s, SetupType DEF Init, ControlType, Windows, Places, Early, Stages
    <2>2. WorkType
        <3>1. NoThrottle \in Throttles
            BY <1>s, SetupType
               DEF NoThrottle, Throttles, FullUtilization
        <3> QED
            BY <1>s, <3>1, SetupType DEF Init, WorkType, Windows
    <2>3. SharedType
        BY <1>s, SetupType DEF Init, SharedType, Engines
    <2>4. past \in Histories
        BY DEF Init, Histories
    <2> QED
        BY <2>1, <2>2, <2>3, <2>4 DEF TypeInv
<1>2. RowsInv
    BY <1>s, SetupType
       DEF Init, RowsInv, RowsAt, Early, Starting, Measuring, Reported,
           InWindow, Barrier
<1>3. PaidInv
    BY DEF Init, PaidInv, PaidAt
<1>4. EngineInv
    BY <1>s, SetupType DEF Init, EngineInv
<1>5. StepInv
    BY DEF Init, StepInv, SegmentInv, SegmentAt, AloneInv, PairInv, Barrier, Early
<1> QED
    BY <1>1, <1>2, <1>3, <1>4, <1>5 DEF IInv

(* What the invariant says of the runs' properties.                        *)
LEMMA TypeFollows == IInv => TypeOK
<1> SUFFICES ASSUME IInv PROVE TypeOK
    OBVIOUS
<1>1. ControlType /\ WorkType /\ SharedType
    BY DEF IInv, TypeInv
<1>2. \A s \in DOMAIN shm :
          shm[s].count \in Nat /\ shm[s].ready \in BOOLEAN
          /\ Cardinality(shm[s].mutex) <= 1
    <2> TAKE s \in DOMAIN shm
    <2>1. shm[s] \in Segments
        BY <1>1 DEF SharedType
    <2>2. shm[s].mutex = {} \/ \E q \in Procs : shm[s].mutex = {q}
        BY <2>1 DEF Segments, Mutexes
    <2>3. Cardinality(shm[s].mutex) <= 1
        BY <2>2, FS_EmptySet, FS_Singleton
    <2> QED
        BY <2>1, <2>3 DEF Segments
<1> QED
    BY <1>1, <1>2
       DEF TypeOK, ControlType, WorkType, SharedType, Throttles, Places, Early,
           Barrier, InWindow, Stages, Engines

LEMMA ReportFollows == IInv => ReportIsTrue
    BY DEF IInv, PaidInv, EngineInv, RowsInv, RowsAt, RowsComplete, ReportIsTrue, InferencesPaid, EngineIsWhole,
           TypeInv, SharedType, Engines, Histories

LEMMA WindowsFollow == IInv => WindowsInStep
<1> SUFFICES ASSUME IInv, NEW p \in Procs, NEW q \in Procs, p # q, Together(p, q)
             PROVE  /\ at[p] = "warmup" =>
                         at[q] = "warmup" \/ Passing(q, "model")
                            \/ AtBarrier(q, "warmup")
                    /\ at[p] \in {"infer", "run", "row"} =>
                         /\ window[q] = window[p]
                         /\ at[q] \in {"infer", "run", "row"}
                               \/ Passing(q, "start") \/ AtBarrier(q, "stop")
    BY DEF WindowsInStep
<1>t. /\ at[p] \in Places /\ at[q] \in Places
      /\ stage[p] \in Stages /\ stage[q] \in Stages
      /\ window[p] \in Nat /\ window[q] \in Nat
      /\ rows[p] \in Nat /\ rows[q] \in Nat
    BY SetupType DEF IInv, TypeInv, ControlType, WorkType, Windows
<1>s. /\ segment[p] # 0 /\ segment[q] # 0 /\ segment[q] = segment[p]
      /\ at[q] \notin Early \ {"init_shm"} /\ at[q] # "over"
      /\ Dynamic
    BY DEF IInv, StepInv, SegmentInv, SegmentAt, Together
<1>d. at[q] \notin {"acquire", "acquired"}
    BY <1>s DEF IInv, PaidInv, PaidAt, Throttled, Dynamic
<1>w. /\ Measuring(p) => window[p] = rows[p] + 1
      /\ Measuring(q) => window[q] = rows[q] + 1
      /\ at[q] \in Barrier /\ stage[q] = "stop" => window[q] > 0
    BY DEF IInv, RowsInv, RowsAt
<1>1. Passed(p) <= Arrivals(q) /\ Passed(q) <= Arrivals(p)
    BY <1>s DEF Together, IInv, StepInv, PairInv
<1>2. ASSUME at[p] = "warmup"
      PROVE  at[q] = "warmup" \/ Passing(q, "model") \/ AtBarrier(q, "warmup")
    <2>1. Passed(p) = 1 /\ Arrivals(p) = 1
        BY <1>2 DEF Passed, Arrivals, Barrier
    <2>2. Passed(q) <= 1 /\ 1 <= Arrivals(q)
        BY <1>1, <2>1
    <2>3. CASE at[q] \in Barrier
        BY <2>2, <2>3, <1>t, <1>w
           DEF Passed, Arrivals, Barrier, Stages, Passing, AtBarrier, Measuring
    <2>4. CASE at[q] \in InWindow
        BY <2>2, <2>4, <1>t, <1>w
           DEF Passed, Barrier, InWindow, Measuring
    <2>5. CASE at[q] \notin Barrier \cup InWindow
        BY <2>2, <2>5, <1>t, <1>s
           DEF Passed, Arrivals, Barrier, Early, InWindow, Places
    <2> QED
        BY <2>3, <2>4, <2>5
<1>3. ASSUME at[p] \in {"infer", "run", "row"}
      PROVE  /\ window[q] = window[p]
             /\ at[q] \in {"infer", "run", "row"}
                   \/ Passing(q, "start") \/ AtBarrier(q, "stop")
    <2>1. Passed(p) = 2 * window[p] + 1 /\ Arrivals(p) = 2 * window[p] + 1
        BY <1>3, <1>t DEF Passed, Arrivals, Barrier, InWindow
    <2>2. Passed(q) <= 2 * window[p] + 1 /\ 2 * window[p] + 1 <= Arrivals(q)
        BY <1>1, <2>1
    <2>3. window[p] > 0
        BY <1>3, <1>w, <1>t DEF Measuring, InWindow
    <2> QED
        BY <2>2, <2>3, <1>t, <1>s, <1>d, <1>w
           DEF Passed, Arrivals, Barrier, Early, InWindow, Places, Stages,
               Passing, AtBarrier, Measuring
<1> QED
    BY <1>2, <1>3

-----------------------------------------------------------------------------
(* Each step preserves the types.                                          *)

LEMMA EndsType ==
    ASSUME TypeInv, NEW p \in Procs, NEW how \in {"done", "failed", "died"},
           Ends(p, how)
    PROVE  TypeInv'
<1>s. setup \in Setups
    BY DEF TypeInv, ControlType
<1>1. ControlType'
    BY <1>s, SetupType DEF TypeInv, ControlType, Ends, Set, Windows, Places, Stages
<1>2. WorkType'
    <2>1. NoThrottle \in Throttles
        BY <1>s, SetupType DEF NoThrottle, Throttles, FullUtilization
    <2>2. throttle' \in [Procs -> Throttles]
        BY <2>1 DEF TypeInv, WorkType, Ends, Set
    <2> QED
        BY <1>s, <2>2, SetupType
           DEF TypeInv, WorkType, Ends, Set, Windows, Throttles, FullUtilization
<1>3. SharedType'
    <2>1. engine' \in Engines
        BY DEF TypeInv, SharedType, Ends, Engines
    <2> QED
        BY <2>1 DEF TypeInv, SharedType, Ends, Set
<1>4. past' \in Histories
    <2>1. segment[p] \in Nat
        BY DEF TypeInv, SharedType
    <2> QED
        BY <2>1 DEF TypeInv, Histories, Ends
<1> QED
    BY <1>1, <1>2, <1>3, <1>4 DEF TypeInv

LEMMA ModelType ==
    ASSUME TypeInv, NEW p \in Procs, RunScript(p) \/ Model(p)
    PROVE  TypeInv'
<1>s. setup \in Setups
    BY DEF TypeInv, ControlType
<1>e. \A how \in {"done", "failed", "died"} : Ends(p, how) => TypeInv'
    BY EndsType
<1> USE SetupType DEF TypeInv, ControlType, WorkType, SharedType, Go, Set,
        Windows, Places, Early, Barrier, ModelVars, controlVars, workVars,
        barrierVars, Throttles
<1>1. CASE RunScript(p)
    <2>1. engine' \in Engines
        BY <1>1 DEF RunScript, Engines
    <2>2. past' \in Histories
        BY <1>1 DEF RunScript, Histories
    <2>3. Rebuilds \in BOOLEAN
        BY DEF Rebuilds
    <2>4. build_only' \in [Procs -> BOOLEAN]
        BY <1>1, <2>3 DEF RunScript
    <2>5. at' \in [Procs -> Places] /\ key' \in 0..Len(shm)
        BY <1>1 DEF RunScript, ResetSync
    <2> QED
        BY <1>s, <1>1, <2>1, <2>2, <2>4, <2>5 DEF RunScript
<1>2. CASE TRTModel(p)
    BY <1>s, <1>2 DEF TRTModel
<1>3. CASE LoadEngine(p)
    BY <1>s, <1>e, <1>3 DEF LoadEngine, Aborts
<1>4. CASE BuildEngine(p)
    BY <1>s, <1>e, <1>4 DEF BuildEngine, Aborts
<1>5. CASE OpenEngine(p)
    BY <1>s, <1>5 DEF OpenEngine, Engines, Histories
<1>6. CASE SaveEngine(p)
    <2>1. CASE Aborts(p)
        BY <1>e, <2>1 DEF Aborts
    <2>2. CASE SaveEngine(p) /\ ~Aborts(p)
        <3>1. engine' \in Engines
            <4>1. CASE p \notin engine.writers
                BY <2>2, <4>1 DEF SaveEngine
            <4>2. CASE p \in engine.writers
                <5> DEFINE Saved(f) == [engine EXCEPT !.file = f, !.writers = @ \ {p}]
                <5>0. engine' \in {Saved(f) :
                         f \in IF engine.mixed THEN {"whole", "partial"}
                               ELSE {"whole"}}
                    BY <2>2, <4>2, Zenon DEF SaveEngine
                <5> HIDE DEF Saved
                <5>1. PICK f \in {"whole", "partial"} : engine' = Saved(f)
                    BY <5>0, SMT
                <5> USE DEF Saved
                <5> QED
                    BY <5>1 DEF Engines
            <4> QED
                BY <4>1, <4>2
        <3> QED
            BY <1>s, <2>2, <3>1 DEF SaveEngine
    <2> QED
        BY <1>6, <2>1, <2>2
<1>7. CASE InitContext(p)
    BY <1>s, <1>e, <1>7 DEF InitContext, ModelDone, Aborts
<1>8. CASE BuildEngineOnly(p)
    BY <1>s, <1>e, <1>8 DEF BuildEngineOnly
<1> QED
    BY <1>1, <1>2, <1>3, <1>4, <1>5, <1>6, <1>7, <1>8 DEF Model

LEMMA UpdateOfSeq ==
    ASSUME NEW S, NEW s \in Seq(S), NEW i \in 1..Len(s), NEW e \in S
    PROVE  /\ [s EXCEPT ![i] = e] \in Seq(S)
           /\ Len([s EXCEPT ![i] = e]) = Len(s)
    OBVIOUS

(* The three changes of a segment.                                         *)
Initialized == [count |-> 0, mutex |-> {}, ready |-> TRUE]

Arrived(seg, p) == [seg EXCEPT !.count = @ + 1, !.mutex = {p}]

Released(seg, p) == [seg EXCEPT !.mutex = @ \ {p}]

LEMMA SegmentChanges ==
    ASSUME NEW seg \in Segments, NEW p \in Procs
    PROVE  /\ Initialized \in Segments
           /\ Arrived(seg, p) \in Segments
           /\ Released(seg, p) \in Segments
           /\ Arrived(seg, p).count = seg.count + 1
           /\ Arrived(seg, p).ready = seg.ready
           /\ Released(seg, p).count = seg.count
           /\ Released(seg, p).ready = seg.ready
<1>1. Initialized \in Segments
    BY DEF Initialized, Segments, Mutexes
<1>2. /\ Arrived(seg, p) \in Segments
      /\ Arrived(seg, p).count = seg.count + 1
      /\ Arrived(seg, p).ready = seg.ready
    <2>1. {p} \in Mutexes
        BY DEF Mutexes
    <2>2. Arrived(seg, p).count = seg.count + 1 /\ Arrived(seg, p).ready = seg.ready
        BY DEF Arrived, Segments
    <2>3. Arrived(seg, p) = [seg EXCEPT !.count = seg.count + 1, !.mutex = {p}]
        BY DEF Arrived
    <2>4. seg.count + 1 \in Nat
        BY DEF Segments
    <2> QED
        BY <2>1, <2>2, <2>3, <2>4, Zenon DEF Segments
<1>3. seg.mutex \ {p} \in Mutexes
    BY DEF Segments, Mutexes
<1>4. /\ Released(seg, p) \in Segments
      /\ Released(seg, p).count = seg.count
      /\ Released(seg, p).ready = seg.ready
    BY <1>3 DEF Released, Segments
<1> QED
    BY <1>1, <1>2, <1>4

(* What a process at the barrier does to its segment.                      *)
LEMMA SegmentStep ==
    ASSUME TypeInv, SegmentInv, NEW p \in Procs,
           at[p] \in Barrier \cup {"init_shm"}
    PROVE  /\ segment[p] \in 1..Len(shm) /\ shm[segment[p]] \in Segments
           /\ InitSharedSyncState(p) =>
                 shm' = [shm EXCEPT ![segment[p]] = Initialized]
           /\ Arrive(p) => shm' =
                 [shm EXCEPT ![segment[p]] = Arrived(shm[segment[p]], p)]
           /\ Sync(p) => shm' =
                 [shm EXCEPT ![segment[p]] = Released(shm[segment[p]], p)]
<1>1. segment[p] \in 1..Len(shm) /\ shm[segment[p]] \in Segments
    BY DEF SegmentInv, SegmentAt, TypeInv, SharedType
<1>2. ASSUME InitSharedSyncState(p)
      PROVE  shm' = [shm EXCEPT ![segment[p]] = Initialized]
    BY <1>2, Zenon DEF InitSharedSyncState, Set, Initialized
<1>3. ASSUME Arrive(p)
      PROVE  shm' = [shm EXCEPT ![segment[p]] = Arrived(shm[segment[p]], p)]
    <2>1. shm' = [shm EXCEPT ![segment[p]].count = @ + 1, ![segment[p]].mutex = {p}]
        BY <1>3, Zenon DEF Arrive
    <2>2. shm \in Seq(Segments)
        BY DEF TypeInv, SharedType
    <2> QED
        BY <1>1, <2>1, <2>2 DEF Arrived
<1>4. ASSUME Sync(p)
      PROVE  shm' = [shm EXCEPT ![segment[p]] = Released(shm[segment[p]], p)]
    <2>1. shm' = [shm EXCEPT ![segment[p]].mutex = @ \ {p}]
        BY <1>4, Zenon DEF Sync
    <2> QED
        BY <2>1 DEF Released
<1> QED
    BY <1>1, <1>2, <1>3, <1>4

(* Attaching: a new segment with one user, or one more user of the old.    *)
LEMMA AttachStep ==
    ASSUME TypeInv, SegmentInv, NEW p \in Procs, AcquireSharedSyncState(p),
           ~Aborts(p)
    PROVE  /\ at[p] = "attach"
           /\ \/ /\ at' = [at EXCEPT ![p] = "init_shm"]
                 /\ shm' = Append(shm, [count |-> 0, mutex |-> {}, ready |-> FALSE])
                 /\ key' = Len(shm) + 1
                 /\ past' = [past EXCEPT !.users = Append(past.users, <<p>>)]
              \/ /\ at' = [at EXCEPT ![p] = "sync"]
                 /\ shm' = shm /\ key \in 1..Len(shm) /\ key' = key
                 /\ past' = [past EXCEPT !.users =
                       [past.users EXCEPT ![key] = Append(past.users[key], p)]]
           /\ segment' = [segment EXCEPT ![p] = key']
           /\ UNCHANGED <<BarrierVars, stage>>
<1>1. CASE key = 0
    BY <1>1 DEF AcquireSharedSyncState, Go, Set
<1>2. CASE key # 0
    <2>1. key \in 1..Len(shm)
        BY <1>2 DEF TypeInv, SharedType
    <2>2. past' = [past EXCEPT !.users = Set(@, key, Append(@[key], p))]
        BY <1>2, Zenon DEF AcquireSharedSyncState
    <2>3. past' = [past EXCEPT !.users =
                      [past.users EXCEPT ![key] = Append(past.users[key], p)]]
        BY <2>2, Zenon DEF Set
    <2>4. /\ at[p] = "attach" /\ at' = [at EXCEPT ![p] = "sync"]
          /\ shm' = shm /\ key' = key /\ segment' = [segment EXCEPT ![p] = key]
          /\ UNCHANGED <<BarrierVars, stage>>
        BY <1>2, Zenon DEF AcquireSharedSyncState, Go, Set
    <2> QED
        BY <2>1, <2>3, <2>4
<1> QED
    BY <1>1, <1>2

LEMMA SyncType ==
    ASSUME TypeInv, SegmentInv, NEW p \in Procs, ProcessSync(p)
    PROVE  TypeInv'
<1>s. setup \in Setups
    BY DEF TypeInv, ControlType
<1>e. Aborts(p) => TypeInv'
    BY EndsType DEF Aborts
<1>a. ASSUME NEW st \in Stages
      PROVE  After(st) \in Places
    BY DEF After, Stages, Places, InWindow
<1>p. "sync" \in Places /\ "counted" \in Places /\ "wait" \in Places
      /\ "init_shm" \in Places
    BY DEF Places, Barrier, Early
<1>t. /\ stage[p] \in Stages /\ at \in [Procs -> Places]
      /\ shm \in Seq(Segments) /\ past \in Histories /\ key \in 0..Len(shm)
      /\ segment \in [Procs -> 0..Len(shm)]
    BY DEF TypeInv, ControlType, SharedType
<1>f. ASSUME UNCHANGED BarrierVars, stage' \in [Procs -> Stages],
             at' \in [Procs -> Places], shm' \in Seq(Segments),
             segment' \in [Procs -> 0..Len(shm')], key' \in 0..Len(shm'),
             past' \in Histories
      PROVE  TypeInv'
    BY <1>f DEF TypeInv, ControlType, WorkType, SharedType, BarrierVars, workVars,
       Windows, Throttles
<1>k. stage' = stage => stage' \in [Procs -> Stages]
    BY DEF TypeInv, ControlType
<1>1. CASE AcquireSharedSyncState(p)
    <2>1. CASE Aborts(p)
        BY <1>e, <2>1
    <2>2. CASE ~Aborts(p)
        <3>1. /\ \/ /\ at' = [at EXCEPT ![p] = "init_shm"]
                    /\ shm' = Append(shm,
                                  [count |-> 0, mutex |-> {}, ready |-> FALSE])
                    /\ key' = Len(shm) + 1
                    /\ past' = [past EXCEPT !.users = Append(past.users, <<p>>)]
                 \/ /\ at' = [at EXCEPT ![p] = "sync"]
                    /\ shm' = shm /\ key \in 1..Len(shm) /\ key' = key
                    /\ past' = [past EXCEPT !.users =
                          [past.users EXCEPT ![key] = Append(past.users[key], p)]]
              /\ segment' = [segment EXCEPT ![p] = key']
              /\ UNCHANGED <<BarrierVars, stage>>
            BY <1>1, <2>2, AttachStep
        <3>2. at' \in [Procs -> Places]
            BY <3>1, <1>t, <1>p
        <3>3. /\ shm' \in Seq(Segments) /\ key' \in 0..Len(shm')
              /\ Len(shm) <= Len(shm')
            <4>1. [count |-> 0, mutex |-> {}, ready |-> FALSE] \in Segments
                BY DEF Segments, Mutexes
            <4>2. Append(shm, [count |-> 0, mutex |-> {}, ready |-> FALSE])
                      \in Seq(Segments)
                  /\ Len(Append(shm, [count |-> 0, mutex |-> {}, ready |-> FALSE]))
                        = Len(shm) + 1
                BY <4>1, <1>t
            <4>3. Len(shm) \in Nat
                BY <1>t
            <4>6. shm' = shm \/ shm' =
                      Append(shm, [count |-> 0, mutex |-> {}, ready |-> FALSE])
                BY <3>1
            <4>4. shm' \in Seq(Segments) /\ Len(shm) <= Len(shm')
                <5>1. CASE shm' = shm
                    BY <5>1, <4>3, <1>t
                <5>2. CASE shm' =
                          Append(shm, [count |-> 0, mutex |-> {}, ready |-> FALSE])
                    BY <5>2, <4>2, <4>3
                <5> QED
                    BY <4>6, <5>1, <5>2
            <4>5. key' \in 0..Len(shm')
                BY <3>1, <4>2, <4>3, <1>t
            <4> QED
                BY <4>4, <4>5
        <3>4. segment' \in [Procs -> 0..Len(shm')]
            BY <3>1, <3>3, <1>t
        <3>5. past' \in Histories
            <4>1. Append(past.users, <<p>>) \in Seq(Seq(Procs))
                BY <1>t DEF Histories
            <4>2. ASSUME key \in 1..Len(shm)
                  PROVE  [past.users EXCEPT ![key] = Append(past.users[key], p)]
                             \in Seq(Seq(Procs))
                <5>1. key \in 1..Len(past.users) /\ past.users \in Seq(Seq(Procs))
                    BY <4>2, <1>t DEF SegmentInv, Histories
                <5>2. Append(past.users[key], p) \in Seq(Procs)
                    BY <5>1
                <5> QED
                    BY <5>1, <5>2, UpdateOfSeq
            <4> QED
                BY <3>1, <4>1, <4>2, <1>t DEF Histories
        <3> QED
            BY <3>1, <3>2, <3>3, <3>4, <3>5, <1>f, <1>k
    <2> QED
        BY <2>1, <2>2
<1>2. CASE InitSharedSyncState(p) \/ Arrive(p) \/ Sync(p)
    <2>1. at[p] \in Barrier \cup {"init_shm"}
        BY <1>2 DEF InitSharedSyncState, Arrive, Sync, Go, Barrier
    <2>2. segment[p] \in 1..Len(shm) /\ shm[segment[p]] \in Segments
        BY <2>1, SegmentStep
    <2>3. PICK e \in Segments : shm' = [shm EXCEPT ![segment[p]] = e]
        BY <1>2, <2>1, <2>2, SegmentStep, SegmentChanges
    <2>4. shm' \in Seq(Segments) /\ Len(shm') = Len(shm)
        BY <1>t, <2>2, <2>3, UpdateOfSeq
    <2>5. at' \in [Procs -> Places]
        BY <1>2, <1>p, <1>a, <1>t DEF InitSharedSyncState, Arrive, Sync, Go, Set
    <2>6. past' \in Histories
        <3>1. CASE past' = past
            BY <3>1, <1>t
        <3>2. CASE Arrive(p)
            <4>1. past' = [past EXCEPT !.raced =
                             IF shm[segment[p]].ready THEN past.raced
                             ELSE past.raced \cup {segment[p]}]
                BY <3>2, Zenon DEF Arrive
            <4>2. past.raced \cup {segment[p]} \in SUBSET Nat
                BY <2>2, <1>t DEF Histories
            <4> QED
                BY <4>1, <4>2, <1>t DEF Histories
        <3> QED
            BY <1>2, <3>1, <3>2 DEF InitSharedSyncState, Sync
    <2>7. UNCHANGED <<BarrierVars, stage, key, segment>>
        BY <1>2 DEF InitSharedSyncState, Arrive, Sync
    <2> QED
        BY <2>4, <2>5, <2>6, <2>7, <1>f, <1>k, <1>t
<1>3. CASE Wake(p)
    <2>1. at' \in [Procs -> Places]
        BY <1>3, <1>a, <1>t DEF Wake, Go, Set
    <2> QED
        BY <1>3, <2>1, <1>f, <1>k, <1>t DEF Wake
<1> QED
    BY <1>1, <1>2, <1>3 DEF ProcessSync

LEMMA TokensType ==
    ASSUME setup \in Setups, NEW u \in 0..FullUtilization
    PROVE  Tokens(u) \in 0..(FullUtilization * setup.quota_unit)
<1>1. setup.quota_unit \in Nat /\ setup.quota_unit > 0
    BY SetupType
<1>2. u = 0 \/ u = 1 \/ u = 2
    BY DEF FullUtilization
<1> QED
    BY <1>1, <1>2 DEF Tokens, FullUtilization

LEMMA LoopType ==
    ASSUME TypeInv, RowsInv, NEW p \in Procs, Loop(p)
    PROVE  TypeInv'
<1>s. setup \in Setups
    BY DEF TypeInv, ControlType
<1>n. setup.windows \in Nat /\ setup.tasks \in Nat /\ setup.quota_unit \in Nat
    BY <1>s, SetupType
<1>e. \A how \in {"done", "failed", "died"} : Ends(p, how) => TypeInv'
    BY EndsType
<1>a. Aborts(p) => TypeInv'
    BY <1>e DEF Aborts
<1>c. at[p] = "run" => count[p] < setup.tasks
    BY DEF RowsInv, RowsAt, InWindow
<1> USE <1>n DEF TypeInv, ControlType, WorkType, SharedType, Go, Set, Windows,
        Places, Early, Barrier, InWindow, controlVars, workVars, barrierVars,
        LoopVars
<1>1. CASE WarmUp(p)
    BY <1>s, <1>a, <1>1 DEF WarmUp, GoThrough, After, Throttles, Stages
<1>2. CASE OpenOutput(p)
    <2>1. CASE \E how \in {"done", "failed", "died"} : Ends(p, how)
        BY <1>e, <2>1
    <2>2. CASE ~ \E how \in {"done", "failed", "died"} : Ends(p, how)
        <3>1. at' = [at EXCEPT ![p] = "next"] /\ rows' = [rows EXCEPT ![p] = 0]
              /\ UNCHANGED <<setup, build_only, stage, window, restarts, cause,
                             throttle, count, g_stop, barrierVars, engine, past>>
            BY <1>2, <2>2 DEF OpenOutput
        <3>2. rows' \in [Procs -> 0..Windows] /\ at' \in [Procs -> Places]
            BY <3>1
        <3> QED
            BY <1>s, <3>1, <3>2 DEF Throttles
    <2> QED
        BY <2>1, <2>2
<1>3. CASE WindowBegins(p)
    <2>1. window[p] + 1 \in 0..setup.windows
        BY <1>3 DEF WindowBegins, MoreWindows
    <2>2. window' = [window EXCEPT ![p] = window[p] + 1]
        BY <1>3 DEF WindowBegins
    <2>3. window' \in [Procs -> 0..setup.windows]
        BY <2>1, <2>2
    <2>4. at' \in [Procs -> Places] /\ stage' \in [Procs -> Stages]
        BY <1>3 DEF WindowBegins, GoThrough, After, Stages
    <2> QED
        BY <1>s, <1>3, <2>3, <2>4 DEF WindowBegins, GoThrough, Throttles
<1>4. CASE StartInference(p)
    BY <1>s, <1>4 DEF StartInference, Throttles
<1>5. CASE Refill(p)
    <2>1. PICK u \in 0..FullUtilization :
             throttle' = [throttle EXCEPT ![p] =
                 [utilization |-> u, tokens |-> Tokens(u), over |-> FALSE,
                  paid |-> FALSE]]
        <3>1. PICK contents \in FileContents \cup {Unreadable} :
                 throttle' = [throttle EXCEPT ![p] =
                     [utilization |-> ReadUtilization(p, contents),
                      tokens |-> Tokens(ReadUtilization(p, contents)),
                      over |-> FALSE, paid |-> FALSE]]
            BY <1>5 DEF Refill
        <3>2. ReadUtilization(p, contents) \in 0..FullUtilization
            <4>1. contents = Unreadable \/ contents \in Int
                BY GpuLoopAssumption
            <4>2. throttle[p].utilization \in 0..FullUtilization
                BY DEF Throttles
            <4> QED
                BY <4>1, <4>2 DEF ReadUtilization, Clamped, FullUtilization
        <3> QED
            BY <3>1, <3>2
    <2>2. [utilization |-> u, tokens |-> Tokens(u), over |-> FALSE, paid |-> FALSE]
             \in Throttles
        BY <1>s, TokensType DEF Throttles
    <2>3. throttle' \in [Procs -> Throttles]
        BY <2>1, <2>2
    <2> QED
        BY <1>s, <1>5, <2>3 DEF Refill, Throttles
<1>6. CASE TakesToken(p)
    <2>1. throttle[p].tokens - 1 \in 0..(FullUtilization * setup.quota_unit)
        BY <1>6 DEF TakesToken, Throttles, FullUtilization
    <2>2. throttle' \in [Procs -> Throttles]
        BY <1>6, <2>1 DEF TakesToken, Throttles
    <2> QED
        BY <1>s, <1>6, <2>2 DEF TakesToken, Throttles
<1>7. CASE AcquireStopped(p)
    BY <1>s, <1>7 DEF AcquireStopped, Throttles
<1>8. CASE AfterAcquire(p)
    BY <1>s, <1>8 DEF AfterAcquire, AcquiredThen, Throttles
<1>9. CASE Infer(p)
    <2>1. CASE Aborts(p)
        BY <1>a, <2>1
    <2>2. CASE ~Aborts(p)
        <3>1. PICK finished \in BOOLEAN, over \in BOOLEAN :
                 /\ at[p] = "run"
                 /\ at' = [at EXCEPT ![p] = IF finished THEN "row" ELSE "infer"]
                 /\ throttle' = [throttle EXCEPT ![p].paid = FALSE,
                                                 ![p].over = @ \/ over]
            BY <1>9, <2>2 DEF Infer
        <3>2. at' \in [Procs -> Places]
            BY <3>1
        <3>3. throttle' \in [Procs -> Throttles]
            <4> DEFINE v == [throttle[p] EXCEPT !.paid = FALSE,
                                                !.over = @ \/ over]
            <4>1. throttle' = [throttle EXCEPT ![p] = v]
                BY <3>1
            <4>2. (throttle[p].over \/ over) \in BOOLEAN /\ FALSE \in BOOLEAN
                OBVIOUS
            <4>3. throttle[p] \in Throttles
                OBVIOUS
            <4>4. v \in Throttles
                BY <4>2, <4>3, Zenon DEF Throttles
            <4> HIDE DEF v
            <4> QED
                BY <4>1, <4>4
        <3>4. count' \in [Procs -> 0..setup.tasks]
            <4>1. count[p] + 1 \in 0..setup.tasks
                BY <3>1, <1>c
            <4>2. count' = [count EXCEPT ![p] = count[p] + 1]
                BY <1>9, <2>2 DEF Infer
            <4> QED
                BY <4>1, <4>2
        <3>5. past' \in Histories
            <4>1. past' = [past EXCEPT !.unpaid =
                             past.unpaid \/ (Throttled /\ ~throttle[p].paid)]
                BY <1>9, <2>2, Zenon DEF Infer
            <4>2. (past.unpaid \/ (Throttled /\ ~throttle[p].paid)) \in BOOLEAN
                OBVIOUS
            <4> QED
                BY <4>1, <4>2, Zenon DEF Histories
        <3> QED
            BY <1>s, <1>9, <2>2, <3>2, <3>3, <3>4, <3>5 DEF Infer, Throttles
    <2> QED
        BY <2>1, <2>2
<1>10. CASE WriteRow(p)
    <2>1. rows[p] + 1 \in 0..setup.windows
        BY <1>10 DEF WriteRow, GoThrough, RowsInv, RowsAt, Measuring
    <2>2. rows' = [rows EXCEPT ![p] = rows[p] + 1]
          /\ count' = [count EXCEPT ![p] = 0]
        BY <1>10 DEF WriteRow, RowOf
    <2>3. rows' \in [Procs -> 0..setup.windows]
          /\ count' \in [Procs -> 0..setup.tasks]
        BY <2>1, <2>2
    <2>4. at' \in [Procs -> Places] /\ stage' \in [Procs -> Stages]
        BY <1>10 DEF WriteRow, GoThrough, After, Stages
    <2> QED
        BY <1>s, <1>10, <2>3, <2>4 DEF WriteRow, GoThrough, Throttles
<1>11. CASE LoopEnds(p)
    BY <1>e, <1>a, <1>11 DEF LoopEnds
<1> QED
    BY <1>1, <1>2, <1>3, <1>4, <1>5, <1>6, <1>7, <1>8, <1>9, <1>10, <1>11 DEF Loop

LEMMA SignalType ==
    ASSUME TypeInv, NEW p \in Procs, HandleSignal(p) \/ Kill(p) \/ StartAgain(p)
    PROVE  TypeInv'
<1>s. setup \in Setups
    BY DEF TypeInv, ControlType
<1>n. setup.windows \in Nat /\ setup.restarts \in Nat
    BY <1>s, SetupType
<1> USE <1>n DEF TypeInv, ControlType, WorkType, SharedType, Go, Set, Windows,
        Places, Early, controlVars, workVars, barrierVars, Throttles
<1>1. CASE HandleSignal(p)
    BY <1>s, <1>1 DEF HandleSignal
<1>2. CASE Kill(p)
    BY <1>2, EndsType DEF Kill
<1>3. CASE StartAgain(p)
    <2>1. at' = [at EXCEPT ![p] = "script"] /\ restarts' = restarts + 1
          /\ restarts < setup.restarts
          /\ cause' = [cause EXCEPT ![p] = "none"]
          /\ window' = [window EXCEPT ![p] = 0]
          /\ g_stop' = [g_stop EXCEPT ![p] = FALSE]
        BY <1>3 DEF StartAgain
    <2>2. /\ at' \in [Procs -> Places] /\ restarts' \in 0..setup.restarts
          /\ cause' \in [Procs -> {"none", "done", "failed", "died"}]
          /\ window' \in [Procs -> 0..setup.windows]
          /\ g_stop' \in [Procs -> BOOLEAN]
        BY <2>1
    <2> QED
        BY <1>s, <1>3, <2>2 DEF StartAgain
<1> QED
    BY <1>1, <1>2, <1>3

LEMMA TypeStep ==
    ASSUME TypeInv, RowsInv, SegmentInv, [Next]_vars
    PROVE  TypeInv'
<1>1. CASE UNCHANGED vars
    BY <1>1 DEF vars, controlVars, workVars, barrierVars, TypeInv, ControlType, WorkType,
       SharedType, Windows, Throttles
<1>2. CASE Next
    <2>1. PICK p \in Procs : Step(p) \/ HandleSignal(p) \/ Kill(p) \/ StartAgain(p)
        BY <1>2 DEF Next
    <2> QED
        BY <2>1, ModelType, SyncType, LoopType, SignalType DEF Step
<1> QED
    BY <1>1, <1>2

-----------------------------------------------------------------------------
(* A process changes nothing of what the others have of their own.         *)
OthersStay(p) ==
    /\ setup' = setup
    /\ \A q \in Procs \ {p} :
          /\ at'[q] = at[q] /\ stage'[q] = stage[q] /\ window'[q] = window[q]
          /\ rows'[q] = rows[q] /\ count'[q] = count[q] /\ cause'[q] = cause[q]
          /\ g_stop'[q] = g_stop[q] /\ throttle'[q] = throttle[q]
          /\ segment'[q] = segment[q]

LEMMA Others ==
    ASSUME TypeInv, NEW p \in Procs, Step(p) \/ HandleSignal(p) \/ Kill(p) \/ StartAgain(p)
    PROVE  OthersStay(p)
<1>e. \A how \in {"done", "failed", "died"} : Ends(p, how) => OthersStay(p)
    BY DEF Ends, Set, OthersStay
<1>a. Aborts(p) => OthersStay(p)
    BY <1>e DEF Aborts
<1>t. /\ DOMAIN at = Procs /\ DOMAIN stage = Procs /\ DOMAIN window = Procs
      /\ DOMAIN rows = Procs /\ DOMAIN count = Procs /\ DOMAIN cause = Procs
      /\ DOMAIN g_stop = Procs /\ DOMAIN throttle = Procs
      /\ DOMAIN segment = Procs
    BY DEF TypeInv, ControlType, WorkType, SharedType
<1> USE <1>t DEF OthersStay, Go, Set, controlVars, workVars, barrierVars, ModelVars,
        BarrierVars, LoopVars, GoThrough
<1>1. CASE RunScript(p)
    BY <1>1 DEF RunScript
<1>2. CASE TRTModel(p)
    BY <1>2 DEF TRTModel
<1>3. CASE LoadEngine(p)
    BY <1>3, <1>e, <1>a DEF LoadEngine
<1>4. CASE BuildEngine(p)
    BY <1>4, <1>a DEF BuildEngine
<1>5. CASE OpenEngine(p)
    BY <1>5 DEF OpenEngine
<1>6. CASE SaveEngine(p)
    BY <1>6, <1>a DEF SaveEngine
<1>7. CASE InitContext(p)
    BY <1>7, <1>a DEF InitContext
<1>8. CASE BuildEngineOnly(p)
    BY <1>8, <1>e DEF BuildEngineOnly
<1>9. CASE AcquireSharedSyncState(p)
    BY <1>9, <1>a DEF AcquireSharedSyncState
<1>10. CASE InitSharedSyncState(p)
    BY <1>10 DEF InitSharedSyncState
<1>11. CASE Arrive(p)
    BY <1>11 DEF Arrive
<1>12. CASE Sync(p)
    BY <1>12 DEF Sync
<1>13. CASE Wake(p)
    BY <1>13 DEF Wake
<1>14. CASE WarmUp(p)
    BY <1>14, <1>a DEF WarmUp
<1>15. CASE OpenOutput(p)
    BY <1>15, <1>e DEF OpenOutput
<1>16. CASE WindowBegins(p)
    BY <1>16 DEF WindowBegins
<1>17. CASE StartInference(p)
    BY <1>17 DEF StartInference
<1>18. CASE Refill(p)
    BY <1>18 DEF Refill
<1>19. CASE TakesToken(p)
    BY <1>19 DEF TakesToken
<1>20. CASE AcquireStopped(p)
    BY <1>20 DEF AcquireStopped
<1>21. CASE AfterAcquire(p)
    BY <1>21 DEF AfterAcquire
<1>22. CASE Infer(p)
    BY <1>22, <1>a DEF Infer
<1>23. CASE WriteRow(p)
    BY <1>23 DEF WriteRow
<1>24. CASE LoopEnds(p)
    BY <1>24, <1>e, <1>a DEF LoopEnds
<1>25. CASE HandleSignal(p)
    BY <1>25 DEF HandleSignal
<1>26. CASE Kill(p)
    BY <1>26, <1>e DEF Kill
<1>27. CASE StartAgain(p)
    BY <1>27 DEF StartAgain
<1> QED
    BY <1>1, <1>2, <1>3, <1>4, <1>5, <1>6, <1>7, <1>8, <1>9, <1>10, <1>11, <1>12, <1>13, <1>14, <1>15, <1>16, <1>17, <1>18, <1>19, <1>20, <1>21, <1>22, <1>23, <1>24, <1>25, <1>26, <1>27
       DEF Step, Model, ProcessSync, Loop

-----------------------------------------------------------------------------
(* The rows follow the windows.                                            *)
LEMMA EndsRows ==
    ASSUME TypeInv, RowsInv, NEW p \in Procs, NEW how \in {"failed", "died"},
           Ends(p, how)
    PROVE  RowsAt(p)'
<1>t. /\ DOMAIN at = Procs /\ DOMAIN stage = Procs
      /\ DOMAIN count = Procs /\ DOMAIN cause = Procs
    BY DEF TypeInv, ControlType, WorkType
<1>1. at'[p] = "over" /\ cause'[p] = how /\ count'[p] = 0 /\ stage'[p] = "model"
    BY <1>t DEF Ends, Set
<1> QED
    BY <1>1 DEF RowsAt, Starting, Measuring, Reported, Early, Barrier, InWindow

LEMMA OwnRows ==
    ASSUME TypeInv, RowsInv, NEW p \in Procs,
           Step(p) \/ HandleSignal(p) \/ Kill(p) \/ StartAgain(p)
    PROVE  RowsAt(p)'
<1>e. \A how \in {"failed", "died"} : Ends(p, how) => RowsAt(p)'
    BY EndsRows
<1>a. Aborts(p) => RowsAt(p)'
    BY <1>e DEF Aborts
<1>t. /\ DOMAIN at = Procs /\ DOMAIN stage = Procs /\ DOMAIN window = Procs
      /\ DOMAIN rows = Procs /\ DOMAIN count = Procs /\ DOMAIN cause = Procs
      /\ DOMAIN g_stop = Procs
      /\ stage[p] \in Stages /\ window[p] \in Nat /\ rows[p] \in Nat
      /\ count[p] \in Nat /\ setup.windows \in Nat
      /\ setup.tasks \in Nat /\ setup.tasks > 0 /\ window[p] <= setup.windows
    BY SetupType DEF TypeInv, ControlType, WorkType, Windows
<1>r. RowsAt(p)
    BY DEF RowsInv
<1> USE <1>t, <1>r DEF Go, Set, controlVars, workVars, barrierVars, ModelVars,
        BarrierVars, LoopVars, GoThrough, RowsAt, Starting, Measuring, Reported,
        Early, Barrier, InWindow, Windows
<1>1. CASE RunScript(p)
    BY <1>1 DEF RunScript
<1>2. CASE TRTModel(p)
    BY <1>2 DEF TRTModel
<1>3. CASE LoadEngine(p)
    BY <1>3, <1>e, <1>a DEF LoadEngine
<1>4. CASE BuildEngine(p)
    BY <1>4, <1>a DEF BuildEngine
<1>5. CASE OpenEngine(p)
    BY <1>5 DEF OpenEngine
<1>6. CASE SaveEngine(p)
    BY <1>6, <1>a DEF SaveEngine
<1>7. CASE InitContext(p)
    BY <1>7, <1>a DEF InitContext, ModelDone
<1>8. CASE BuildEngineOnly(p)
    BY <1>8, <1>e DEF BuildEngineOnly
<1>9. CASE AcquireSharedSyncState(p)
    BY <1>9, <1>a DEF AcquireSharedSyncState
<1>10. CASE InitSharedSyncState(p)
    BY <1>10 DEF InitSharedSyncState
<1>11. CASE Arrive(p)
    BY <1>11 DEF Arrive
<1>12. CASE Sync(p)
    BY <1>12 DEF Sync, After, Stages
<1>13. CASE Wake(p)
    BY <1>13 DEF Wake, After, Stages
<1>14. CASE WarmUp(p)
    BY <1>14, <1>a DEF WarmUp, After
<1>15. CASE OpenOutput(p)
    BY <1>15, <1>e DEF OpenOutput
<1>16. CASE WindowBegins(p)
    BY <1>16 DEF WindowBegins, After, MoreWindows
<1>17. CASE StartInference(p)
    BY <1>17 DEF StartInference
<1>18. CASE Refill(p)
    BY <1>18 DEF Refill
<1>19. CASE TakesToken(p)
    BY <1>19 DEF TakesToken
<1>20. CASE AcquireStopped(p)
    BY <1>20 DEF AcquireStopped
<1>21. CASE AfterAcquire(p)
    BY <1>21 DEF AfterAcquire, AcquiredThen
<1>22. CASE Infer(p)
    BY <1>22, <1>a DEF Infer
<1>23. CASE WriteRow(p)
    BY <1>23 DEF WriteRow, After, RowOf
<1>24. CASE LoopEnds(p)
    <2>1. CASE Aborts(p)
        BY <1>a, <2>1
    <2>2. CASE ~Aborts(p)
        <3>1. at[p] = "next" /\ (~MoreWindows(p) \/ g_stop[p]) /\ Ends(p, "done")
            BY <1>24, <2>2 DEF LoopEnds
        <3>2. /\ at'[p] = "over" /\ cause'[p] = "done" /\ count'[p] = 0
              /\ stage'[p] = "model" /\ window'[p] = window[p]
              /\ rows'[p] = rows[p] /\ g_stop'[p] = g_stop[p] /\ setup' = setup
            BY <3>1 DEF Ends
        <3>3. window[p] = setup.windows \/ g_stop[p] = TRUE
            BY <3>1 DEF MoreWindows, TypeInv, ControlType
        <3> QED
            BY <3>1, <3>2, <3>3
    <2> QED
        BY <2>1, <2>2
<1>25. CASE HandleSignal(p)
    BY <1>25 DEF HandleSignal
<1>26. CASE Kill(p)
    BY <1>26, <1>e DEF Kill
<1>27. CASE StartAgain(p)
    BY <1>27 DEF StartAgain
<1> QED
    BY <1>1, <1>2, <1>3, <1>4, <1>5, <1>6, <1>7, <1>8, <1>9, <1>10, <1>11, <1>12, <1>13, <1>14, <1>15, <1>16, <1>17, <1>18, <1>19, <1>20, <1>21, <1>22, <1>23, <1>24, <1>25, <1>26, <1>27
       DEF Step, Model, ProcessSync, Loop

LEMMA RowsStep ==
    ASSUME TypeInv, RowsInv, [Next]_vars
    PROVE  RowsInv'
<1>1. CASE UNCHANGED vars
    BY <1>1 DEF vars, controlVars, workVars, RowsInv, RowsAt, Starting, Measuring,
       Reported, Windows
<1>2. CASE Next
    <2>1. PICK p \in Procs : Step(p) \/ HandleSignal(p) \/ Kill(p) \/ StartAgain(p)
        BY <1>2 DEF Next
    <2>2. RowsAt(p)'
        BY <2>1, OwnRows
    <2>3. ASSUME NEW q \in Procs \ {p}
          PROVE  RowsAt(q)'
        <3>1. OthersStay(p)
            BY <2>1, Others
        <3>2. RowsAt(q)
            BY DEF RowsInv
        <3> QED
            BY <3>1, <3>2 DEF OthersStay, RowsAt, Starting, Measuring, Reported,
               Windows
    <2> QED
        BY <2>2, <2>3 DEF RowsInv
<1> QED
    BY <1>1, <1>2

-----------------------------------------------------------------------------
(* No inference without a token.                                           *)
LEMMA OwnPaid ==
    ASSUME TypeInv, PaidInv, NEW p \in Procs,
           Step(p) \/ HandleSignal(p) \/ Kill(p) \/ StartAgain(p)
    PROVE  PaidAt(p)' /\ past'.unpaid = FALSE
<1>t. /\ DOMAIN at = Procs /\ DOMAIN throttle = Procs /\ DOMAIN g_stop = Procs
      /\ DOMAIN stage = Procs /\ stage[p] \in Stages
      /\ at[p] \in Places /\ throttle[p] \in Throttles /\ past \in Histories
    BY DEF TypeInv, ControlType, WorkType
<1>r. PaidAt(p) /\ past.unpaid = FALSE
    BY DEF PaidInv
<1>e. ASSUME NEW how, Ends(p, how)
      PROVE  PaidAt(p)' /\ past'.unpaid = FALSE
    <2>1. at'[p] = "over"
        BY <1>e, <1>t DEF Ends, Set
    <2>2. past'.unpaid = past.unpaid
        BY <1>e, <1>t DEF Ends, Histories
    <2> QED
        BY <2>1, <2>2, <1>r DEF PaidAt
<1>a. Aborts(p) => PaidAt(p)' /\ past'.unpaid = FALSE
    BY <1>e DEF Aborts
<1> USE <1>t, <1>r DEF Go, Set, controlVars, workVars, barrierVars, ModelVars,
        BarrierVars, LoopVars, GoThrough, PaidAt, Throttled
<1>1. CASE RunScript(p)
    BY <1>1 DEF RunScript, Histories
<1>2. CASE TRTModel(p)
    BY <1>2 DEF TRTModel
<1>3. CASE LoadEngine(p)
    BY <1>3, <1>e, <1>a DEF LoadEngine
<1>4. CASE BuildEngine(p)
    BY <1>4, <1>a DEF BuildEngine
<1>5. CASE OpenEngine(p)
    BY <1>5 DEF OpenEngine, Histories
<1>6. CASE SaveEngine(p)
    BY <1>6, <1>a DEF SaveEngine
<1>7. CASE InitContext(p)
    BY <1>7, <1>a DEF InitContext, ModelDone
<1>8. CASE BuildEngineOnly(p)
    BY <1>8, <1>e DEF BuildEngineOnly
<1>9. CASE AcquireSharedSyncState(p)
    BY <1>9, <1>a DEF AcquireSharedSyncState, Histories
<1>10. CASE InitSharedSyncState(p)
    BY <1>10 DEF InitSharedSyncState
<1>11. CASE Arrive(p)
    BY <1>11 DEF Arrive, Histories
<1>12. CASE Sync(p)
    BY <1>12 DEF Sync, After, Stages
<1>13. CASE Wake(p)
    BY <1>13 DEF Wake, After, Stages
<1>14. CASE WarmUp(p)
    BY <1>14, <1>a DEF WarmUp, After
<1>15. CASE OpenOutput(p)
    BY <1>15, <1>e DEF OpenOutput
<1>16. CASE WindowBegins(p)
    BY <1>16 DEF WindowBegins, After
<1>17. CASE StartInference(p)
    BY <1>17 DEF StartInference
<1>18. CASE Refill(p)
    BY <1>18 DEF Refill
<1>19. CASE TakesToken(p)
    BY <1>19 DEF TakesToken, Throttles
<1>20. CASE AcquireStopped(p)
    BY <1>20 DEF AcquireStopped
<1>21. CASE AfterAcquire(p)
    BY <1>21 DEF AfterAcquire, AcquiredThen
<1>22. CASE Infer(p)
    <2>1. CASE Aborts(p)
        BY <1>a, <2>1
    <2>2. CASE ~Aborts(p)
        <3>1. at[p] = "run" /\ (at'[p] = "row" \/ at'[p] = "infer")
            BY <1>22, <2>2 DEF Infer
        <3>2. ~(Throttled /\ ~throttle[p].paid)
            BY <3>1
        <3>3. past' = [past EXCEPT !.unpaid =
                         past.unpaid \/ (Throttled /\ ~throttle[p].paid)]
            BY <1>22, <2>2, Zenon DEF Infer
        <3>4. past'.unpaid = (past.unpaid \/ (Throttled /\ ~throttle[p].paid))
            BY <3>3 DEF Histories
        <3> QED
            BY <3>1, <3>2, <3>4
    <2> QED
        BY <2>1, <2>2
<1>23. CASE WriteRow(p)
    BY <1>23 DEF WriteRow, After
<1>24. CASE LoopEnds(p)
    BY <1>24, <1>e, <1>a DEF LoopEnds
<1>25. CASE HandleSignal(p)
    BY <1>25 DEF HandleSignal
<1>26. CASE Kill(p)
    BY <1>26, <1>e DEF Kill
<1>27. CASE StartAgain(p)
    BY <1>27 DEF StartAgain
<1> QED
    BY <1>1, <1>2, <1>3, <1>4, <1>5, <1>6, <1>7, <1>8, <1>9, <1>10, <1>11, <1>12, <1>13, <1>14, <1>15, <1>16, <1>17, <1>18, <1>19, <1>20, <1>21, <1>22, <1>23, <1>24, <1>25, <1>26, <1>27
       DEF Step, Model, ProcessSync, Loop

LEMMA PaidStep ==
    ASSUME TypeInv, PaidInv, [Next]_vars
    PROVE  PaidInv'
<1>1. CASE UNCHANGED vars
    BY <1>1 DEF vars, controlVars, workVars, PaidInv, PaidAt, Throttled
<1>2. CASE Next
    <2>1. PICK p \in Procs : Step(p) \/ HandleSignal(p) \/ Kill(p) \/ StartAgain(p)
        BY <1>2 DEF Next
    <2>2. PaidAt(p)' /\ past'.unpaid = FALSE
        BY <2>1, OwnPaid
    <2>3. ASSUME NEW q \in Procs \ {p}
          PROVE  PaidAt(q)'
        <3>1. OthersStay(p)
            BY <2>1, Others
        <3>2. PaidAt(q)
            BY DEF PaidInv
        <3> QED
            BY <3>1, <3>2 DEF OthersStay, PaidAt, Throttled
    <2> QED
        BY <2>2, <2>3 DEF PaidInv
<1> QED
    BY <1>1, <1>2

-----------------------------------------------------------------------------
(* A part of an engine is in the hands of its writer, or torn.             *)
LEMMA QuietEngine ==
    ASSUME EngineInv, NEW p \in Procs, OthersStay(p), at[p] # "write",
           engine \in Engines, engine' = engine, past'.torn = past.torn
    PROVE  EngineInv'
    BY DEF EngineInv, OthersStay, Engines

LEMMA EndsEngine ==
    ASSUME TypeInv, EngineInv, NEW p \in Procs, OthersStay(p), NEW how, Ends(p, how)
    PROVE  EngineInv'
<1>t. engine \in Engines /\ past \in Histories
    BY DEF TypeInv, SharedType
<1>1. past'.torn = (past.torn \/ p \in engine.writers)
    BY <1>t, Zenon DEF Ends, Histories
<1>2. /\ engine'.writers = engine.writers \ {p} /\ engine'.file = engine.file
      /\ engine'.mixed = engine.mixed
    BY <1>t DEF Ends, Engines
<1>3. \A q \in engine.writers \ {p} : at'[q] = "write"
    BY <1>t DEF EngineInv, OthersStay, Engines
<1>4. p \in engine.writers => past'.torn = TRUE
    BY <1>1
<1>5. past.torn = TRUE => past'.torn = TRUE
    BY <1>1
<1>6. p \notin engine.writers => engine'.writers = engine.writers
    BY <1>2
<1> QED
    BY <1>2, <1>3, <1>4, <1>5, <1>6 DEF EngineInv

LEMMA RunScriptEngine ==
    ASSUME TypeInv, EngineInv, NEW p \in Procs, OthersStay(p), RunScript(p)
    PROVE  EngineInv'
<1>t. engine \in Engines /\ past \in Histories
    BY DEF TypeInv, SharedType
<1>1. CASE Rebuilds
    BY <1>1 DEF RunScript, EngineInv
<1>2. CASE ~Rebuilds
    <2>1. past'.torn = (past.torn \/ (Rebuilds /\ Disturbs(p)))
        BY <1>t, Zenon DEF RunScript, Histories
    <2>2. past'.torn = past.torn
        BY <1>2, <1>t, <2>1 DEF Histories
    <2>3. engine' = engine /\ at[p] # "write"
        BY <1>2 DEF RunScript, Go
    <2> QED
        BY <2>2, <2>3, <1>t, QuietEngine
<1> QED
    BY <1>1, <1>2

LEMMA OpenEngineStep ==
    ASSUME TypeInv, EngineInv, NEW p \in Procs, OthersStay(p), OpenEngine(p)
    PROVE  EngineInv'
<1>t. engine \in Engines /\ past \in Histories /\ DOMAIN at = Procs
    BY DEF TypeInv, SharedType, ControlType
<1>1. past'.torn = (past.torn \/ Disturbs(p))
    BY <1>t, Zenon DEF OpenEngine, Histories
<1>2. /\ engine'.file = "partial" /\ engine'.writers = engine.writers \cup {p}
      /\ engine'.mixed = (engine.writers # {})
    BY DEF OpenEngine
<1>3. at[p] = "save" /\ at'[p] = "write"
    BY <1>t DEF OpenEngine, Go, Set
<1>4. \A q \in engine'.writers : at'[q] = "write"
    BY <1>2, <1>3, <1>t DEF EngineInv, OthersStay, Engines
<1>5. engine'.mixed = TRUE => past'.torn = TRUE
    <2>1. ASSUME NEW q \in engine.writers
          PROVE  Disturbs(p)
        BY <2>1, <1>3, <1>t DEF EngineInv, Disturbs, Engines
    <2> QED
        BY <2>1, <1>1, <1>2
<1> QED
    BY <1>2, <1>4, <1>5 DEF EngineInv

LEMMA SaveEngineStep ==
    ASSUME TypeInv, EngineInv, NEW p \in Procs, OthersStay(p), SaveEngine(p),
           ~Aborts(p)
    PROVE  EngineInv'
<1>t. engine \in Engines /\ past \in Histories
    BY DEF TypeInv, SharedType
<1>1. past' = past
    BY DEF SaveEngine
<1>2. CASE p \notin engine.writers
    <2>1. engine' = engine
        BY <1>2 DEF SaveEngine
    <2> QED
        BY <1>1, <1>2, <2>1, <1>t DEF EngineInv, OthersStay, Engines
<1>3. CASE p \in engine.writers
    <2> DEFINE Saved(f) == [engine EXCEPT !.file = f, !.writers = @ \ {p}]
    <2>0. engine' \in {Saved(f) :
             f \in IF engine.mixed THEN {"whole", "partial"} ELSE {"whole"}}
        BY <1>3, Zenon DEF SaveEngine
    <2> HIDE DEF Saved
    <2>1. PICK f \in {"whole", "partial"} :
             engine' = Saved(f) /\ (f = "partial" => engine.mixed)
        BY <2>0, SMT
    <2> USE DEF Saved
    <2>2. /\ engine'.writers = engine.writers \ {p} /\ engine'.file = f
          /\ engine'.mixed = engine.mixed
        BY <2>1, <1>t DEF Engines
    <2>3. \A q \in engine'.writers : at'[q] = "write"
        BY <2>2, <1>t DEF EngineInv, OthersStay, Engines
    <2> QED
        BY <2>1, <2>2, <2>3, <1>1, <1>t DEF EngineInv, Engines
<1> QED
    BY <1>2, <1>3

LEMMA EngineStep ==
    ASSUME TypeInv, EngineInv, [Next]_vars
    PROVE  EngineInv'
<1>t. engine \in Engines /\ past \in Histories
    BY DEF TypeInv, SharedType
<1>1. CASE UNCHANGED vars
    BY <1>1 DEF vars, controlVars, EngineInv
<1>2. CASE Next
    <2>1. PICK p \in Procs : Step(p) \/ HandleSignal(p) \/ Kill(p) \/ StartAgain(p)
        BY <1>2 DEF Next
    <2>2. OthersStay(p)
        BY <2>1, Others
    <2>e. \A how : Ends(p, how) => EngineInv'
        BY <2>2, EndsEngine
    <2>a. Aborts(p) => EngineInv'
        BY <2>e DEF Aborts
    <2>q. at[p] # "write" /\ engine' = engine /\ past'.torn = past.torn => EngineInv'
        BY <2>2, <1>t, QuietEngine
    <2>3. CASE RunScript(p)
        BY <2>2, <2>3, RunScriptEngine
    <2>4. CASE TRTModel(p) \/ LoadEngine(p) \/ BuildEngine(p) \/ InitContext(p)
                  \/ BuildEngineOnly(p)
        BY <2>4, <2>e, <2>a, <2>q
           DEF TRTModel, LoadEngine, BuildEngine, InitContext, BuildEngineOnly, Go
    <2>5. CASE OpenEngine(p)
        BY <2>2, <2>5, OpenEngineStep
    <2>6. CASE SaveEngine(p)
        BY <2>2, <2>6, <2>a, SaveEngineStep
    <2>7. CASE AcquireSharedSyncState(p)
        BY <2>7, <2>a, <2>q, <1>t
           DEF AcquireSharedSyncState, Go, BarrierVars, Histories
    <2>8. CASE InitSharedSyncState(p) \/ Sync(p) \/ Wake(p)
        BY <2>8, <2>q DEF InitSharedSyncState, Sync, Wake, Go, BarrierVars
    <2>9. CASE Arrive(p)
        BY <2>9, <2>q, <1>t DEF Arrive, Go, BarrierVars, Histories
    <2>10. CASE WarmUp(p) \/ OpenOutput(p) \/ WindowBegins(p) \/ LoopEnds(p)
        BY <2>10, <2>e, <2>a, <2>q
           DEF WarmUp, OpenOutput, WindowBegins, LoopEnds, GoThrough, Go
    <2>11. CASE StartInference(p) \/ Refill(p) \/ TakesToken(p)
                   \/ AcquireStopped(p) \/ AfterAcquire(p) \/ WriteRow(p)
        BY <2>11, <2>q
           DEF StartInference, Refill, TakesToken, AcquireStopped, AfterAcquire,
               WriteRow, GoThrough, Go, LoopVars
    <2>12. CASE Infer(p)
        BY <2>12, <2>a, <2>q, <1>t DEF Infer, Go, LoopVars, Histories
    <2>13. CASE HandleSignal(p)
        BY <2>2, <2>13, <1>t
           DEF HandleSignal, controlVars, EngineInv
    <2>14. CASE Kill(p) \/ StartAgain(p)
        BY <2>14, <2>e, <2>q DEF Kill, StartAgain, Go
    <2> QED
        BY <2>1, <2>3, <2>4, <2>5, <2>6, <2>7, <2>8, <2>9, <2>10, <2>11, <2>12,
           <2>13, <2>14
           DEF Step, Model, ProcessSync, Loop
<1> QED
    BY <1>1, <1>2

-----------------------------------------------------------------------------
(* The barrier.  A process that goes on, or that others let pass, adds     *)
(* nothing to the count.                                                   *)
LEMMA ProgressType ==
    ASSUME TypeInv, NEW p \in Procs
    PROVE  Passed(p) \in Nat /\ Arrivals(p) \in Nat
<1>1. window[p] \in Nat /\ stage[p] \in Stages
    BY SetupType DEF TypeInv, ControlType, Windows
<1>2. Passed(p) \in Nat
    BY <1>1 DEF Passed, Stages
<1> QED
    BY <1>2 DEF Arrivals

LEMMA OthersProgress ==
    ASSUME NEW p \in Procs, OthersStay(p), NEW q \in Procs \ {p}
    PROVE  Passed(q)' = Passed(q) /\ Arrivals(q)' = Arrivals(q)
<1>1. at'[q] = at[q] /\ stage'[q] = stage[q] /\ window'[q] = window[q]
    BY DEF OthersStay
<1>2. Passed(q)' = Passed(q)
    BY <1>1 DEF Passed
<1> QED
    BY <1>1, <1>2 DEF Arrivals

LEMMA OthersSegment ==
    ASSUME SegmentInv, NEW p \in Procs, OthersStay(p), NEW q \in Procs \ {p},
           past'.users = past.users,
           at[q] = "init_shm" => shm'[segment[q]].ready = shm[segment[q]].ready
    PROVE  SegmentAt(q)'
<1>1. SegmentAt(q)
    BY DEF SegmentInv
<1>2. at'[q] = at[q] /\ segment'[q] = segment[q] /\ setup' = setup
    BY DEF OthersStay
<1> QED
    BY <1>1, <1>2 DEF SegmentAt, Dynamic

LEMMA ProgressKeeps ==
    ASSUME TypeInv, StepInv, NEW p \in Procs, OthersStay(p), TypeInv',
           past'.users = past.users, past'.raced = past.raced,
           Len(shm') = Len(shm),
           \A s \in 1..Len(shm) :
              shm'[s].count = shm[s].count /\ shm'[s].ready = shm[s].ready,
           SegmentAt(p)', at'[p] # "init_shm",
           segment'[p] = segment[p],
           segment[p] # 0 =>
              /\ Arrivals(p)' = Arrivals(p)
              /\ \/ Passed(p)' = Passed(p)
                 \/ /\ Passed(p)' = Arrivals(p)
                    /\ Arrivals(p) = Passed(p) + 1
                    /\ shm[segment[p]].count >= 2 * Arrivals(p)
    PROVE  StepInv'
<1>s. \A q \in Procs : segment'[q] = segment[q] /\ segment[q] \in 0..Len(shm)
    BY DEF OthersStay, TypeInv, SharedType
<1>n. \A q \in Procs : Passed(q) \in Nat /\ Arrivals(q) \in Nat
    BY ProgressType
<1>o. \A q \in Procs \ {p} : Passed(q)' = Passed(q) /\ Arrivals(q)' = Arrivals(q)
    BY OthersProgress
<1>c. \A q \in Procs : segment[q] # 0 =>
          /\ shm'[segment[q]].count = shm[segment[q]].count
          /\ shm'[segment[q]].ready = shm[segment[q]].ready
          /\ shm[segment[q]].count \in Nat
    <2> TAKE q \in Procs
    <2> HAVE segment[q] # 0
    <2>1. segment[q] \in 1..Len(shm)
        BY <1>s
    <2>2. shm[segment[q]] \in Segments
        BY <2>1 DEF TypeInv, SharedType
    <2> QED
        BY <2>1, <2>2 DEF Segments
<1>1. SegmentInv'
    <2>1. \A q \in Procs \ {p} : SegmentAt(q)'
        <3> TAKE q \in Procs \ {p}
        <3>1. at[q] = "init_shm" => segment[q] # 0
            BY DEF StepInv, SegmentInv, SegmentAt
        <3> QED
            BY <3>1, <1>c, OthersSegment DEF StepInv
    <2>2. \A q, r \in Procs :
             at'[q] = "init_shm" /\ at'[r] = "init_shm" /\ segment'[q] = segment'[r]
                 => q = r
        BY <1>s DEF OthersStay, StepInv, SegmentInv
    <2> QED
        BY <2>1, <2>2 DEF StepInv, SegmentInv
<1>2. AloneInv'
    <2> SUFFICES ASSUME NEW q \in Procs, segment[q] # 0,
                        segment[q] \notin past.raced,
                        Len(past.users[segment[q]]) = 1
                 PROVE  shm[segment[q]].count = Arrivals(q)' /\ Passed(q)' = 0
        BY <1>s, <1>c DEF AloneInv
    <2>1. shm[segment[q]].count = Arrivals(q) /\ Passed(q) = 0
        BY DEF StepInv, AloneInv
    <2> QED
        BY <2>1, <1>o, <1>n
<1>3. PairInv'
    <2> SUFFICES ASSUME NEW q \in Procs, NEW r \in Procs, q # r,
                        segment[q] # 0, segment[q] = segment[r],
                        segment[q] \notin past.raced,
                        Len(past.users[segment[q]]) = 2
                 PROVE  /\ shm[segment[q]].count = Arrivals(q)' + Arrivals(r)'
                        /\ Passed(q)' <= Arrivals(r)'
        BY <1>s, <1>c DEF PairInv
    <2>1. /\ shm[segment[q]].count = Arrivals(q) + Arrivals(r)
          /\ Passed(q) <= Arrivals(r)
        BY DEF StepInv, PairInv
    <2>2. Arrivals(q)' = Arrivals(q) /\ Arrivals(r)' = Arrivals(r)
        BY <1>o
    <2>3. Passed(q)' <= Arrivals(r)
        <3>1. CASE q # p
            BY <2>1, <3>1, <1>o
        <3>2. CASE q = p /\ Passed(p)' = Passed(p)
            BY <2>1, <3>2
        <3>3. CASE q = p /\ Passed(p)' = Arrivals(p)
            <4>1. CASE Passed(p)' = Passed(p)
                BY <2>1, <3>3, <4>1
            <4>2. CASE shm[segment[p]].count >= 2 * Arrivals(p)
                BY <2>1, <3>3, <4>2, <1>n
            <4> QED
                BY <3>3, <4>1, <4>2
        <3> QED
            BY <3>1, <3>2, <3>3
    <2> QED
        BY <2>1, <2>2, <2>3
<1> QED
    BY <1>1, <1>2, <1>3 DEF StepInv

(* A process that ends leaves its segment.                                 *)
LEMMA LeavingKeeps ==
    ASSUME TypeInv, StepInv, NEW p \in Procs, OthersStay(p),
           past'.users = past.users, past'.raced = past.raced, shm' = shm,
           segment'[p] = 0, at'[p] = "over"
    PROVE  StepInv'
<1>o. \A q \in Procs \ {p} : Passed(q)' = Passed(q) /\ Arrivals(q)' = Arrivals(q)
                                /\ segment'[q] = segment[q] /\ at'[q] = at[q]
    BY OthersProgress DEF OthersStay
<1>1. SegmentInv'
    <2>1. \A q \in Procs \ {p} : SegmentAt(q)'
        BY OthersSegment DEF StepInv
    <2>2. SegmentAt(p)'
        BY DEF SegmentAt, Barrier
    <2> QED
        BY <2>1, <2>2, <1>o DEF StepInv, SegmentInv
<1>2. AloneInv'
    BY <1>o DEF StepInv, AloneInv
<1>3. PairInv'
    BY <1>o DEF StepInv, PairInv
<1> QED
    BY <1>1, <1>2, <1>3 DEF StepInv

(* An arrival is counted.                                                  *)
LEMMA ArrivingKeeps ==
    ASSUME TypeInv, StepInv, NEW p \in Procs, OthersStay(p), Arrive(p)
    PROVE  StepInv'
<1> DEFINE s == segment[p]
<1>t. /\ shm \in Seq(Segments) /\ past \in Histories
      /\ segment \in [Procs -> 0..Len(shm)]
      /\ DOMAIN at = Procs
    BY DEF TypeInv, SharedType, ControlType
<1>a. at[p] = "sync" /\ at'[p] = "counted"
    BY <1>t DEF Arrive, Go, Set
<1>b. s \in 1..Len(shm) /\ shm[s] \in Segments
    BY <1>a, SegmentStep DEF StepInv, Barrier
<1>c. shm' = [shm EXCEPT ![s] = Arrived(shm[s], p)]
    BY <1>a, SegmentStep DEF StepInv, Barrier
<1>d. /\ Len(shm') = Len(shm)
      /\ shm'[s].count = shm[s].count + 1 /\ shm'[s].ready = shm[s].ready
      /\ \A t \in 1..Len(shm) : t # s => shm'[t] = shm[t]
    BY <1>b, <1>c, <1>t, SegmentChanges
<1>p. /\ past'.users = past.users
      /\ past'.raced = IF shm[s].ready THEN past.raced ELSE past.raced \cup {s}
    BY <1>t DEF Arrive, Histories
<1>u. segment' = segment /\ stage' = stage /\ window' = window /\ setup' = setup
    BY DEF Arrive, BarrierVars
<1>n. \A q \in Procs : Passed(q) \in Nat /\ Arrivals(q) \in Nat
    BY ProgressType
<1>o. \A q \in Procs \ {p} : Passed(q)' = Passed(q) /\ Arrivals(q)' = Arrivals(q)
    BY OthersProgress
<1>m. Passed(p)' = Passed(p) /\ Arrivals(p)' = Arrivals(p) + 1
    <2>1. Passed(p)' = Passed(p)
        BY <1>a, <1>u DEF Passed, Barrier
    <2> QED
        BY <1>a, <2>1, <1>n DEF Arrivals
<1>i. \A q \in Procs : segment[q] = s =>
          \E i \in 1..Len(past.users[s]) : past.users[s][i] = q
    BY <1>b DEF StepInv, SegmentInv, SegmentAt
<1> HIDE DEF s
<1>1. SegmentInv'
    <2>1. \A q \in Procs \ {p} : SegmentAt(q)'
        <3> TAKE q \in Procs \ {p}
        <3>1. at[q] = "init_shm" => segment[q] \in 1..Len(shm)
            BY <1>t DEF StepInv, SegmentInv, SegmentAt
        <3>2. at[q] = "init_shm" => shm'[segment[q]].ready = shm[segment[q]].ready
            BY <3>1, <1>d
        <3> QED
            BY <3>2, <1>p, OthersSegment DEF StepInv
    <2>2. SegmentAt(p)'
        BY <1>a, <1>u, <1>p DEF StepInv, SegmentInv, SegmentAt, Early, Dynamic, Barrier
    <2>3. \A q, r \in Procs :
             at'[q] = "init_shm" /\ at'[r] = "init_shm" /\ segment'[q] = segment'[r]
                 => q = r
        BY <1>a, <1>u DEF OthersStay, StepInv, SegmentInv
    <2>4. \A t \in 1..Len(shm) :
             t \notin past'.raced /\ shm'[t].ready = FALSE => shm'[t].count = 0
        BY <1>d, <1>p DEF StepInv, SegmentInv
    <2> QED
        BY <2>1, <2>2, <2>3, <2>4, <1>d, <1>p DEF StepInv, SegmentInv
<1>2. AloneInv'
    <2> SUFFICES ASSUME NEW q \in Procs, segment[q] # 0,
                        segment[q] \notin past.raced,
                        Len(past.users[segment[q]]) = 1
                 PROVE  /\ shm'[segment[q]].count = Arrivals(q)'
                        /\ Passed(q)' = 0
        BY <1>p, <1>u DEF AloneInv
    <2>1. shm[segment[q]].count = Arrivals(q) /\ Passed(q) = 0
        BY DEF StepInv, AloneInv
    <2>2. CASE segment[q] = s
        <3>1. q = p
            BY <2>2, <1>i DEF s
        <3> QED
            BY <2>1, <2>2, <3>1, <1>d, <1>m
    <2>3. CASE segment[q] # s
        <3>1. q # p /\ segment[q] \in 1..Len(shm)
            BY <2>3, <1>t DEF s
        <3> QED
            BY <2>1, <2>3, <3>1, <1>d, <1>o
    <2> QED
        BY <2>2, <2>3
<1>3. PairInv'
    <2> SUFFICES ASSUME NEW q \in Procs, NEW r \in Procs, q # r,
                        segment[q] # 0, segment[q] = segment[r],
                        segment[q] \notin past.raced,
                        Len(past.users[segment[q]]) = 2
                 PROVE  /\ shm'[segment[q]].count = Arrivals(q)' + Arrivals(r)'
                        /\ Passed(q)' <= Arrivals(r)'
        BY <1>p, <1>u DEF PairInv
    <2>1. /\ shm[segment[q]].count = Arrivals(q) + Arrivals(r)
          /\ Passed(q) <= Arrivals(r)
        BY DEF StepInv, PairInv
    <2>2. CASE segment[q] = s
        <3>1. p = q \/ p = r
            <4>1. segment[q] = s /\ segment[r] = s /\ segment[p] = s
                BY <2>2 DEF s
            <4>2. Len(past.users[s]) = 2
                BY <4>1
            <4>3. PICK i \in 1..2 : past.users[s][i] = q
                BY <4>1, <4>2, <1>i
            <4>4. PICK j \in 1..2 : past.users[s][j] = r
                BY <4>1, <4>2, <1>i
            <4>5. PICK k \in 1..2 : past.users[s][k] = p
                BY <4>1, <4>2, <1>i
            <4>6. i # j
                BY <4>3, <4>4
            <4>7. k = i \/ k = j
                BY <4>6
            <4> QED
                BY <4>3, <4>4, <4>5, <4>7
        <3>2. shm'[segment[q]].count = Arrivals(q) + Arrivals(r) + 1
            BY <2>1, <2>2, <1>d
        <3>3. CASE p = q
            BY <2>1, <3>2, <3>3, <1>m, <1>o, <1>n
        <3>4. CASE p = r
            BY <2>1, <3>2, <3>4, <1>m, <1>o, <1>n
        <3> QED
            BY <3>1, <3>3, <3>4
    <2>3. CASE segment[q] # s
        <3>1. q # p /\ r # p /\ segment[q] \in 1..Len(shm)
            BY <2>3, <1>t DEF s
        <3> QED
            BY <2>1, <2>3, <3>1, <1>d, <1>o
    <2> QED
        BY <2>2, <2>3
<1> QED
    BY <1>1, <1>2, <1>3 DEF StepInv

(* Initializing resets a count that is zero already, unless somebody has   *)
(* used the segment too early.                                             *)
LEMMA InitializingKeeps ==
    ASSUME TypeInv, RowsInv, StepInv, NEW p \in Procs, OthersStay(p),
           InitSharedSyncState(p)
    PROVE  StepInv'
<1> DEFINE s == segment[p]
<1>t. /\ shm \in Seq(Segments) /\ segment \in [Procs -> 0..Len(shm)]
      /\ DOMAIN at = Procs
    BY DEF TypeInv, SharedType, ControlType
<1>a. at[p] = "init_shm" /\ at'[p] = "sync"
    BY <1>t DEF InitSharedSyncState, Go, Set
<1>b. s \in 1..Len(shm) /\ shm[s].ready = FALSE
    BY <1>a, SegmentStep DEF StepInv, SegmentInv, SegmentAt
<1>c. shm' = [shm EXCEPT ![s] = Initialized]
    BY <1>a, SegmentStep DEF StepInv
<1>d. /\ Len(shm') = Len(shm)
      /\ shm'[s].count = 0 /\ shm'[s].ready = TRUE
      /\ \A t \in 1..Len(shm) : t # s => shm'[t] = shm[t]
    BY <1>b, <1>c, <1>t DEF Initialized
<1>z. s \notin past.raced => shm[s].count = 0
    BY <1>b DEF StepInv, SegmentInv
<1>k. \A t \in 1..Len(shm) : t \notin past.raced => shm'[t].count = shm[t].count
    BY <1>d, <1>z
<1>u. segment' = segment /\ stage' = stage /\ past' = past /\ setup' = setup
    BY DEF InitSharedSyncState, BarrierVars
<1>o. \A q \in Procs : Passed(q)' = Passed(q) /\ Arrivals(q)' = Arrivals(q)
    <2>1. stage[p] = "model"
        BY <1>a DEF RowsInv, RowsAt, Early
    <2>2. Passed(p)' = Passed(p) /\ Arrivals(p)' = Arrivals(p)
        BY <1>a, <1>u, <2>1 DEF Passed, Arrivals, Barrier, InWindow
    <2> QED
        BY <2>2, OthersProgress
<1>r. \A q \in Procs : segment[q] # 0 => segment[q] \in 1..Len(shm)
    BY <1>t
<1> HIDE DEF s
<1>1. SegmentInv'
    <2>1. \A q \in Procs \ {p} : SegmentAt(q)'
        <3> TAKE q \in Procs \ {p}
        <3>1. at[q] = "init_shm" => segment[q] \in 1..Len(shm) /\ segment[q] # s
            BY <1>t, <1>a DEF StepInv, SegmentInv, SegmentAt, s
        <3>2. at[q] = "init_shm" => shm'[segment[q]].ready = shm[segment[q]].ready
            BY <3>1, <1>d
        <3> QED
            BY <3>2, <1>u, OthersSegment DEF StepInv
    <2>2. SegmentAt(p)'
        BY <1>a, <1>u DEF StepInv, SegmentInv, SegmentAt, Early, Dynamic, Barrier
    <2>3. \A q, r \in Procs :
             at'[q] = "init_shm" /\ at'[r] = "init_shm" /\ segment'[q] = segment'[r]
                 => q = r
        BY <1>a, <1>u DEF OthersStay, StepInv, SegmentInv
    <2>4. \A t \in 1..Len(shm) :
             t \notin past'.raced /\ shm'[t].ready = FALSE => shm'[t].count = 0
        BY <1>d, <1>u DEF StepInv, SegmentInv
    <2> QED
        BY <2>1, <2>2, <2>3, <2>4, <1>d, <1>u DEF StepInv, SegmentInv
<1>2. AloneInv'
    BY <1>u, <1>o, <1>k, <1>r DEF StepInv, AloneInv
<1>3. PairInv'
    BY <1>u, <1>o, <1>k, <1>r DEF StepInv, PairInv
<1> QED
    BY <1>1, <1>2, <1>3 DEF StepInv

(* The creator of a segment is alone; the second joins it at the start.    *)
LEMMA CreatingKeeps ==
    ASSUME TypeInv, StepInv, NEW p \in Procs, OthersStay(p),
           at[p] = "attach", at'[p] = "init_shm", stage' = stage,
           shm' = Append(shm, [count |-> 0, mutex |-> {}, ready |-> FALSE]),
           segment'[p] = Len(shm) + 1, past'.raced = past.raced,
           past'.users = Append(past.users, <<p>>)
    PROVE  StepInv'
<1> DEFINE n == Len(shm) + 1
<1>t. /\ shm \in Seq(Segments) /\ segment \in [Procs -> 0..Len(shm)]
      /\ past.users \in Seq(Seq(Procs)) /\ Len(shm) \in Nat
      /\ Len(past.users) = Len(shm)
    BY DEF TypeInv, SharedType, Histories, StepInv, SegmentInv
<1>d. /\ Len(shm') = n /\ Len(past'.users) = n
      /\ shm'[n] = [count |-> 0, mutex |-> {}, ready |-> FALSE]
      /\ past'.users[n] = <<p>>
      /\ \A t \in 1..Len(shm) : shm'[t] = shm[t] /\ past'.users[t] = past.users[t]
    BY <1>t
<1>e. shm'[n].count = 0 /\ shm'[n].ready = FALSE /\ Len(past'.users[n]) = 1
      /\ past'.users[n][1] = p
    BY <1>d
<1>o. \A q \in Procs \ {p} :
          /\ Passed(q)' = Passed(q) /\ Arrivals(q)' = Arrivals(q)
          /\ segment'[q] = segment[q] /\ at'[q] = at[q] /\ segment[q] \in 0..Len(shm)
    BY <1>t, OthersProgress DEF OthersStay
<1>m. Passed(p)' = 0 /\ Arrivals(p)' = 0
    BY DEF Passed, Arrivals, Barrier, InWindow
<1>n. n \in Nat /\ n > Len(shm) /\ n # 0 /\ 1..n = 1..Len(shm) \cup {n}
      /\ segment'[p] = n
    BY <1>t
<1>x. \A q \in Procs \ {p} : segment'[q] # n
    BY <1>o, <1>t
<1> HIDE DEF n
<1>1. SegmentInv'
    <2>1. ASSUME NEW q \in Procs \ {p}
          PROVE  SegmentAt(q)'
        <3>1. SegmentAt(q)
            BY DEF StepInv, SegmentInv
        <3>2. setup' = setup
            BY DEF OthersStay
        <3>3. segment[q] # 0 => segment[q] \in 1..Len(shm)
            BY <1>o
        <3>4. segment[q] # 0 =>
                 /\ past'.users[segment[q]] = past.users[segment[q]]
                 /\ shm'[segment[q]] = shm[segment[q]]
            BY <1>d, <3>3
        <3> QED
            BY <3>1, <3>2, <3>4, <1>o DEF SegmentAt, Dynamic, Barrier
    <2>2. SegmentAt(p)'
        <3>1. Dynamic'
            BY DEF StepInv, SegmentInv, SegmentAt, OthersStay, Dynamic
        <3>2. \E i \in 1..Len(past'.users[n]) : past'.users[n][i] = p
            <4>1. Len(past'.users[n]) = 1 /\ past'.users[n][1] = p
                BY <1>e
            <4>2. 1 \in 1..1
                OBVIOUS
            <4> QED
                BY <4>1, <4>2, Zenon
        <3>3. /\ at'[p] \notin Early \ {"init_shm"} /\ at'[p] # "over"
              /\ at'[p] # "attach"
            BY DEF Early
        <3> QED
            BY <1>e, <1>n, <3>1, <3>2, <3>3 DEF SegmentAt
    <2>3. \A q, r \in Procs :
             at'[q] = "init_shm" /\ at'[r] = "init_shm" /\ segment'[q] = segment'[r]
                 => q = r
        <3> SUFFICES ASSUME NEW q \in Procs, NEW r \in Procs,
                            at'[q] = "init_shm", at'[r] = "init_shm",
                            segment'[q] = segment'[r]
                     PROVE  q = r
            OBVIOUS
        <3>1. CASE q = p \/ r = p
            BY <3>1, <1>n, <1>x
        <3>2. CASE q # p /\ r # p
            BY <3>2, <1>o DEF StepInv, SegmentInv
        <3> QED
            BY <3>1, <3>2
    <2>4. \A t \in 1..n : Len(past'.users[t]) > 0
        BY <1>d, <1>e, <1>n DEF StepInv, SegmentInv
    <2>5. \A t \in 1..n :
             t \notin past'.raced /\ shm'[t].ready = FALSE => shm'[t].count = 0
        BY <1>d, <1>e, <1>n DEF StepInv, SegmentInv
    <2> QED
        BY <2>1, <2>2, <2>3, <2>4, <2>5, <1>d DEF SegmentInv
<1>2. AloneInv'
    <2>1. ASSUME NEW q \in Procs \ {p}, segment[q] # 0, segment[q] \notin past.raced,
                 Len(past'.users[segment[q]]) = 1
          PROVE  shm'[segment[q]].count = Arrivals(q) /\ Passed(q) = 0
        <3>1. segment[q] \in 1..Len(shm)
            BY <2>1, <1>o
        <3> QED
            BY <2>1, <3>1, <1>d DEF StepInv, AloneInv
    <2>2. shm'[n].count = Arrivals(p)' /\ Passed(p)' = 0
        BY <1>m, <1>e
    <2>3. ASSUME NEW q \in Procs, segment'[q] # 0, segment'[q] \notin past'.raced,
                 Len(past'.users[segment'[q]]) = 1
          PROVE  shm'[segment'[q]].count = Arrivals(q)' /\ Passed(q)' = 0
        <3>1. CASE q = p
            BY <2>2, <3>1, <1>n
        <3>2. CASE q # p
            BY <2>1, <2>3, <3>2, <1>o
        <3> QED
            BY <3>1, <3>2
    <2> QED
        BY <2>3 DEF AloneInv
<1>3. PairInv'
    <2>1. ASSUME NEW q \in Procs \ {p}, NEW r \in Procs \ {p}, q # r,
                 segment[q] # 0, segment[q] = segment[r],
                 segment[q] \notin past.raced,
                 Len(past'.users[segment[q]]) = 2
          PROVE  /\ shm'[segment[q]].count = Arrivals(q) + Arrivals(r)
                 /\ Passed(q) <= Arrivals(r)
        <3>1. segment[q] \in 1..Len(shm)
            BY <2>1, <1>o
        <3> QED
            BY <2>1, <3>1, <1>d DEF StepInv, PairInv
    <2>2. ASSUME NEW q \in Procs, NEW r \in Procs, q # r, segment'[q] # 0,
                 segment'[q] = segment'[r]
          PROVE  q # p /\ r # p
        <3>1. \A x \in Procs \ {p} : segment'[x] # n
            BY <1>o, <1>n, <1>t
        <3> QED
            BY <2>2, <3>1, <1>n
    <2>3. ASSUME NEW q \in Procs, NEW r \in Procs, q # r, segment'[q] # 0,
                 segment'[q] = segment'[r], segment'[q] \notin past'.raced,
                 Len(past'.users[segment'[q]]) = 2
          PROVE  /\ shm'[segment'[q]].count = Arrivals(q)' + Arrivals(r)'
                 /\ Passed(q)' <= Arrivals(r)'
        <3>1. q # p /\ r # p
            BY <2>2, <2>3
        <3>2. segment'[q] = segment[q] /\ segment'[r] = segment[r]
            BY <3>1, <1>o
        <3>3. /\ Arrivals(q)' = Arrivals(q) /\ Arrivals(r)' = Arrivals(r)
              /\ Passed(q)' = Passed(q)
            BY <3>1, <1>o
        <3> QED
            BY <2>1, <2>3, <3>1, <3>2, <3>3
    <2> QED
        BY <2>3 DEF PairInv
<1> QED
    BY <1>1, <1>2, <1>3 DEF StepInv

LEMMA JoiningKeeps ==
    ASSUME TypeInv, RowsInv, StepInv, NEW p \in Procs, OthersStay(p),
           at[p] = "attach", at'[p] = "sync", stage' = stage, shm' = shm,
           NEW k \in 1..Len(shm), segment'[p] = k, past'.raced = past.raced,
           past'.users = [past.users EXCEPT ![k] = Append(past.users[k], p)]
    PROVE  StepInv'
<1>t. /\ shm \in Seq(Segments) /\ segment \in [Procs -> 0..Len(shm)]
      /\ past.users \in Seq(Seq(Procs)) /\ Len(shm) \in Nat
      /\ Len(past.users) = Len(shm)
    BY DEF TypeInv, SharedType, Histories, StepInv, SegmentInv
<1>w. past.users[k] \in Seq(Procs) /\ Len(past.users[k]) \in Nat
      /\ Len(past.users[k]) > 0
    BY <1>t DEF StepInv, SegmentInv
<1>d. /\ Len(past'.users) = Len(shm)
      /\ past'.users[k] = Append(past.users[k], p)
      /\ \A t \in 1..Len(shm) : t # k => past'.users[t] = past.users[t]
    BY <1>t
<1>e. /\ Len(past'.users[k]) = Len(past.users[k]) + 1
      /\ past'.users[k][Len(past.users[k]) + 1] = p
      /\ \A i \in 1..Len(past.users[k]) : past'.users[k][i] = past.users[k][i]
    BY <1>d, <1>w
<1>o. \A q \in Procs \ {p} :
          /\ Passed(q)' = Passed(q) /\ Arrivals(q)' = Arrivals(q)
          /\ segment'[q] = segment[q] /\ at'[q] = at[q]
          /\ segment[q] # 0 => segment[q] \in 1..Len(shm)
    <2>1. \A q \in Procs \ {p} :
             segment[q] # 0 => segment[q] \in 1..Len(shm)
        BY <1>t
    <2>2. \A q \in Procs \ {p} :
             segment'[q] = segment[q] /\ at'[q] = at[q]
        BY DEF OthersStay
    <2> QED
        BY <2>1, <2>2, OthersProgress
<1>n. \A q \in Procs : Passed(q) \in Nat /\ Arrivals(q) \in Nat
    BY ProgressType
<1>m. Passed(p)' = 0 /\ Arrivals(p)' = 0
    <2>1. stage'[p] = "model"
        BY DEF RowsInv, RowsAt, Early
    <2> QED
        BY <2>1 DEF Passed, Arrivals, Barrier
<1>u. \A q \in Procs \ {p} : segment[q] = k =>
          \E i \in 1..Len(past.users[k]) : past.users[k][i] = q
    BY DEF StepInv, SegmentInv, SegmentAt
<1>1. SegmentInv'
    <2>1. ASSUME NEW q \in Procs \ {p}
          PROVE  SegmentAt(q)'
        <3>1. SegmentAt(q)
            BY DEF StepInv, SegmentInv
        <3>2. setup' = setup
            BY DEF OthersStay
        <3>3. segment[q] # 0 =>
                 \E i \in 1..Len(past'.users[segment[q]]) :
                    past'.users[segment[q]][i] = q
            <4> SUFFICES ASSUME segment[q] # 0
                         PROVE  \E i \in 1..Len(past'.users[segment[q]]) :
                                   past'.users[segment[q]][i] = q
                OBVIOUS
            <4>1. CASE segment[q] = k
                <5>1. PICK i \in 1..Len(past.users[k]) : past.users[k][i] = q
                    BY <4>1, <1>u
                <5>2. i \in 1..Len(past'.users[k]) /\ past'.users[k][i] = q
                    BY <5>1, <1>e, <1>w
                <5> QED
                    BY <4>1, <5>2
            <4>2. CASE segment[q] # k
                <5>1. past'.users[segment[q]] = past.users[segment[q]]
                    BY <4>2, <1>d, <1>o
                <5> QED
                    BY <5>1, <3>1 DEF SegmentAt
            <4> QED
                BY <4>1, <4>2
        <3> QED
            BY <3>1, <3>2, <3>3, <1>o DEF SegmentAt, Dynamic, Barrier
    <2>2. SegmentAt(p)'
        <3>1. Dynamic'
            BY DEF StepInv, SegmentInv, SegmentAt, OthersStay, Dynamic
        <3>2. \E i \in 1..Len(past'.users[k]) : past'.users[k][i] = p
            <4>1. Len(past.users[k]) + 1 \in 1..Len(past'.users[k])
                BY <1>e, <1>w
            <4> QED
                BY <4>1, <1>e
        <3>3. /\ at'[p] \notin Early \ {"init_shm"} /\ at'[p] # "over"
              /\ at'[p] # "attach" /\ at'[p] # "init_shm" /\ k # 0
            BY DEF Early
        <3> QED
            BY <3>1, <3>2, <3>3 DEF SegmentAt
    <2>3. \A q, r \in Procs :
             at'[q] = "init_shm" /\ at'[r] = "init_shm" /\ segment'[q] = segment'[r]
                 => q = r
        BY <1>o DEF StepInv, SegmentInv
    <2>4. \A t \in 1..Len(shm) : Len(past'.users[t]) > 0
        BY <1>d, <1>e, <1>w DEF StepInv, SegmentInv
    <2> QED
        BY <2>1, <2>2, <2>3, <2>4, <1>d DEF StepInv, SegmentInv
<1>2. AloneInv'
    <2> SUFFICES ASSUME NEW q \in Procs, segment'[q] # 0,
                        segment'[q] \notin past.raced,
                        Len(past'.users[segment'[q]]) = 1
                 PROVE  shm[segment'[q]].count = Arrivals(q)' /\ Passed(q)' = 0
        BY DEF AloneInv
    <2>1. segment'[q] # k
        BY <1>e, <1>w
    <2>2. q # p /\ segment'[q] = segment[q]
        BY <2>1, <1>o
    <2>3. past'.users[segment[q]] = past.users[segment[q]]
        BY <2>1, <2>2, <1>d, <1>o
    <2>4. shm[segment[q]].count = Arrivals(q) /\ Passed(q) = 0
        BY <2>2, <2>3 DEF StepInv, AloneInv
    <2> QED
        BY <2>2, <2>4, <1>o
<1>3. PairInv'
    <2> SUFFICES ASSUME NEW q \in Procs, NEW r \in Procs, q # r, segment'[q] # 0,
                        segment'[q] = segment'[r],
                        segment'[q] \notin past.raced,
                        Len(past'.users[segment'[q]]) = 2
                 PROVE  /\ shm[segment'[q]].count = Arrivals(q)' + Arrivals(r)'
                        /\ Passed(q)' <= Arrivals(r)'
        BY DEF PairInv
    <2>1. CASE segment'[q] = k
        <3>1. Len(past.users[k]) = 1
            <4>1. Len(past'.users[k]) = 2
                BY <2>1
            <4>2. Len(past'.users[k]) = Len(past.users[k]) + 1
                BY <1>e
            <4>3. Len(past.users[k]) \in Nat
                BY <1>w
            <4>4. \A l \in Nat : 2 = l + 1 => l = 1
                OBVIOUS
            <4> QED
                BY <4>1, <4>2, <4>3, <4>4, Zenon
        <3>2. \A x \in Procs \ {p} : segment[x] = k => past.users[k][1] = x
            BY <3>1, <1>u
        <3>3. q = p \/ r = p
            BY <3>2, <2>1, <1>o
        <3>4. \A x \in Procs \ {p} : segment[x] = k =>
                  shm[k].count = Arrivals(x) /\ Passed(x) = 0
            BY <2>1, <3>1 DEF StepInv, AloneInv
        <3>5. CASE q = p
            <4>1. shm[k].count = Arrivals(r)
                BY <2>1, <3>4, <3>5, <1>o
            <4>2. Arrivals(r)' = Arrivals(r)
                BY <3>5, <1>o
            <4> QED
                BY <2>1, <3>5, <4>1, <4>2, <1>m, <1>n
        <3>6. CASE r = p
            <4>1. shm[k].count = Arrivals(q) /\ Passed(q) = 0
                BY <2>1, <3>4, <3>6, <1>o
            <4>2. Arrivals(q)' = Arrivals(q) /\ Passed(q)' = Passed(q)
                BY <3>6, <1>o
            <4> QED
                BY <2>1, <3>6, <4>1, <4>2, <1>m, <1>n
        <3> QED
            BY <3>3, <3>5, <3>6
    <2>2. CASE segment'[q] # k
        <3>1. /\ q # p /\ r # p
              /\ segment'[q] = segment[q] /\ segment'[r] = segment[r]
            BY <2>2, <1>o
        <3>2. past'.users[segment[q]] = past.users[segment[q]]
            BY <2>2, <3>1, <1>d, <1>o
        <3>3. /\ shm[segment[q]].count = Arrivals(q) + Arrivals(r)
              /\ Passed(q) <= Arrivals(r)
            <4>1. /\ segment[q] # 0 /\ segment[q] = segment[r]
                  /\ segment[q] \notin past.raced
                  /\ Len(past.users[segment[q]]) = 2
                BY <3>1, <3>2
            <4> QED
                BY <4>1 DEF StepInv, PairInv
        <3>4. /\ Arrivals(q)' = Arrivals(q) /\ Arrivals(r)' = Arrivals(r)
              /\ Passed(q)' = Passed(q)
            BY <3>1, <1>o
        <3> QED
            BY <3>1, <3>3, <3>4
    <2> QED
        BY <2>1, <2>2
<1> QED
    BY <1>1, <1>2, <1>3 DEF StepInv

LEMMA EndsKeeps ==
    ASSUME TypeInv, StepInv, NEW p \in Procs, OthersStay(p), NEW how, Ends(p, how)
    PROVE  StepInv'
<1>t. past \in Histories /\ DOMAIN at = Procs /\ DOMAIN segment = Procs
    BY DEF TypeInv, ControlType, SharedType
<1>1. segment'[p] = 0 /\ at'[p] = "over" /\ shm' = shm
    BY <1>t DEF Ends, Set
<1>2. past'.users = past.users /\ past'.raced = past.raced
    BY <1>t DEF Ends, Histories
<1> QED
    BY <1>1, <1>2, LeavingKeeps

(* The steps that have nothing to do with the segment.                     *)
QuietStep(p) ==
    /\ past'.users = past.users /\ past'.raced = past.raced /\ shm' = shm
    /\ segment' = segment
    /\ at[p] \notin Barrier \cup {"init_shm", "attach"}
    /\ at'[p] \notin {"init_shm", "counted", "wait"}
    /\ at[p] \in Early \cup {"over"} /\ at'[p] \notin Early \cup {"over"}
          => ~Dynamic /\ at'[p] # "sync"
    /\ at[p] \notin Early \cup {"over"} => at'[p] \notin Early \cup {"over"}
    /\ at'[p] = "sync" => Dynamic
    /\ at'[p] = "attach" => Dynamic
    /\ at[p] \notin Early \cup {"over"} /\ Dynamic => Passed(p)' = Passed(p)

LEMMA QuietKeeps ==
    ASSUME TypeInv, TypeInv', StepInv, NEW p \in Procs, OthersStay(p), QuietStep(p)
    PROVE  StepInv'
<1> USE DEF QuietStep
<1>1. SegmentAt(p)
    BY DEF StepInv, SegmentInv
<1>2. setup' = setup
    BY DEF OthersStay
<1>3. SegmentAt(p)'
    BY <1>1, <1>2 DEF SegmentAt, Dynamic, Barrier, Early
<1>4. segment[p] # 0 => Passed(p)' = Passed(p) /\ Arrivals(p)' = Arrivals(p)
    <2>1. segment[p] # 0 => Passed(p)' = Passed(p)
        BY <1>1 DEF SegmentAt
    <2> QED
        BY <2>1 DEF Arrivals, Barrier
<1> QED
    BY <1>3, <1>4, ProgressKeeps

(* A process passes only if the other has come to the barrier, too.        *)
LEMMA PassingKeeps ==
    ASSUME TypeInv, TypeInv', RowsInv, StepInv, NEW p \in Procs, OthersStay(p),
           Sync(p) \/ Wake(p)
    PROVE  StepInv'
<1>t. /\ shm \in Seq(Segments) /\ segment \in [Procs -> 0..Len(shm)]
      /\ DOMAIN at = Procs /\ window[p] \in Nat /\ stage[p] \in Stages
      /\ rows[p] \in Nat
    BY SetupType DEF TypeInv, ControlType, WorkType, SharedType, Windows
<1>a. /\ at[p] \in {"counted", "wait"} /\ at[p] \in Barrier
      /\ \/ at'[p] = "wait"
         \/ at'[p] = After(stage[p]) /\ Reached(p)
    BY <1>t DEF Sync, Wake, Go, Set, Barrier
<1>b. segment[p] \in 1..Len(shm) /\ shm[segment[p]] \in Segments
    BY <1>a, SegmentStep DEF StepInv
<1>c. /\ Len(shm') = Len(shm)
      /\ \A s \in 1..Len(shm) :
            shm'[s].count = shm[s].count /\ shm'[s].ready = shm[s].ready
    <2>1. CASE Wake(p)
        BY <2>1 DEF Wake
    <2>2. CASE Sync(p)
        <3>1. shm' = [shm EXCEPT ![segment[p]] = Released(shm[segment[p]], p)]
            BY <2>2, <1>a, SegmentStep DEF StepInv
        <3>2. /\ Released(shm[segment[p]], p).count = shm[segment[p]].count
              /\ Released(shm[segment[p]], p).ready = shm[segment[p]].ready
            BY <1>b, SegmentChanges
        <3> QED
            BY <3>1, <3>2, <1>b, <1>t
    <2> QED
        BY <2>1, <2>2
<1>u. UNCHANGED <<setup, window, stage, segment, past>>
    BY DEF Sync, Wake, BarrierVars
<1>n. Passed(p) \in Nat /\ shm[segment[p]].count \in Nat
    BY <1>b, ProgressType DEF Segments
<1>v. Arrivals(p) = Passed(p) + 1
    BY <1>a DEF Arrivals
<1>s. SegmentAt(p)
    BY DEF StepInv, SegmentInv
<1>1. CASE at'[p] = "wait"
    <2>1. Passed(p)' = Passed(p) /\ Arrivals(p)' = Arrivals(p)
        <3>1. Passed(p)' = Passed(p)
            BY <1>1, <1>a, <1>u DEF Passed, Barrier
        <3> QED
            BY <1>1, <3>1, <1>v DEF Arrivals
    <2>2. SegmentAt(p)'
        BY <1>1, <1>a, <1>u, <1>s DEF SegmentAt, Early, Barrier, Dynamic
    <2> QED
        BY <1>1, <1>c, <1>u, <2>1, <2>2, ProgressKeeps
<1>2. CASE at'[p] = After(stage[p]) /\ Reached(p)
    <2>1. at'[p] \in {"warmup", "open", "infer", "next"}
        BY <1>2, <1>t DEF After, Stages
    <2>2. Passed(p)' = Passed(p) + 1
        BY <1>2, <1>a, <1>u, <1>t DEF After, Stages, Passed, Barrier, InWindow
    <2>3. Arrivals(p)' = Passed(p)'
        BY <2>1, <2>2, <1>n DEF Arrivals
    <2>4. Target(stage[p], window[p]) = 2 * (Passed(p) + 1)
        BY <1>a, <1>t DEF Target, WindowTarget, Passed, Stages
    <2>5. shm[segment[p]].count >= 2 * Arrivals(p)
        BY <1>2, <2>4, <1>v DEF Reached
    <2>6. SegmentAt(p)'
        BY <2>1, <1>a, <1>u, <1>s DEF SegmentAt, Early, Barrier, Dynamic
    <2>7. Passed(p)' = Arrivals(p) /\ Arrivals(p)' = Arrivals(p)
        BY <2>2, <2>3, <1>v
    <2> QED
        BY <1>c, <1>u, <1>v, <2>1, <2>5, <2>6, <2>7, ProgressKeeps
<1> QED
    BY <1>1, <1>2, <1>a

LEMMA OwnBarrier ==
    ASSUME TypeInv, TypeInv', RowsInv, StepInv, NEW p \in Procs, OthersStay(p),
           Step(p) \/ HandleSignal(p) \/ Kill(p) \/ StartAgain(p)
    PROVE  StepInv'
<1>e. \A how : Ends(p, how) => StepInv'
    BY EndsKeeps
<1>a. Aborts(p) => StepInv'
    BY <1>e DEF Aborts
<1>t. /\ DOMAIN at = Procs /\ DOMAIN stage = Procs /\ DOMAIN window = Procs
      /\ DOMAIN segment = Procs /\ window[p] \in Nat /\ stage[p] \in Stages
      /\ past \in Histories /\ at[p] \in Places
    BY SetupType DEF TypeInv, ControlType, SharedType, Windows
<1>r. /\ at[p] = "open" => window[p] = 0
      /\ at[p] \in Early => stage[p] = "model"
    BY DEF RowsInv, RowsAt, Starting
<1>q. QuietStep(p) => StepInv'
    BY QuietKeeps
<1>1. CASE RunScript(p)
    BY <1>1, <1>t, <1>r, <1>q
       DEF RunScript, Rebuilds, Histories, Go, Set, GoThrough, controlVars, workVars, barrierVars, ModelVars,
           LoopVars, Dynamic, Early, Barrier, InWindow, Passed, QuietStep
<1>2. CASE TRTModel(p)
    BY <1>2, <1>t, <1>r, <1>q
       DEF TRTModel, Go, Set, GoThrough, controlVars, workVars, barrierVars, ModelVars,
           LoopVars, Dynamic, Early, Barrier, InWindow, Passed, QuietStep
<1>3. CASE LoadEngine(p) /\ ~Aborts(p) /\ ~Ends(p, "died")
    BY <1>3, <1>t, <1>r, <1>q
       DEF LoadEngine, Go, Set, GoThrough, controlVars, workVars, barrierVars, ModelVars,
           LoopVars, Dynamic, Early, Barrier, InWindow, Passed, QuietStep
<1>4. CASE BuildEngine(p) /\ ~Aborts(p)
    BY <1>4, <1>t, <1>r, <1>q
       DEF BuildEngine, Go, Set, GoThrough, controlVars, workVars, barrierVars, ModelVars,
           LoopVars, Dynamic, Early, Barrier, InWindow, Passed, QuietStep
<1>5. CASE OpenEngine(p)
    BY <1>5, <1>t, <1>r, <1>q
       DEF OpenEngine, Histories, Go, Set, GoThrough, controlVars, workVars, barrierVars, ModelVars,
           LoopVars, Dynamic, Early, Barrier, InWindow, Passed, QuietStep
<1>6. CASE SaveEngine(p) /\ ~Aborts(p)
    BY <1>6, <1>t, <1>r, <1>q
       DEF SaveEngine, Go, Set, GoThrough, controlVars, workVars, barrierVars, ModelVars,
           LoopVars, Dynamic, Early, Barrier, InWindow, Passed, QuietStep
<1>7. CASE InitContext(p) /\ ~Aborts(p)
    BY <1>7, <1>t, <1>r, <1>q
       DEF InitContext, ModelDone, Go, Set, GoThrough, controlVars, workVars, barrierVars, ModelVars,
           LoopVars, Dynamic, Early, Barrier, InWindow, Passed, QuietStep
<1>8. CASE BuildEngineOnly(p) /\ ~Ends(p, "died")
    BY <1>8, <1>t, <1>r, <1>q
       DEF BuildEngineOnly, Go, Set, GoThrough, controlVars, workVars, barrierVars, ModelVars,
           LoopVars, Dynamic, Early, Barrier, InWindow, Passed, QuietStep
<1>9. CASE WarmUp(p) /\ ~Aborts(p)
    BY <1>9, <1>t, <1>r, <1>q
       DEF WarmUp, After, Go, Set, GoThrough, controlVars, workVars, barrierVars, ModelVars,
           LoopVars, Dynamic, Early, Barrier, InWindow, Passed, QuietStep
<1>10. CASE OpenOutput(p) /\ ~(\E how : Ends(p, how))
    BY <1>10, <1>t, <1>r, <1>q
       DEF OpenOutput, Go, Set, GoThrough, controlVars, workVars, barrierVars, ModelVars,
           LoopVars, Dynamic, Early, Barrier, InWindow, Passed, QuietStep
<1>11. CASE WindowBegins(p)
    BY <1>11, <1>t, <1>r, <1>q
       DEF WindowBegins, After, Go, Set, GoThrough, controlVars, workVars, barrierVars, ModelVars,
           LoopVars, Dynamic, Early, Barrier, InWindow, Passed, QuietStep
<1>12. CASE StartInference(p)
    BY <1>12, <1>t, <1>r, <1>q
       DEF StartInference, Go, Set, GoThrough, controlVars, workVars, barrierVars, ModelVars,
           LoopVars, Dynamic, Early, Barrier, InWindow, Passed, QuietStep
<1>13. CASE Refill(p)
    BY <1>13, <1>t, <1>r, <1>q
       DEF Refill, Go, Set, GoThrough, controlVars, workVars, barrierVars, ModelVars,
           LoopVars, Dynamic, Early, Barrier, InWindow, Passed, QuietStep
<1>14. CASE TakesToken(p)
    BY <1>14, <1>t, <1>r, <1>q
       DEF TakesToken, Go, Set, GoThrough, controlVars, workVars, barrierVars, ModelVars,
           LoopVars, Dynamic, Early, Barrier, InWindow, Passed, QuietStep
<1>15. CASE AcquireStopped(p)
    BY <1>15, <1>t, <1>r, <1>q
       DEF AcquireStopped, Go, Set, GoThrough, controlVars, workVars, barrierVars, ModelVars,
           LoopVars, Dynamic, Early, Barrier, InWindow, Passed, QuietStep
<1>16. CASE AfterAcquire(p)
    BY <1>16, <1>t, <1>r, <1>q
       DEF AfterAcquire, AcquiredThen, Go, Set, GoThrough, controlVars, workVars, barrierVars, ModelVars,
           LoopVars, Dynamic, Early, Barrier, InWindow, Passed, QuietStep
<1>17. CASE Infer(p) /\ ~Aborts(p)
    BY <1>17, <1>t, <1>r, <1>q
       DEF Infer, Histories, Go, Set, GoThrough, controlVars, workVars, barrierVars, ModelVars,
           LoopVars, Dynamic, Early, Barrier, InWindow, Passed, QuietStep
<1>18. CASE WriteRow(p)
    BY <1>18, <1>t, <1>r, <1>q
       DEF WriteRow, After, Go, Set, GoThrough, controlVars, workVars, barrierVars, ModelVars,
           LoopVars, Dynamic, Early, Barrier, InWindow, Passed, QuietStep
<1>19. CASE LoopEnds(p)
    BY <1>19, <1>e, <1>a DEF LoopEnds
<1>20. CASE HandleSignal(p)
    <2>1. UNCHANGED <<setup, at, stage, window, segment, shm, past>>
        BY <1>20 DEF HandleSignal, controlVars, barrierVars
    <2> QED
        BY <2>1 DEF StepInv, SegmentInv, SegmentAt, AloneInv, PairInv, Arrivals,
           Passed, Dynamic
<1>21. CASE Kill(p)
    BY <1>21, <1>e, <1>a DEF Kill
<1>22. CASE StartAgain(p)
    BY <1>22, <1>t, <1>r, <1>q
       DEF StartAgain, Go, Set, GoThrough, controlVars, workVars, barrierVars, ModelVars,
           LoopVars, Dynamic, Early, Barrier, InWindow, Passed, QuietStep
<1>23. CASE AcquireSharedSyncState(p) /\ ~Aborts(p)
    <2>1. /\ at[p] = "attach"
          /\ \/ /\ at' = [at EXCEPT ![p] = "init_shm"]
                /\ shm' = Append(shm, [count |-> 0, mutex |-> {}, ready |-> FALSE])
                /\ key' = Len(shm) + 1
                /\ past' = [past EXCEPT !.users = Append(past.users, <<p>>)]
             \/ /\ at' = [at EXCEPT ![p] = "sync"]
                /\ shm' = shm /\ key \in 1..Len(shm) /\ key' = key
                /\ past' = [past EXCEPT !.users =
                      [past.users EXCEPT ![key] = Append(past.users[key], p)]]
          /\ segment' = [segment EXCEPT ![p] = key']
          /\ UNCHANGED <<BarrierVars, stage>>
        BY <1>23, AttachStep DEF StepInv
    <2>2. segment'[p] = key' /\ stage' = stage /\ past'.raced = past.raced
        BY <2>1, <1>t DEF Histories
    <2>3. CASE at' = [at EXCEPT ![p] = "init_shm"]
        <3>1. at'[p] = "init_shm"
            BY <2>3, <1>t
        <3>2. /\ shm' = Append(shm, [count |-> 0, mutex |-> {}, ready |-> FALSE])
              /\ segment'[p] = Len(shm) + 1
              /\ past' = [past EXCEPT !.users = Append(past.users, <<p>>)]
            BY <2>1, <2>2, <3>1, <1>t
        <3>3. past'.users = Append(past.users, <<p>>)
            BY <3>2, <1>t DEF Histories
        <3> QED
            BY <2>1, <2>2, <3>1, <3>2, <3>3, CreatingKeeps
    <2>4. CASE at' = [at EXCEPT ![p] = "sync"]
        <3>1. at'[p] = "sync"
            BY <2>4, <1>t
        <3>2. /\ shm' = shm /\ key \in 1..Len(shm) /\ segment'[p] = key
              /\ past' = [past EXCEPT !.users =
                    [past.users EXCEPT ![key] = Append(past.users[key], p)]]
            BY <2>1, <2>2, <3>1, <1>t
        <3>3. past'.users = [past.users EXCEPT ![key] = Append(past.users[key], p)]
            BY <3>2, <1>t DEF Histories
        <3> QED
            BY <2>1, <2>2, <3>1, <3>2, <3>3, JoiningKeeps
    <2> QED
        BY <2>1, <2>3, <2>4
<1>24. CASE InitSharedSyncState(p)
    BY <1>24, InitializingKeeps
<1>25. CASE Arrive(p)
    BY <1>25, ArrivingKeeps
<1>26. CASE Sync(p) \/ Wake(p)
    BY <1>26, PassingKeeps
<1> QED
    BY <1>e, <1>a, <1>1, <1>2, <1>3, <1>4, <1>5, <1>6, <1>7, <1>8, <1>9, <1>10, <1>11, <1>12,
       <1>13, <1>14, <1>15, <1>16, <1>17, <1>18, <1>19, <1>20, <1>21, <1>22,
       <1>23, <1>24, <1>25, <1>26
       DEF Step, Model, ProcessSync, Loop

LEMMA BarrierStep ==
    ASSUME TypeInv, TypeInv', RowsInv, StepInv, [Next]_vars
    PROVE  StepInv'
<1>1. CASE UNCHANGED vars
    BY <1>1 DEF vars, controlVars, barrierVars, StepInv, SegmentInv, SegmentAt, AloneInv,
       PairInv, Arrivals, Passed, Dynamic
<1>2. CASE Next
    BY <1>2, Others, OwnBarrier DEF Next
<1> QED
    BY <1>1, <1>2

-----------------------------------------------------------------------------
(* The invariant, and what follows.                                        *)
LEMMA Invariance == Spec => []IInv
<1>1. IInv /\ [Next]_vars => IInv'
    <2> SUFFICES ASSUME IInv, [Next]_vars
                 PROVE  IInv'
        OBVIOUS
    <2>1. TypeInv /\ RowsInv /\ PaidInv /\ EngineInv /\ StepInv /\ SegmentInv
        BY DEF IInv, StepInv
    <2>2. TypeInv'
        BY <2>1, TypeStep
    <2>3. RowsInv'
        BY <2>1, RowsStep
    <2>4. PaidInv'
        BY <2>1, PaidStep
    <2>5. EngineInv'
        BY <2>1, EngineStep
    <2>6. StepInv'
        BY <2>1, <2>2, BarrierStep
    <2> QED
        BY <2>2, <2>3, <2>4, <2>5, <2>6 DEF IInv
<1> QED
    BY InitIInv, <1>1, PTL DEF Spec

(* The types: a segment is attached only if there is one, the tokens never *)
(* fall below zero, no window or row is begun beyond window_count, and the *)
(* shared mutex has one owner.                                             *)
THEOREM TypeCorrect == Spec => []TypeOK
    BY Invariance, TypeFollows, PTL

(* Two processes that alone have attached a segment, and did not use it    *)
(* before it was initialized, warm up together and measure each window     *)
(* together, whatever signals, aborts and the scheduler do (ProcessSync).  *)
THEOREM WindowsAreShared == Spec => []WindowsInStep
    BY Invariance, WindowsFollow, PTL

(* A program that ends by itself has a row for each window it began, no    *)
(* inference ran without its token, and a part of an engine in the file is *)
(* being written or was left by a process that was killed or disturbed.    *)
THEOREM ReportsAreTrue == Spec => []ReportIsTrue
    BY Invariance, ReportFollows, PTL
=============================================================================
