---------------------------- MODULE MCDpuDriver ----------------------------
(* Instances of DpuDriver for TLC.                                         *)
EXTENDS DpuDriver

Setup(program, tasks, inflight) ==
    [program |-> program, tasks |-> tasks, inflight |-> inflight, batch |-> 0,
     drain |-> FALSE, warmup |-> FALSE, token |-> FALSE, heartbeat |-> FALSE]

Batches(tasks, inflight, drain) ==
    [Setup("low", tasks, inflight) EXCEPT !.batch = 2, !.drain = drain]

(* dpu_ts with a warm-up, and with tokens; high with a heartbeat and a     *)
(* window of one by default; low with batches of two: a window smaller     *)
(* than a batch that is drained, and one that holds a batch and a half;    *)
(* no task at all.                                                         *)
AllSetups ==
    {[Setup("dpu_ts", 4, 2) EXCEPT !.warmup = TRUE],
     [Setup("dpu_ts", 3, 2) EXCEPT !.token = TRUE],
     [Setup("high", 3, 2) EXCEPT !.heartbeat = TRUE],
     Setup("high", 2, 0),
     Setup("high", 0, 1),
     Batches(5, 1, TRUE),
     [Batches(5, 3, FALSE) EXCEPT !.heartbeat = TRUE]}
=============================================================================
