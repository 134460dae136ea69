----------------------------- MODULE MCGpuLoop -----------------------------
(* Instances of GpuLoop for TLC.                                           *)
EXTENDS GpuLoop

Setup(program, windows, tasks, again) ==
    [program |-> program, windows |-> windows, tasks |-> tasks,
     restarts |-> again, engine |-> "none", reset |-> FALSE,
     rebuild |-> FALSE, throttled |-> FALSE, quota_unit |-> 1]

(* The barrier over two windows; with a new segment for each start; before *)
(* there is an engine; the engine built anew; tokens; no engine.           *)
AllSetups ==
    {[Setup("dynamic", 2, 1, 1) EXCEPT !.engine = "whole"],
     [Setup("dynamic", 1, 1, 1) EXCEPT !.engine = "whole", !.reset = TRUE],
     Setup("dynamic", 0, 1, 0),
     [Setup("transparent", 1, 1, 1) EXCEPT !.rebuild = TRUE],
     [Setup("token", 1, 2, 0) EXCEPT !.throttled = TRUE, !.engine = "whole"],
     Setup("cuda", 2, 1, 0)}

(* Out of range on both sides, and half of the full 2.                     *)
Contents == {-1, 1, 3}
=============================================================================
