--------------------------- MODULE MCCheckpointThread ---------------------------
(* Instances of CheckpointThread for TLC: calls made on one or two Workflow *)
(* instances that share the store.                                          *)
EXTENDS CheckpointThread

CONSTANTS r1, r2, r3

(* Two calls on the first process, one on the second. *)
TwoProcesses == [r \in Runners |-> IF r = r3 THEN "p2" ELSE "p1"]
=============================================================================
