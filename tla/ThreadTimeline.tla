----------------------------- MODULE ThreadTimeline -----------------------------
(***************************************************************************)
(* What a workflow thread promises its readers, with nothing said of who   *)
(* writes it: a thread is created once, its latest checkpoint only ever    *)
(* moves to a strictly later step of the same thread, nothing follows a    *)
(* completed checkpoint, and a thread that was erased stays erased.        *)
(* CheckpointThread is shown to implement this module.                     *)
(***************************************************************************)
EXTENDS Integers

CONSTANT NoTip      \* the value of tip when the thread has no checkpoint

VARIABLES tip,      \* the latest checkpoint: what getTuple(threadId) returns
          born      \* whether the thread has ever had a checkpoint

vars == <<tip, born>>

Init == tip = NoTip /\ born = FALSE

(* execute() writes the first checkpoint of a thread that never had one. *)
Create(c) == ~born /\ tip = NoTip /\ tip' = c /\ born' = TRUE

(* A step of the run, or of a resume, replaces the tip by its successor. *)
Append(c) ==
  /\ tip # NoTip
  /\ tip.status # "completed"
  /\ c.parent = tip.id
  /\ c.step > tip.step
  /\ tip' = c
  /\ UNCHANGED born

(* deleteThread and the retention sweep remove the thread as a whole. *)
Erase == tip # NoTip /\ tip' = NoTip /\ UNCHANGED born

Next == Create(tip') \/ Append(tip') \/ Erase

Spec == Init /\ [][Next]_vars
=============================================================================
