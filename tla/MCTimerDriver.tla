------------------------------ MODULE MCTimerDriver ------------------------------
(* Instances of TimerDriver for TLC. *)
EXTENDS TimerDriver

P(kind, wait) == [kind |-> kind, wait |-> wait]

S(body, processes, approvals, stops, crashes, sweeps) ==
  [body |-> body, processes |-> processes,
   bound |-> [approvals |-> approvals, stops |-> stops, crashes |-> crashes, sweeps |-> sweeps]]

(* Two drivers and an approver over one thread: a node that sleeps twice   *)
(* beside an approval with a deadline.                                     *)
Racing ==
  S([t1 |-> [a |-> <<P("until", 1), P("until", 2)>>, b |-> <<P("deadline", 2)>>]],
    {"p1", "p2"}, 1, 0, 1, 0)

(* One driver, stopped, started and swept by hand, over two threads.       *)
Restarting ==
  S([t1 |-> [a |-> <<P("until", 1), P("approval", 0)>>, b |-> <<>>],
     t2 |-> [a |-> <<P("for", 1), P("for", 2)>>, b |-> <<>>]],
    {"p1"}, 1, 1, 0, 1)

RaceScenarios == {Racing, Restarting}
=============================================================================
