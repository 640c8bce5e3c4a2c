---------------------------- MODULE MCTriggerScheduler ----------------------------
(* Instances of TriggerScheduler for TLC. *)
EXTENDS TriggerScheduler

T(kind, period, policy, maxRuns, expires) ==
  [kind |-> kind, period |-> period, policy |-> policy, maxRuns |-> maxRuns, window |-> 4,
   expires |-> expires]

S(trigger, bound) == [trigger |-> trigger,
                      bound |-> [b \in Bounds |-> IF b \in DOMAIN bound THEN bound[b] ELSE 0]]

(* An interval trigger with catch-up, registered again and after a restart. *)
Interval == S([a |-> T("interval", 2, "all", 2, None)], [register |-> 2, again |-> 1, crash |-> 1])

(* An interval trigger paused, resumed and restarted. *)
Pausing == S([a |-> T("interval", 1, "last", 1, None)],
             [register |-> 2, disable |-> 1, enable |-> 1, crash |-> 1])

(* A failing cron trigger, removed, registered again, stopped, started.    *)
Cron == S([a |-> T("cron", 2, "last", 1, None)],
          [register |-> 2, again |-> 1, unregister |-> 1, stop |-> 1, failure |-> 2])

(* Event and idle triggers, paused and resumed; the idle one expires.      *)
EventIdle == S([e |-> T("event", 1, "none", 1, None), w |-> T("idle", 1, "none", 1, 3)],
               [register |-> 2, disable |-> 1, fire |-> 1, activity |-> 1])

AllScenarios == {Interval, Pausing, Cron, EventIdle}
=============================================================================
