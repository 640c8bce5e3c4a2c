---------------------------- MODULE MCConsolidator ----------------------------
(* Instances of Consolidator for TLC. *)
EXTENDS Consolidator

CONSTANTS conv, p, q

OneSession == {conv}
TwoRunners == {p, q}
OneTrigger == {p}
KindsOf(seq) == [x \in Sessions |-> [k \in Messages |-> seq[k]]]

Standard == [phases |-> {"standard"}, onExceed |-> "log", maxTokens |-> 1, maxBatch |-> 2,
             maxRetries |-> 2, formEpisodes |-> FALSE, conflicts |-> FALSE,
             kind |-> KindsOf(<<"plain", "poison">>),
             maxFaults |-> 0, maxTakeovers |-> 0, maxCrashes |-> 0, maxManual |-> 1]

Poisoned == [Standard EXCEPT !.maxFaults = 1]
Restarted == [Standard EXCEPT !.maxCrashes = 1]
Missing == [Restarted EXCEPT !.maxFaults = 1, !.maxManual = 0, !.kind = KindsOf(<<"plain", "plain">>)]
Slow == [Standard EXCEPT !.maxTakeovers = 1]
Pausing == [Standard EXCEPT !.onExceed = "pause", !.formEpisodes = TRUE, !.maxRetries = 1, !.maxFaults = 1, !.maxManual = 0,
                            !.kind = KindsOf(<<"plain", "plain">>)]
Throwing == [Pausing EXCEPT !.onExceed = "throw", !.maxBatch = 1, !.maxFaults = 0,
                             !.kind = KindsOf(<<"plain", "noise">>)]
Deep == [Standard EXCEPT !.phases = Phases, !.onExceed = "pause",
                         !.conflicts = TRUE, !.maxBatch = 1, !.kind = KindsOf(<<"noise", "plain">>)]
Shallow == [Standard EXCEPT !.phases = {"light"}, !.conflicts = TRUE, !.maxManual = 0]

Served == {Poisoned, Restarted, Missing, Slow, Pausing, Throwing, Deep, Shallow}
=============================================================================
