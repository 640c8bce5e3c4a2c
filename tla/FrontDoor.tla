--------------------------------- MODULE FrontDoor ---------------------------------
(***************************************************************************)
(* A host's front door: the channel gateway with its access controller,    *)
(* and the proactive runners beside it.                                    *)
(***************************************************************************)
EXTENDS Proactive

vars == <<cf, used, clock, accessVars, gatewayVars, proactiveVars>>

Init ==
  /\ cf \in Scenarios /\ used = [e \in Events |-> 0] /\ clock = 0
  /\ AccessInit /\ GatewayInit /\ ProactiveInit

AccessNext == (Operator \/ Tick) /\ UNCHANGED <<gatewayVars, proactiveVars>>
GatewayNext ==
  /\ (\E p \in cf.peers : Inbound(p)) \/ (\E c \in cf.channels : LoopStep(c)) \/ HostStep
  /\ UNCHANGED proactiveVars
ProactiveNext ==
  ProactiveCalls \/ DeferralFires \/ (\E i \in Slots : HeartStep(i) \/ TaskStep(i))

Next == AccessNext \/ GatewayNext \/ ProactiveNext

Spec == Init /\ [][Next]_vars

(* Store calls, handlers, deliveries and adapters settle; a host that      *)
(* stops the gateway sees its stop() through.                              *)
Loops == \E c \in cf.channels : LoopStep(c)
StopGoesOn == AdapterStops \/ Stopped
FairSpec ==
  /\ Spec
  /\ WF_vars(Loops /\ UNCHANGED proactiveVars)
  /\ WF_vars(StopGoesOn /\ UNCHANGED proactiveVars)

-----------------------------------------------------------------------------
(* A runner's run is never refused by the runner's own agent: the beat (or *)
(* the fire) in flight is noted before the first await, so a schedule, a   *)
(* deferral and a manual call never overlap.                               *)
NoOwnCollision == collided = {}

(* After heartbeat.stop() no beat begins, until the application itself     *)
(* calls beat() again: the schedule is gone and the pending deferral is    *)
(* cancelled.                                                              *)
SilentAfterStop ==
  [][~heart.running /\ ~asked' =>
       \A i \in Slots : heart.slot[i] = Ended => heart'.slot[i] = Ended]_vars

(* stop() returns: messages still queued are left, only the ones under way *)
(* are waited for.                                                         *)
StopReturns == host = "stopping" ~> host = "off"
=============================================================================
