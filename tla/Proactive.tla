--------------------------------- MODULE Proactive ---------------------------------
(***************************************************************************)
(* The proactive runners of a host: a heartbeat, which beats on a schedule *)
(* and defers while its gate is busy, and a cron task, whose fire may park *)
(* its run on an approval and escalate as far as the task's grant allows.  *)
(*                                                                         *)
(* Each runner has an agent of its own; busy is the set of runners with a  *)
(* run in flight on it.  The heartbeat's gate is the interactive agent of  *)
(* the gateway's handler, or its own agent.  A schedule fires while it is  *)
(* registered: unregister() forgets the declaration before it awaits.      *)
(* A beat or a fire in progress has a slot, so that two could overlap if   *)
(* the code let them.                                                      *)
(***************************************************************************)
EXTENDS ChannelGateway

VARIABLES heart,     \* the heartbeat: running, inFlight, armed (deferral), defers, slots
          task,      \* the cron task: running, inFlight, slots
          busy,      \* runners whose agent has a run in flight
          collided,  \* runners whose run their own agent refused (history)
          asked      \* beat() was called on a stopped heartbeat since its stop() (history)

proactiveVars == <<heart, task, busy, collided, asked>>
doorVars == <<cf, clock, accessVars, gatewayVars>>

Slots == 1..2
Ended == [pc |-> "idle", kind |-> "none"]

ProactiveInit ==
  /\ heart = [running |-> FALSE, inFlight |-> FALSE, armed |-> FALSE, defers |-> 0,
              slot |-> [i \in Slots |-> Ended]]
  /\ task = [running |-> FALSE, inFlight |-> FALSE, slot |-> [i \in Slots |-> Ended]]
  /\ busy = {} /\ collided = {} /\ asked = FALSE

FreeSlot(r) == CHOOSE i \in Slots : r.slot[i] = Ended
HasSlot(r) == \E i \in Slots : r.slot[i] = Ended
At(r, i, pc) == [r EXCEPT !.slot[i].pc = pc]
Over(r, i) == [r EXCEPT !.slot[i] = Ended, !.inFlight = FALSE]

(* agent.run on the runner's own agent: it refuses a second run. *)
RunBegins(name, r, i) == IF name \in busy THEN Over(r, i) ELSE At(r, i, "run")
AgentTaken(name) ==
  IF name \in busy THEN collided' = collided \union {name} /\ UNCHANGED busy
  ELSE busy' = busy \union {name} /\ UNCHANGED collided

-----------------------------------------------------------------------------
(* The heartbeat. *)
Gate == IF cf.gate = "chat" THEN chat # NoChannel ELSE "heart" \in busy

(* armDefer() *)
ArmDefer(h) ==
  IF h.defers + 1 > cf.maxDefers THEN [h EXCEPT !.defers = 0]
  ELSE [h EXCEPT !.defers = @ + 1, !.armed = TRUE]

(* Mutant of Beat: a beat in flight is not noted. *)
BeatUnnoted(h, within) ==
  IF h.inFlight \/ ~HasSlot(h) THEN h
  ELSE IF ~within THEN [h EXCEPT !.defers = 0]
  ELSE IF Gate THEN ArmDefer(h)
  ELSE At([h EXCEPT !.defers = 0], FreeSlot(h), "checklist")

(* beat(), up to its first await; within: inside the active hours. *)
Beat(h, within) ==
  IF h.inFlight THEN h
  ELSE IF ~within THEN [h EXCEPT !.defers = 0]
  ELSE IF Gate THEN ArmDefer(h)
  ELSE At([h EXCEPT !.defers = 0, !.inFlight = TRUE], FreeSlot(h), "checklist")

(* A call that finds itself inside the active hours, or outside them. *)
Spends(e, within) ==
  IF within THEN Spend(e)
  ELSE May("window") /\ used' = [used EXCEPT ![e] = @ + 1, !["window"] = @ + 1]

BeatBegins(e) == \E within \in BOOLEAN : heart' = Beat(heart, within) /\ Spends(e, within)

HeartFires ==
  /\ heart.running /\ May("fire") /\ BeatBegins("fire")
  /\ UNCHANGED <<doorVars, task, busy, collided, asked>>

(* heartbeat.beat(), called by the application: also before start() and    *)
(* after stop().                                                           *)
HeartBeaten ==
  /\ "heart" \in cf.runners /\ May("manual") /\ BeatBegins("manual")
  /\ asked' = IF heart.running THEN asked ELSE TRUE
  /\ UNCHANGED <<doorVars, task, busy, collided>>

(* The deferred beat looks at the active hours and the gate again. *)
DeferralFires ==
  /\ heart.armed
  /\ \E within \in BOOLEAN :
       /\ heart' = Beat([heart EXCEPT !.armed = FALSE], within)
       /\ IF within THEN UNCHANGED used ELSE May("window") /\ Spend("window")
  /\ UNCHANGED <<doorVars, task, busy, collided, asked>>

(* The agenda is empty, cannot be read, or is the prompt of a run. *)
Checklist(i) ==
  /\ heart.slot[i].pc = "checklist"
  /\ heart' \in {Over(heart, i), At(heart, i, "session")}
  /\ UNCHANGED <<doorVars, used, task, busy, collided, asked>>

(* The beat has its session and runs the agent, or no session was to be    *)
(* had.                                                                    *)
BeatRuns(i) ==
  /\ heart.slot[i].pc = "session"
  /\ \/ heart' = RunBegins("heart", heart, i) /\ AgentTaken("heart")
     \/ heart' = Over(heart, i) /\ UNCHANGED <<busy, collided>>
  /\ UNCHANGED <<doorVars, used, task, asked>>

(* All quiet, failed or interrupted; or a finding to deliver. *)
BeatRan(i) ==
  /\ heart.slot[i].pc = "run"
  /\ heart' \in {Over(heart, i), At(heart, i, "deliver")}
  /\ busy' = busy \ {"heart"}
  /\ UNCHANGED <<doorVars, used, task, collided, asked>>

BeatDelivers(i) ==
  /\ heart.slot[i].pc = "deliver"
  /\ heart' = Over(heart, i)
  /\ UNCHANGED <<doorVars, used, task, busy, collided, asked>>

HeartStarts ==
  /\ "heart" \in cf.runners /\ ~heart.running /\ heart' = [heart EXCEPT !.running = TRUE]
  /\ UNCHANGED <<doorVars, used, task, busy, collided, asked>>

(* Mutant of HeartStops: the deferral stays armed. *)
HeartStopsArmed ==
  /\ heart.running /\ May("stop") /\ Spend("stop")
  /\ heart' = [heart EXCEPT !.running = FALSE] /\ asked' = FALSE
  /\ UNCHANGED <<doorVars, task, busy, collided>>

HeartStops ==
  /\ heart.running /\ May("stop") /\ Spend("stop")
  /\ heart' = [heart EXCEPT !.running = FALSE, !.armed = FALSE] /\ asked' = FALSE
  /\ UNCHANGED <<doorVars, task, busy, collided>>

-----------------------------------------------------------------------------
(* The cron task. *)
Rung(kind) == CASE kind = "notify" -> 0 [] kind = "question" -> 1 [] kind = "review" -> 2
                [] kind = "act" -> 3

WithinGrant(kind) == Rung(kind) <= Rung(cf.grant)

(* fire(), up to its first await. *)
Fire(within) ==
  IF task.inFlight \/ ~within THEN task
  ELSE At([task EXCEPT !.inFlight = TRUE], FreeSlot(task), "session")

FireBegins(e) == \E within \in BOOLEAN : task' = Fire(within) /\ Spends(e, within)

TaskFires ==
  /\ task.running /\ May("fire") /\ FireBegins("fire")
  /\ UNCHANGED <<doorVars, heart, busy, collided, asked>>

(* task.fire(), called by the application, started or not. *)
TaskFired ==
  /\ "task" \in cf.runners /\ May("manual") /\ FireBegins("manual")
  /\ UNCHANGED <<doorVars, heart, busy, collided, asked>>

(* The prompt and the session are there and the run begins, or one of them *)
(* could not be had.                                                       *)
TaskRuns(i) ==
  /\ task.slot[i].pc = "session"
  /\ \/ task' = RunBegins("task", task, i) /\ AgentTaken("task")
     \/ task' = Over(task, i) /\ UNCHANGED <<busy, collided>>
  /\ UNCHANGED <<doorVars, used, heart, asked>>

(* The run failed or had nothing to say; spoke, having executed a writer   *)
(* or not; or parked on approvals, a writer's among them or not.           *)
TaskRan(i) ==
  /\ task.slot[i].pc = "run"
  /\ \/ task' = Over(task, i) /\ busy' = busy \ {"task"}
     \/ \E wrote \in BOOLEAN :
          LET kind == IF cf.grant = "act" /\ wrote THEN "act" ELSE "notify"
          IN task' = [task EXCEPT !.slot[i] = [pc |-> "deliver", kind |-> kind]]
             /\ busy' = busy \ {"task"}
     \/ \E kind \in {"question", "review"} :
          IF WithinGrant(kind)
          THEN /\ task' = [task EXCEPT !.slot[i] = [pc |-> "deliver", kind |-> kind]]
               /\ busy' = busy \ {"task"}
          ELSE task' = At(task, i, "deny") /\ UNCHANGED busy
  /\ UNCHANGED <<doorVars, used, heart, collided, asked>>

(* The run resumed with every approval denied has ended, however it did. *)
TaskDenied(i) ==
  /\ task.slot[i].pc = "deny"
  /\ task' = Over(task, i) /\ busy' = busy \ {"task"}
  /\ UNCHANGED <<doorVars, used, heart, collided, asked>>

TaskDelivers(i) ==
  /\ task.slot[i].pc = "deliver"
  /\ task' = Over(task, i)
  /\ UNCHANGED <<doorVars, used, heart, busy, collided, asked>>

TaskStarts ==
  /\ "task" \in cf.runners /\ ~task.running /\ task' = [task EXCEPT !.running = TRUE]
  /\ UNCHANGED <<doorVars, used, heart, busy, collided, asked>>

TaskStops ==
  /\ task.running /\ May("stop") /\ Spend("stop")
  /\ task' = [task EXCEPT !.running = FALSE]
  /\ UNCHANGED <<doorVars, heart, busy, collided, asked>>

HeartStep(i) == Checklist(i) \/ BeatRuns(i) \/ BeatRan(i) \/ BeatDelivers(i)
TaskStep(i) == TaskRuns(i) \/ TaskRan(i) \/ TaskDenied(i) \/ TaskDelivers(i)
ProactiveCalls ==
  \/ HeartFires \/ HeartBeaten \/ HeartStarts \/ HeartStops
  \/ TaskFires \/ TaskFired \/ TaskStarts \/ TaskStops
=============================================================================
