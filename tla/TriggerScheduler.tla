----------------------------- MODULE TriggerScheduler -----------------------------
(***************************************************************************)
(* The durable trigger scheduler of one process: cron, interval, idle and  *)
(* event triggers over the SQLite trigger store.                           *)
(*                                                                         *)
(* The calls of the scheduler are asynchronous functions on one event      *)
(* loop.  A call in progress is a frame.  A store operation is synchronous *)
(* (SqliteTriggerStore) and its await queues the rest of the frame behind  *)
(* the frames already queued.  Only a trigger's callback takes time.       *)
(* A callback may settle at any moment.  Timers fire when the queue has    *)
(* drained; users call then too (their calls come from requests), or in    *)
(* the stretch of code that settles a callback.                            *)
(*                                                                         *)
(* sys is the scheduler and its store; the operators on it return the      *)
(* state after one synchronous stretch of code.                            *)
(***************************************************************************)
EXTENDS Integers, Sequences, FiniteSets, FiniteSetsExt, SequencesExt

CONSTANTS Scenarios,  \* triggers and bounds on what happens to them
          MaxFrames,  \* bound on calls in progress
          MaxTime     \* bound on the clock

Bounds == {"register", "again", "unregister", "disable", "enable", "fire", "stop", "activity", "crash",
           "failure"}

None == -1            \* no such instant

ASSUME ConstantsAssumption ==
  /\ MaxFrames \in Nat \ {0} /\ MaxTime \in Nat
  /\ \A s \in Scenarios :
       /\ s.bound \in [Bounds -> Nat]
       /\ \A i \in DOMAIN s.trigger :
            /\ s.trigger[i].kind \in {"cron", "interval", "idle", "event"}
            /\ s.trigger[i].period \in Nat \ {0}
            /\ s.trigger[i].policy \in {"none", "last", "all"}

VARIABLES sc, clock, sys,
          used,     \* how much of the bounds is used up
          paused,   \* triggers whose disabling has returned and still stands (history)
          began     \* trigger -> when its timer last began the callback alone (history)

vars == <<sc, clock, sys, used, paused, began>>

Ids == DOMAIN sc.trigger
Kind(i) == sc.trigger[i].kind
Period(i) == sc.trigger[i].period
Expired(i) == sc.trigger[i].expires # None /\ clock >= sc.trigger[i].expires
Scheduled(i) == Kind(i) \in {"cron", "interval"}

Left(b) == used[b] < sc.bound[b]
Use(b) == used' = [used EXCEPT ![b] = @ + 1]

NoRow == [exists |-> FALSE, last |-> None, next |-> None, disabled |-> FALSE]
Frames == 1..MaxFrames
Free == [op |-> "free", id |-> "none", pc |-> "none", row |-> NoRow, at |-> 0, rows |-> <<>>,
         left |-> 0, excess |-> 0, queue |-> {}]

Fresh == [declared |-> {}, disabled |-> {}, started |-> FALSE, activity |-> clock, pending |-> {},
          handle |-> [i \in Ids |-> None], frame |-> [f \in Frames |-> Free], jobs |-> <<>>]

Init ==
  /\ sc \in Scenarios
  /\ clock = 0
  /\ sys = Fresh @@ [row |-> [i \in Ids |-> NoRow]]
  /\ used = [b \in Bounds |-> 0]
  /\ paused = {}
  /\ began = [i \in Ids |-> None]

-----------------------------------------------------------------------------
(* Frames: await queues the rest of the frame, a callback holds it back.   *)
Await(s, f, fr, pc) ==
  [s EXCEPT !.frame[f] = [fr EXCEPT !.pc = pc], !.jobs = Append(@, f)]
Done(s, f) == [s EXCEPT !.frame[f] = Free]
FreeFrames(s) == {f \in Frames : s.frame[f].op = "free"}

Cancel(s, i) == [s EXCEPT !.handle[i] = None]

(* #computeNextFire *)
NextFire(s, i, last, now) ==
  LET from == IF last = None THEN now ELSE last
  IN CASE Kind(i) = "cron"     -> (now \div Period(i) + 1) * Period(i)
       [] Kind(i) = "interval" -> from + Max({1, (now - from) \div Period(i) + 1}) * Period(i)
       [] Kind(i) = "idle"     -> s.activity + Period(i)
       [] Kind(i) = "event"    -> None

(* #autoPauseExpired, up to its first await, in a frame of its own or in f. *)
PauseExpired(s, f, fr) ==
  Await(Cancel(s, fr.id), f, [fr EXCEPT !.row = s.row[fr.id]], "expire")
SpawnPause(s, i) ==
  IF FreeFrames(s) = {} THEN Cancel(s, i)
  ELSE PauseExpired(s, Min(FreeFrames(s)), [Free EXCEPT !.op = "expire", !.id = i])

(* #schedule *)
Schedule(s, i, row) ==
  IF row.disabled \/ i \notin s.declared \/ Kind(i) = "event" THEN Cancel(s, i)
  ELSE IF Expired(i) THEN SpawnPause(s, i)
  ELSE [s EXCEPT !.handle[i] =
          Max({clock, IF row.next # None THEN row.next ELSE NextFire(s, i, row.last, clock)})]

-----------------------------------------------------------------------------
(* Mutant of Fire: only the timer loop looks at the disabled triggers. *)
FireUngated(s, f, fr) ==
  IF fr.id \notin s.declared THEN Done(s, f)
  ELSE IF Expired(fr.id) THEN PauseExpired(s, f, fr)
  ELSE [s EXCEPT !.frame[f] = [fr EXCEPT !.pc = "callback", !.at = clock]]

(* fire(), in frame f: refused, expired, paused, or the callback begins.   *)
Return(s, f, fr) ==
  IF fr.op \in {"register", "start", "emit"} THEN Await(s, f, fr, "fired") ELSE Done(s, f)

Fire(s, f, fr) ==
  IF fr.id \notin s.declared THEN Done(s, f)
  ELSE IF Expired(fr.id) THEN PauseExpired(s, f, fr)
  ELSE IF fr.id \in s.disabled THEN Return(s, f, fr)
  ELSE [s EXCEPT !.frame[f] = [fr EXCEPT !.pc = "callback", !.at = clock]]

(* #applyCatchup, from the last fire; the rest of f continues at "caught". *)
Missed(i, last) ==
  IF last = None \/ last < clock - sc.trigger[i].window THEN 0
  ELSE IF Kind(i) = "cron" THEN clock \div Period(i) - last \div Period(i)
  ELSE (clock - last) \div Period(i)

Catchup(s, f, fr, last) ==
  LET i == fr.id
      missed == Missed(i, last)
      toFire == IF sc.trigger[i].policy = "last" THEN 1
                ELSE Min({missed, sc.trigger[i].maxRuns})
  IN IF sc.trigger[i].policy = "none" \/ i \notin s.declared \/ ~Scheduled(i) \/ missed = 0
     THEN Await(s, f, fr, "caught")
     ELSE Fire(s, f, [fr EXCEPT !.left = toFire, !.excess = missed - toFire])

(* #drainPendingCatchup: the next of the registrations made before start. *)
Drain(s, f, fr) ==
  LET ids == fr.queue \cap s.declared
      i == CHOOSE j \in ids : TRUE
  IN IF ids = {} THEN Done(s, f)
     ELSE Await(s, f, [fr EXCEPT !.id = i, !.queue = ids \ {i}, !.row = s.row[i]], "drain")

EmitNext(s, f, fr) ==
  LET i == CHOOSE j \in fr.queue : TRUE
  IN IF fr.queue = {} THEN Done(s, f)
     ELSE Fire(s, f, [fr EXCEPT !.id = i, !.queue = @ \ {i}])

-----------------------------------------------------------------------------
(* The rest of a frame after each of its awaits. *)
AfterSettled(s, f, fr, pc) == Await(s, f, [fr EXCEPT !.row = s.row[fr.id]], pc)

AfterFired(s, f, fr) ==
  CASE fr.op = "emit"  -> EmitNext(s, f, fr)
    [] fr.left > 1     -> Fire(s, f, [fr EXCEPT !.left = @ - 1])
    [] fr.excess > 0   -> Await(s, f, [fr EXCEPT !.row = s.row[fr.id], !.left = 0], "excess")
    [] OTHER           -> Await(s, f, [fr EXCEPT !.left = 0], "caught")

AfterExcess(s, f, fr) ==
  Await(IF fr.row.exists THEN [s EXCEPT !.row[fr.id] = fr.row] ELSE s,
        f, [fr EXCEPT !.excess = 0], "caught")

AfterCaught(s, f, fr) ==
  IF fr.op = "start" THEN Drain(s, f, fr)
  ELSE Done(IF s.started THEN Schedule(s, fr.id, fr.rows[1]) ELSE s, f)

(* Mutant of AfterSuccess: the next fire is computed from the previous one. *)
AfterSuccessFromLast(s, f, fr) ==
  LET i == fr.id
      from == IF fr.row.last = None THEN fr.at ELSE fr.row.last
  IN Await(IF s.row[i].exists
           THEN [s EXCEPT !.row[i].last = fr.at, !.row[i].next = from + Period(i)] ELSE s,
           f, fr, "recorded")

(* The callback succeeded: record the fire, which leaves the disabled flag *)
(* alone and does nothing to a removed row, and arm the next one.          *)
AfterSuccess(s, f, fr) ==
  LET i == fr.id
      next == IF fr.row.exists /\ Kind(i) # "idle" THEN NextFire(s, i, fr.at, clock) ELSE None
      fenced == ~s.row[i].exists \/ (s.row[i].last # None /\ s.row[i].last >= fr.at)
  IN Await(IF fenced THEN s ELSE [s EXCEPT !.row[i].last = fr.at, !.row[i].next = next],
           f, fr, "recorded")

AfterRecorded(s, f, fr) ==
  IF s.started /\ Kind(fr.id) # "idle"
  THEN Await(s, f, [fr EXCEPT !.row = s.row[fr.id]], "refreshed")
  ELSE Return(s, f, fr)

AfterRefreshed(s, f, fr) ==
  LET armed == IF fr.row.exists THEN Schedule(s, fr.id, fr.row) ELSE s
  IN Return(armed, f, fr)

(* Mutant of AfterFailure: the timer is not armed again. *)
AfterFailureSilent(s, f, fr) == Return(s, f, fr)

(* The callback failed: the next fire is stored with the row that was read *)
(* before, and armed.                                                      *)
AfterFailure(s, f, fr) ==
  LET i == fr.id
      next == NextFire(s, i, fr.at, clock)
      row == [fr.row EXCEPT !.next = IF next # None THEN next ELSE @]
  IN IF fr.row.exists /\ Kind(i) # "idle"
     THEN Await([s EXCEPT !.row[i] = row], f, [fr EXCEPT !.row = row], "rearm")
     ELSE Return(s, f, fr)

AfterRearm(s, f, fr) ==
  Return(IF s.started THEN Schedule(s, fr.id, fr.row) ELSE s, f, fr)

(* An expired trigger is paused for good. *)
AfterExpire(s, f, fr) ==
  IF ~fr.row.exists \/ fr.row.disabled THEN Return(s, f, fr)
  ELSE Await([s EXCEPT !.row[fr.id] = [fr.row EXCEPT !.disabled = TRUE]], f, fr, "expired")

AfterExpired(s, f, fr) == Return([s EXCEPT !.disabled = @ \cup {fr.id}], f, fr)

(* register: the stored row is kept but for its next fire. *)
AfterLookup(s, f, fr) ==
  LET i == fr.id
      row == [exists |-> TRUE, last |-> fr.row.last, disabled |-> fr.row.disabled,
              next |-> NextFire(s, i, fr.row.last, fr.at)]
  IN Await([s EXCEPT !.row[i] = row], f, [fr EXCEPT !.rows = <<row>>], "registered")

AfterRegistered(s, f, fr) ==
  LET i == fr.id
      t == [s EXCEPT !.disabled = IF fr.rows[1].disabled THEN @ \cup {i} ELSE @ \ {i}]
      due == fr.row.exists /\ Scheduled(i)
  IN IF due /\ t.started THEN Catchup(t, f, fr, fr.row.last)
     ELSE LET u == IF due THEN [t EXCEPT !.pending = @ \cup {i}] ELSE t
          IN Done(IF u.started THEN Schedule(u, i, fr.rows[1]) ELSE u, f)

(* start: the listed rows that are declared and enabled are armed. *)
AfterListed(s, f, fr) ==
  LET known == {i \in DOMAIN fr.rows : fr.rows[i].exists /\ i \in s.declared}
      off == {i \in known : fr.rows[i].disabled}
      t == [s EXCEPT !.disabled = (@ \cup off) \ (known \ off)]
      u == FoldSet(LAMBDA i, acc : Schedule(acc, i, fr.rows[i]), t, known \ off)
  IN Drain([u EXCEPT !.pending = {}], f, [fr EXCEPT !.queue = u.pending])

AfterDrain(s, f, fr) ==
  IF ~fr.row.exists \/ fr.row.disabled THEN Drain(s, f, fr) ELSE Catchup(s, f, fr, fr.row.last)

(* setDisabled *)
AfterDisable(s, f, fr) ==
  LET i == fr.id
      t == [Cancel(s, i) EXCEPT !.disabled = @ \cup {i},
                                !.row[i] = [fr.row EXCEPT !.disabled = TRUE]]
  IN IF ~fr.row.exists THEN Done(s, f) ELSE Await(t, f, fr, "disabled")

AfterEnable(s, f, fr) ==
  LET i == fr.id
      next == IF i \in s.declared THEN NextFire(s, i, clock, clock) ELSE None
      row == [fr.row EXCEPT !.disabled = FALSE, !.next = IF next # None THEN next ELSE @]
  IN IF ~fr.row.exists THEN Done(s, f)
     ELSE Await([s EXCEPT !.disabled = @ \ {i}, !.row[i] = row], f, [fr EXCEPT !.row = row], "enabled")

AfterEnabled(s, f, fr) ==
  Done(IF s.started THEN Schedule(s, fr.id, fr.row) ELSE s, f)

Resume(s, f, fr) ==
  CASE fr.pc = "fired"      -> AfterFired(s, f, fr)
    [] fr.pc = "excess"     -> AfterExcess(s, f, fr)
    [] fr.pc = "caught"     -> AfterCaught(s, f, fr)
    [] fr.pc = "succeeded"  -> AfterSettled(s, f, fr, "success")
    [] fr.pc = "failed"     -> AfterSettled(s, f, fr, "failure")
    [] fr.pc = "success"    -> AfterSuccess(s, f, fr)
    [] fr.pc = "recorded"   -> AfterRecorded(s, f, fr)
    [] fr.pc = "refreshed"  -> AfterRefreshed(s, f, fr)
    [] fr.pc = "failure"    -> AfterFailure(s, f, fr)
    [] fr.pc = "rearm"      -> AfterRearm(s, f, fr)
    [] fr.pc = "expire"     -> AfterExpire(s, f, fr)
    [] fr.pc = "expired"    -> AfterExpired(s, f, fr)
    [] fr.pc = "lookup"     -> AfterLookup(s, f, fr)
    [] fr.pc = "registered" -> AfterRegistered(s, f, fr)
    [] fr.pc = "listed"     -> AfterListed(s, f, fr)
    [] fr.pc = "drain"      -> AfterDrain(s, f, fr)
    [] fr.pc = "disable"    -> AfterDisable(s, f, fr)
    [] fr.pc = "disabled"   -> Done(s, f)
    [] fr.pc = "enable"     -> AfterEnable(s, f, fr)
    [] fr.pc = "enabled"    -> AfterEnabled(s, f, fr)

-----------------------------------------------------------------------------
(* Callbacks that a synchronous stretch from s to t begins. *)
Begun(s, t, f) == s.frame[f].pc # "callback" /\ t.frame[f].pc = "callback"

Running(i) == \E g \in Frames : sys.frame[g].pc = "callback" /\ sys.frame[g].id = i

(* One synchronous stretch of frame f, ending in state t. *)
Run(t, f) ==
  /\ sys' = t
  /\ LET i == t.frame[f].id
     IN began' = IF Begun(sys, t, f) /\ t.frame[f].op = "timer"
                 THEN [began EXCEPT ![i] = IF Running(i) THEN None ELSE clock] ELSE began

Step ==
  /\ sys.jobs # <<>>
  /\ LET f == Head(sys.jobs)
         fr == sys.frame[f]
     IN /\ Run(Resume([sys EXCEPT !.jobs = Tail(@)], f, fr), f)
        /\ paused' = IF fr.pc = "disabled" THEN paused \cup {fr.id} ELSE paused
  /\ UNCHANGED <<sc, clock, used>>

(* A user calls the scheduler; New is the frame of the call. *)
UserRuns == \A f \in ToSet(sys.jobs) : sys.frame[f].pc \in {"succeeded", "failed"}
New == Min(FreeFrames(sys))
CanCall == UserRuns /\ FreeFrames(sys) # {}
Frame(op, i) == [Free EXCEPT !.op = op, !.id = i, !.at = clock]

Register(i) ==
  /\ CanCall
  /\ LET b == IF i \in sys.declared THEN "again" ELSE "register"
     IN Left(b) /\ Use(b)
  /\ Run(Await([sys EXCEPT !.declared = @ \cup {i}], New,
               [Frame("register", i) EXCEPT !.row = sys.row[i]], "lookup"), New)
  /\ UNCHANGED <<sc, clock, paused>>

Unregister(i) ==
  /\ UserRuns /\ i \in sys.declared /\ Left("unregister") /\ Use("unregister")
  /\ sys' = [Cancel(sys, i) EXCEPT !.disabled = @ \ {i}, !.declared = @ \ {i}, !.pending = @ \ {i},
                                   !.row[i] = NoRow]
  /\ paused' = paused \ {i}
  /\ UNCHANGED <<sc, clock, began>>

Start ==
  /\ ~sys.started /\ CanCall
  /\ Run(Await([sys EXCEPT !.started = TRUE], New, [Frame("start", "none") EXCEPT !.rows = sys.row],
               "listed"), New)
  /\ UNCHANGED <<sc, clock, used, paused>>

Stop ==
  /\ UserRuns /\ sys.started /\ Left("stop") /\ Use("stop")
  /\ sys' = [sys EXCEPT !.started = FALSE, !.handle = [i \in Ids |-> None]]
  /\ UNCHANGED <<sc, clock, paused, began>>

Emit ==
  /\ CanCall /\ Left("fire") /\ Use("fire")
  /\ Run(EmitNext(sys, New, [Frame("emit", "none") EXCEPT
                               !.queue = {i \in sys.declared : Kind(i) = "event"}]), New)
  /\ UNCHANGED <<sc, clock, paused>>

ManualFire(i) ==
  /\ CanCall /\ i \in sys.declared /\ Left("fire") /\ Use("fire")
  /\ Run(Fire(sys, New, Frame("fire", i)), New)
  /\ UNCHANGED <<sc, clock, paused>>

Disable(i) ==
  /\ CanCall /\ Left("disable") /\ Use("disable")
  /\ Run(Await(sys, New, [Frame("disable", i) EXCEPT !.row = sys.row[i]], "disable"), New)
  /\ UNCHANGED <<sc, clock, paused>>

Enable(i) ==
  /\ CanCall /\ Left("enable") /\ Use("enable")
  /\ Run(Await(sys, New, [Frame("enable", i) EXCEPT !.row = sys.row[i]], "enable"), New)
  /\ paused' = paused \ {i}
  /\ UNCHANGED <<sc, clock>>

RecordActivity ==
  /\ UserRuns /\ Left("activity") /\ Use("activity")
  /\ LET idle == {i \in sys.declared : Kind(i) = "idle"}
         noted == [sys EXCEPT !.activity = clock]
         Rearm(i, s) == IF Expired(i) THEN SpawnPause(s, i)
                        ELSE [s EXCEPT !.handle[i] = clock + Period(i)]
     IN sys' = IF sys.started THEN FoldSet(Rearm, noted, idle) ELSE noted
  /\ UNCHANGED <<sc, clock, paused, began>>

TimerFires(i) ==
  /\ sys.jobs = <<>> /\ CanCall
  /\ sys.handle[i] # None /\ sys.handle[i] <= clock
  /\ Run(Fire(Cancel(sys, i), New, Frame("timer", i)), New)
  /\ UNCHANGED <<sc, clock, used, paused>>

(* The callback settles; fire() goes on when its turn comes. *)
CallbackSettles(f, pc) ==
  /\ sys.frame[f].pc = "callback"
  /\ sys' = Await(sys, f, sys.frame[f], pc)
  /\ UNCHANGED <<sc, clock, paused, began>>

CallbackSucceeds(f) == CallbackSettles(f, "succeeded") /\ UNCHANGED used
CallbackFails(f) == Left("failure") /\ Use("failure") /\ CallbackSettles(f, "failed")

(* The process exits and another one takes over: the rows are all that     *)
(* remains.                                                                *)
Crash ==
  /\ Left("crash") /\ Use("crash")
  /\ sys' = Fresh @@ [row |-> sys.row]
  /\ began' = [i \in Ids |-> None]
  /\ UNCHANGED <<sc, clock, paused>>

Tick ==
  /\ clock < MaxTime /\ sys.jobs = <<>>
  /\ \A i \in Ids : sys.handle[i] # None => sys.handle[i] > clock
  /\ clock' = clock + 1
  /\ UNCHANGED <<sc, sys, used, paused, began>>

Next ==
  \/ Step \/ Start \/ Stop \/ Emit \/ RecordActivity \/ Crash \/ Tick
  \/ \E i \in Ids : \/ Register(i) \/ Unregister(i) \/ ManualFire(i) \/ Disable(i) \/ Enable(i)
                    \/ TimerFires(i)
  \/ \E f \in Frames : CallbackSucceeds(f) \/ CallbackFails(f)

Spec == Init /\ [][Next]_vars

-----------------------------------------------------------------------------
Calm == sys.jobs = <<>> /\ \A f \in Frames : sys.frame[f].op = "free"

(* "a paused (disabled) trigger must not fire on ANY path" (TRIGGERS-01):  *)
(* once setDisabled(id, true) has returned, no callback of the trigger     *)
(* begins until it is enabled, not after a stop or a new registration, and *)
(* not after a restart unless a failing callback was being re-armed while  *)
(* the trigger was disabled: that re-arm stores the row it read before, so *)
(* the pause is lost with the process (no scenario has all three).         *)
PausedNeverFires ==
  [][\A f \in Frames : Begun(sys, sys', f) => sys'.frame[f].id \notin paused]_vars

(* "a single callback failure cannot permanently silence a daily cron"     *)
(* (RP-14): whatever calls met while it was being re-armed, a declared,    *)
(* enabled and unexpired trigger of a started scheduler has a timer armed. *)
NeverSilent ==
  Calm /\ sys.started =>
    \A i \in sys.declared :
      Scheduled(i) /\ sys.row[i].exists /\ ~sys.row[i].disabled /\ i \notin sys.disabled
        /\ ~Expired(i) => sys.handle[i] # None

(* "an immediate duplicate via the clamped-to-0 delay" (RP-13): the timer  *)
(* of an interval trigger does not begin its callback twice in an instant, *)
(* although fires, registrations and enabling all arm it again, as long as *)
(* the callback does not outlast the time to its next run.                 *)
NoImmediateDuplicate ==
  [][\A f \in Frames : Begun(sys, sys', f) /\ sys'.frame[f].op = "timer" =>
       LET i == sys'.frame[f].id IN Kind(i) = "interval" => began[i] # clock]_vars
=============================================================================
