------------------------------- MODULE TimerDriver -------------------------------
(***************************************************************************)
(* Durable timers: threads suspended on sleeps and approvals, the timer    *)
(* drivers of several processes that sweep the checkpoint store and tick   *)
(* the threads that are due, and people who answer approvals meanwhile.    *)
(*                                                                         *)
(* A thread is a set of nodes that run in parallel; the body of a node is  *)
(* a sequence of pauses.  A checkpoint is abstracted to its version (the   *)
(* compare-and-set token of CheckpointThread) and, per node, how many      *)
(* pauses were answered and when the pending one is due.  Time advances    *)
(* when no sweep is under way: a sweep takes no time.                      *)
(***************************************************************************)
EXTENDS Integers, Sequences, FiniteSets, FiniteSetsExt

CONSTANTS Scenarios,      \* what runs, and how often it is disturbed
          Nodes,
          PollInterval, BatchLimit,
          MinDelay,       \* the least delay of schedule()
          MaxTime         \* bound on the clock

(* A scenario: the body of every node of its threads, the processes, and   *)
(* the bounds on what people and failures do to them.                      *)
Bounds == {"approvals", "stops", "crashes", "sweeps"}

Pauses == [kind : {"until", "for", "approval", "deadline"}, wait : Nat]

Never == MaxTime + PollInterval + 1   \* due time of a pause without a deadline

ASSUME ConstantsAssumption ==
  /\ PollInterval \in Nat \ {0} /\ BatchLimit \in Nat \ {0} /\ MinDelay \in Nat \ {0}
  /\ MaxTime \in Nat
  /\ \A s \in Scenarios :
       /\ s.bound \in [Bounds -> Nat]
       /\ IsFiniteSet(DOMAIN s.body)
       /\ \A t \in DOMAIN s.body : s.body[t] \in [Nodes -> Seq(Pauses)]

VARIABLES sc,       \* the scenario, fixed
          clock,
          th,       \* thread -> latest checkpoint
          drv,      \* process -> its timer driver
          pass,     \* process -> polling chain -> state of the chain
          human,    \* the call that answers an approval
          lock,     \* pairs <<process, thread>> whose resume is under way
          used,     \* how much of the bounds is used up
          log       \* decisions taken (history)

vars == <<sc, clock, th, drv, pass, human, lock, used, log>>

Threads == DOMAIN sc.body
Processes == sc.processes
Body(t, n) == sc.body[t][n]

Left(b) == used[b] < sc.bound[b]
Use(b) == used' = [used EXCEPT ![b] = @ + 1]

(* Polling chains of one driver, and the pass of a call of sweep(). *)
Chains == {1, 2}
Manual == 3
Passes == Chains \cup {Manual}

NoCheckpoint == [version |-> 0, status |-> "none", stamp |-> Never, since |-> 0,
                 cursor |-> [n \in Nodes |-> 1], wake |-> [n \in Nodes |-> Never]]

IdlePass == [pc |-> "off", deadline |-> 0, at |-> 0, items |-> <<>>, earliest |-> Never,
             target |-> "none", wake |-> 0, loaded |-> NoCheckpoint]
IdleHuman == [pc |-> "idle", process |-> "none", thread |-> "none", node |-> "none", loaded |-> NoCheckpoint]

Init ==
  /\ sc \in Scenarios
  /\ clock = 0
  /\ th = [t \in Threads |-> NoCheckpoint]
  /\ drv = [p \in Processes |-> [running |-> FALSE, handle |-> 0, inFlight |-> FALSE, up |-> 0]]
  /\ pass = [p \in Processes |-> [c \in Passes |-> IdlePass]]
  /\ human = IdleHuman
  /\ lock = {}
  /\ used = [b \in Bounds |-> 0]
  /\ log = {}

-----------------------------------------------------------------------------
(* The pause a node waits in, if its body is not over. *)
Waiting(t, cursor) == {n \in Nodes : cursor[n] <= Len(Body(t, n))}
PauseOf(t, cursor, n) == Body(t, n)[cursor[n]]

(* When a node suspends in its pause: sleepUntil and a deadline name an    *)
(* instant, here wait time units after the node first got there; sleepFor  *)
(* counts from the moment the body runs; a plain approval has no deadline. *)
DueAt(p, first) ==
  CASE p.kind \in {"until", "deadline"} -> first + p.wait
    [] p.kind = "for"                   -> clock + p.wait
    [] p.kind = "approval"              -> Never

(* The checkpoint a run leaves: it completed, or it is suspended, stamped  *)
(* with the earliest due time of its pauses.                               *)
Stored(t, from, cursor, wake) ==
  [version |-> from.version + 1,
   status  |-> IF Waiting(t, cursor) = {} THEN "completed" ELSE "suspended",
   stamp   |-> Min({Never} \cup {wake[n] : n \in Waiting(t, cursor)}),
   since   |-> clock,
   cursor  |-> cursor, wake |-> wake]

(* execute(): every node runs up to its first pause. *)
Execute(t) ==
  /\ th[t].status = "none"
  /\ th' = [th EXCEPT ![t] =
       Stored(t, th[t], th[t].cursor,
              [n \in Nodes |-> IF n \in Waiting(t, th[t].cursor)
                               THEN DueAt(PauseOf(t, th[t].cursor, n), clock) ELSE Never])]
  /\ UNCHANGED <<sc, clock, drv, pass, human, lock, used, log>>

(* A resumed run, from the checkpoint it loaded: the answered node runs on *)
(* to its next pause; the other suspended nodes run again from the top of  *)
(* their bodies and re-suspend.                                            *)
Answered(t, from, node) ==
  LET cursor == [from.cursor EXCEPT ![node] = @ + 1]
      wake == [n \in Nodes |->
                 IF n \notin Waiting(t, cursor) THEN Never
                 ELSE IF n = node \/ PauseOf(t, cursor, n).kind = "for"
                 THEN DueAt(PauseOf(t, cursor, n), clock)
                 ELSE from.wake[n]]
  IN Stored(t, from, cursor, wake)

Decision(t, from, node, how, by) ==
  [thread |-> t, node |-> node, cursor |-> from.cursor[node], how |-> how, by |-> by,
   kind |-> PauseOf(t, from.cursor, node).kind, early |-> clock < from.wake[node]]

-----------------------------------------------------------------------------
(* start(), stop() and the loss of the process. *)
FreeChains(p) == {c \in Chains : pass[p][c].pc = "off"}

StartDriver(p) ==
  /\ ~drv[p].running /\ FreeChains(p) # {}
  /\ LET c == Min(FreeChains(p))
     IN /\ drv' = [drv EXCEPT ![p].running = TRUE, ![p].handle = c, ![p].up = clock]
        /\ pass' = [pass EXCEPT ![p][c] = [IdlePass EXCEPT !.pc = "armed", !.deadline = clock]]
  /\ UNCHANGED <<sc, clock, th, human, lock, used, log>>

StopDriver(p) ==
  /\ drv[p].running /\ Left("stops") /\ Use("stops")
  /\ drv' = [drv EXCEPT ![p].running = FALSE, ![p].handle = 0]
  /\ pass' = [pass EXCEPT ![p] = [c \in Passes |->
                IF c = drv[p].handle /\ @[c].pc = "armed" THEN IdlePass ELSE @[c]]]
  /\ UNCHANGED <<sc, clock, th, human, lock, log>>

Crash(p) ==
  /\ Left("crashes") /\ Use("crashes")
  /\ drv' = [drv EXCEPT ![p].running = FALSE, ![p].handle = 0, ![p].inFlight = FALSE]
  /\ pass' = [pass EXCEPT ![p] = [c \in Passes |-> IdlePass]]
  /\ human' = IF human.process = p THEN IdleHuman ELSE human
  /\ lock' = {l \in lock : l[1] # p}
  /\ UNCHANGED <<sc, clock, th, log>>

-----------------------------------------------------------------------------
(* listSuspended: the suspended threads due within one poll interval,      *)
(* earliest first, at most BatchLimit.                                     *)
Ahead == {t \in Threads : /\ th[t].status = "suspended" /\ th[t].stamp < Never
                          /\ th[t].stamp <= clock + PollInterval}
Listed ==
  {q \in [1..Min({BatchLimit, Cardinality(Ahead)}) -> Ahead] :
     /\ \A i, j \in DOMAIN q : i < j => q[i] # q[j] /\ th[q[i]].stamp <= th[q[j]].stamp
     /\ \A i \in DOMAIN q, t \in Ahead \ Range(q) : th[q[i]].stamp <= th[t].stamp}

(* Those of a list that are due. *)
DueOf(list) == SubSeq(list, 1, Cardinality({i \in DOMAIN list : th[list[i]].stamp <= clock}))

(* Mutant of Swept: a thread that is not due yet is ignored. *)
SweptDueOnly(list) == [IdlePass EXCEPT !.pc = "item", !.at = clock, !.items = DueOf(list)]

(* sweepOnce, up to the first tick: the threads that are due are ticked,   *)
(* the others only inform the next wake-up.                                *)
Swept(list) ==
  [IdlePass EXCEPT !.pc = "item", !.at = clock, !.items = DueOf(list),
     !.earliest = Min({Never} \cup {th[t].stamp : t \in {u \in Range(list) : th[u].stamp > clock}})]

(* A pass is over; schedule() arms a polling chain again while running. *)
Rearmed(p, c, earliest) ==
  LET delay == Max({MinDelay, Min({clock + PollInterval, earliest}) - clock})
  IN IF drv[p].running /\ c # Manual
     THEN [IdlePass EXCEPT !.pc = "armed", !.deadline = clock + delay]
     ELSE IdlePass

(* Pass c of p goes on as s, or ends if s has nothing left to tick. *)
Proceed(p, c, s) ==
  IF s.items # <<>>
  THEN /\ pass' = [pass EXCEPT ![p][c] = s]
       /\ drv' = [drv EXCEPT ![p].inFlight = TRUE]
  ELSE /\ pass' = [pass EXCEPT ![p][c] = Rearmed(p, c, s.earliest)]
       /\ drv' = [drv EXCEPT ![p].inFlight = FALSE,
                             ![p].handle = IF drv[p].running /\ c # Manual THEN c ELSE @]

(* The tick of a thread is over: the next thread, with what this one says  *)
(* of the next wake-up.                                                    *)
NextItem(p, c, wake) ==
  LET s == [pass[p][c] EXCEPT !.pc = "item", !.items = Tail(@), !.earliest = Min({@, wake})]
  IN IF s.items # <<>>
     THEN pass' = [pass EXCEPT ![p][c] = s] /\ UNCHANGED drv
     ELSE Proceed(p, c, s)

(* The timeout of a chain fires: runPass. *)
RunPass(p, c) ==
  /\ pass[p][c].pc = "armed" /\ pass[p][c].deadline <= clock
  /\ IF drv[p].running
     THEN \E list \in Listed : Proceed(p, c, Swept(list))
     ELSE pass' = [pass EXCEPT ![p][c] = IdlePass] /\ UNCHANGED drv
  /\ UNCHANGED <<sc, clock, th, human, lock, used, log>>

(* sweep(): joins a pass that is in flight, else runs one of its own.      *)
(* Passes overlap, and the first to end clears inFlight; the bound is one  *)
(* pass of sweep() at a time.                                              *)
Sweep(p) ==
  /\ Left("sweeps") /\ Use("sweeps")
  /\ IF drv[p].inFlight THEN UNCHANGED <<drv, pass>>
     ELSE /\ pass[p][Manual].pc = "off"
          /\ \E list \in Listed : Proceed(p, Manual, Swept(list))
  /\ UNCHANGED <<sc, clock, th, human, lock, log>>

(* tick(): reads the checkpoint and picks the earliest pause that is due.  *)
Item(p, c) == Head(pass[p][c].items)
Pending(t) == IF th[t].status = "none" THEN {} ELSE Waiting(t, th[t].cursor)
Due(t) == {n \in Pending(t) : th[t].wake[n] <= clock}

TickRead(p, c) ==
  /\ pass[p][c].pc = "item"
  /\ LET t == Item(p, c)
         later == {th[t].wake[n] : n \in Pending(t) \ Due(t)}
     IN IF Due(t) = {} \/ th[t].status # "suspended"
        THEN NextItem(p, c, Min({Never} \cup later))
        ELSE /\ \E n \in Due(t) :
                  /\ \A m \in Due(t) : th[t].wake[n] <= th[t].wake[m]
                  /\ pass' = [pass EXCEPT ![p][c].pc = "resume", ![p][c].target = n,
                                          ![p][c].wake = th[t].wake[n]]
             /\ UNCHANGED drv
  /\ UNCHANGED <<sc, clock, th, human, lock, used, log>>

(* Mutant of Found: any pause of the node will do. *)
FoundByNode(t, n, wake) == th[t].status = "suspended" /\ n \in Pending(t)

(* resumeEngine: the pause that a call still finds on the thread. *)
Found(t, n, wake) == th[t].status = "suspended" /\ n \in Pending(t) /\ th[t].wake[n] = wake

(* tick's resume: refused while another call of the process resumes the    *)
(* thread and when the pause is gone; the error ends this thread's tick.   *)
TickResume(p, c) ==
  /\ pass[p][c].pc = "resume"
  /\ LET t == Item(p, c)
     IN IF <<p, t>> \notin lock /\ Found(t, pass[p][c].target, pass[p][c].wake)
        THEN /\ lock' = lock \cup {<<p, t>>}
             /\ pass' = [pass EXCEPT ![p][c].pc = "put", ![p][c].loaded = th[t]]
             /\ UNCHANGED drv
        ELSE UNCHANGED lock /\ NextItem(p, c, Never)
  /\ UNCHANGED <<sc, clock, th, human, used, log>>

(* put's compare-and-set: nobody advanced the thread since it was loaded. *)
Unmoved(t, loaded) == th[t].version = loaded.version

(* The resumed run writes its checkpoint; tick then reports the next due   *)
(* time of the thread.  A tick that lost the thread reports none.          *)
TickPut(p, c) ==
  /\ pass[p][c].pc = "put"
  /\ LET t == Item(p, c)
         n == pass[p][c].target
         loaded == pass[p][c].loaded
     IN /\ lock' = lock \ {<<p, t>>}
        /\ IF Unmoved(t, loaded)
           THEN /\ th' = [th EXCEPT ![t] = Answered(t, loaded, n)]
                /\ log' = log \cup {Decision(t, loaded, n, "timer", <<p, c>>)}
                /\ NextItem(p, c, Answered(t, loaded, n).stamp)
           ELSE UNCHANGED <<th, log>> /\ NextItem(p, c, Never)
  /\ UNCHANGED <<sc, clock, human, used>>

-----------------------------------------------------------------------------
(* approve(): somebody answers a pending approval by its name; the         *)
(* approvals of one node share a name.                                     *)
Approve(p, t, n) ==
  /\ human.pc = "idle" /\ Left("approvals") /\ Use("approvals")
  /\ n \in Pending(t) /\ PauseOf(t, th[t].cursor, n).kind \in {"approval", "deadline"}
  /\ human' = [pc |-> "resume", process |-> p, thread |-> t, node |-> n, loaded |-> NoCheckpoint]
  /\ UNCHANGED <<sc, clock, th, drv, pass, lock, log>>

ApproveResume ==
  LET t == human.thread
      n == human.node
      pending == /\ th[t].status = "suspended" /\ n \in Pending(t)
                 /\ PauseOf(t, th[t].cursor, n).kind \in {"approval", "deadline"}
  IN /\ human.pc = "resume"
     /\ IF <<human.process, t>> \notin lock /\ pending
        THEN /\ lock' = lock \cup {<<human.process, t>>}
             /\ human' = [human EXCEPT !.pc = "put", !.loaded = th[t]]
        ELSE UNCHANGED lock /\ human' = IdleHuman
     /\ UNCHANGED <<sc, clock, th, drv, pass, used, log>>

ApprovePut ==
  LET t == human.thread
      won == Unmoved(t, human.loaded)
  IN /\ human.pc = "put"
     /\ th' = IF won THEN [th EXCEPT ![t] = Answered(t, human.loaded, human.node)] ELSE th
     /\ log' = IF won THEN log \cup {Decision(t, human.loaded, human.node, "human", <<human.process>>)} ELSE log
     /\ lock' = lock \ {<<human.process, t>>}
     /\ human' = IdleHuman
     /\ UNCHANGED <<sc, clock, drv, pass, used>>

-----------------------------------------------------------------------------
(* Time passes when every timeout that is due has fired and its sweep is   *)
(* over.                                                                   *)
Quiet == \A p \in Processes, c \in Passes :
           \/ pass[p][c].pc = "off"
           \/ pass[p][c].pc = "armed" /\ pass[p][c].deadline > clock

Tick ==
  /\ Quiet /\ human.pc = "idle" /\ clock < MaxTime
  /\ clock' = clock + 1
  /\ UNCHANGED <<sc, th, drv, pass, human, lock, used, log>>

Sweeping(p, c) ==
  RunPass(p, c) \/ TickRead(p, c) \/ TickResume(p, c) \/ TickPut(p, c)

Next ==
  \/ Tick \/ ApproveResume \/ ApprovePut
  \/ \E t \in Threads : Execute(t)
  \/ \E p \in Processes : StartDriver(p) \/ StopDriver(p) \/ Crash(p) \/ Sweep(p)
  \/ \E p \in Processes, c \in Passes : Sweeping(p, c)
  \/ \E p \in Processes, t \in Threads, n \in Nodes : Approve(p, t, n)

Spec == Init /\ [][Next]_vars

-----------------------------------------------------------------------------
(* Two drivers, the approver and the deadline race for a pause: the        *)
(* compare-and-set lets exactly one of them decide it.  And the decision   *)
(* fits the pause (selectPause): tick answers timers and deadlines that    *)
(* are due, an approval answers approvals, although the thread may have    *)
(* moved on between the read that chose the pause and the resume.          *)
Decided ==
  \A d \in log :
    /\ d.how = "timer" => d.kind # "approval" /\ ~d.early
    /\ d.how = "human" => d.kind \in {"approval", "deadline"}
    /\ \A e \in log : d.thread = e.thread /\ d.node = e.node /\ d.cursor = e.cursor => d = e

(* "the next pass is scheduled at min(pollIntervalMs, earliest nextWakeAt) *)
(* so a short timer does not wait out a long poll interval": a driver that *)
(* is up knows a suspended thread one poll interval after it suspended,    *)
(* and from then on ticks it the moment it is due.                         *)
NeverLate ==
  \A t \in Threads, p \in Processes :
    drv[p].running /\ th[t].status = "suspended" =>
      clock <= Max({th[t].stamp, th[t].since + PollInterval, drv[p].up})
=============================================================================
