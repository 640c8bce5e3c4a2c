--------------------------- MODULE TimerDriverProofs ---------------------------
(***************************************************************************)
(* Timers and approvals for any number of threads, nodes, processes and    *)
(* pauses: whoever races for a pause, one of them decides it, and the      *)
(* decision fits it.                                                       *)
(*                                                                         *)
(* The invariant knows what a call that is about to write has loaded: a    *)
(* checkpoint of its thread, the latest one unless the version moved on.   *)
(* So the compare-and-set makes every decision one about the latest        *)
(* checkpoint, and each moves the cursor of its node past itself.          *)
(* And no driver is late for a thread: the second part follows the one     *)
(* chain of a driver that watches every thread.  It is armed for a time    *)
(* that is soon enough for each of them, or it is in a pass that has still *)
(* to tick the thread, knows when it is due, or lost it to somebody who    *)
(* moved it just now.                                                      *)
(***************************************************************************)
EXTENDS TimerDriver, FiniteSetTheorems, TLAPS

Cursors == [Nodes -> Nat \ {0}]

(* A checkpoint of thread t: a pause without a deadline is never due, and  *)
(* the stamp is the due time of a pause.                                   *)
CheckpointSound(t, k) ==
  /\ k.version \in Nat /\ k.cursor \in Cursors /\ k.wake \in [Nodes -> Nat]
  /\ \A n \in Waiting(t, k.cursor) : PauseOf(t, k.cursor, n).kind = "approval" => k.wake[n] = Never
  /\ k.since \in Nat /\ k.stamp \in Nat
  /\ k.stamp = Never \/ \E n \in Waiting(t, k.cursor) : k.wake[n] = k.stamp

(* A checkpoint that somebody loaded: the latest, unless the thread moved. *)
Held(t, k) ==
  /\ CheckpointSound(t, k)
  /\ k.version <= th[t].version
  /\ Unmoved(t, k) => k = th[t]

ThreadsSound ==
  /\ sc \in Scenarios /\ clock \in 0..MaxTime
  /\ DOMAIN th = Threads
  /\ \A t \in Threads : CheckpointSound(t, th[t])

IsPass(x) == DOMAIN x = {"pc", "deadline", "at", "items", "earliest", "target", "wake", "loaded"}

(* A pass: the pause it chose was due, and is the one it resumes. *)
PassSound(x) ==
  /\ IsPass(x)
  /\ x.items \in Seq(Threads)
  /\ x.pc \in {"item", "resume", "put"} => x.items # <<>>
  /\ x.pc \in {"resume", "put"} => x.target \in Nodes /\ x.wake \in Int /\ x.wake <= clock
  /\ x.pc = "put" => /\ Held(Head(x.items), x.loaded)
                     /\ x.target \in Waiting(Head(x.items), x.loaded.cursor)
                     /\ x.loaded.wake[x.target] = x.wake
PassesSound ==
  /\ DOMAIN pass = Processes /\ \A p \in Processes : DOMAIN pass[p] = Passes
  /\ \A p \in Processes, c \in Passes : PassSound(pass[p][c])

IsApproval(t, cursor, n) == PauseOf(t, cursor, n).kind \in {"approval", "deadline"}

(* The call that answers an approval resumes one. *)
HumanSound ==
  /\ DOMAIN human = {"pc", "process", "thread", "node", "loaded"}
  /\ human.pc \in {"resume", "put"} => human.thread \in Threads /\ human.node \in Nodes
  /\ human.pc = "put" => /\ Held(human.thread, human.loaded)
                         /\ human.node \in Waiting(human.thread, human.loaded.cursor)
                         /\ IsApproval(human.thread, human.loaded.cursor, human.node)

(* What was decided is behind the cursor of its node. *)
LogSound ==
  \A d \in log : /\ d.thread \in Threads /\ d.node \in Nodes /\ d.cursor \in Nat
                 /\ d.cursor < th[d.thread].cursor[d.node]

TimerInv == ThreadsSound /\ PassesSound /\ HumanSound /\ LogSound /\ Decided

-----------------------------------------------------------------------------
(* The pause a node waits in is one of its body.                           *)
LEMMA PauseTyped ==
  ASSUME sc \in Scenarios, NEW t \in Threads, NEW cursor \in Cursors, NEW n \in Waiting(t, cursor)
  PROVE  n \in Nodes /\ PauseOf(t, cursor, n) \in Pauses
<1>1. n \in Nodes /\ cursor[n] \in Nat \ {0} /\ cursor[n] <= Len(Body(t, n))
  BY Zenon DEF Waiting, Cursors
<1>2. Body(t, n) \in Seq(Pauses)
  BY Zenon, <1>1, ConstantsAssumption DEF Body, Threads
<1>3. cursor[n] \in 1..Len(Body(t, n))
  BY <1>1, <1>2
<1>4. Body(t, n)[cursor[n]] \in Pauses
  BY <1>2, <1>3
<1> QED
  BY Zenon, <1>1, <1>4 DEF PauseOf

(* A due time is a time, and never comes for a plain approval.             *)
LEMMA DueTyped ==
  ASSUME clock \in Nat, NEW p \in Pauses, NEW first \in Nat
  PROVE  DueAt(p, first) \in Nat /\ (p.kind = "approval" => DueAt(p, first) = Never)
<1>1. p.kind \in {"until", "for", "approval", "deadline"} /\ p.wait \in Nat
  BY Zenon DEF Pauses
<1>2. Never \in Nat
  BY ConstantsAssumption DEF Never
<1> QED
  BY <1>1, <1>2 DEF DueAt

(* The least of some times.                                                *)
LEMMA MinOf ==
  ASSUME NEW S \in SUBSET Nat, S # {}
  PROVE  Min(S) \in S /\ \A y \in S : Min(S) <= y
<1>1. PICK R : R = OpToRel(<, Nat)
  BY Zenon
<1>2. IsWellFoundedOn(R, Nat)
  BY Zenon, <1>1, NatLessThanWellFounded
<1>3. \A y, x \in Nat : y < x => <<y, x>> \in R
  BY Zenon, <1>1 DEF OpToRel
<1>4. PICK x \in S : \A y \in S : <<y, x>> \notin R
  BY Zenon, <1>2, WFMin
<1>5. ASSUME NEW y \in S
      PROVE  x <= y
  <2>1. x \in Nat /\ y \in Nat /\ <<y, x>> \notin R
    BY Zenon, <1>4
  <2>2. ~(y < x)
    BY Zenon, <1>3, <2>1
  <2> QED
    BY <2>1, <2>2
<1> QED
  BY Zenon, <1>5 DEF Min

(* The checkpoint a run leaves.                                            *)
LEMMA StoredSound ==
  ASSUME NEW t \in Threads, NEW from, from.version \in Nat, NEW cursor \in Cursors, clock \in Nat,
         NEW wake \in [Nodes -> Nat],
         \A n \in Waiting(t, cursor) : PauseOf(t, cursor, n).kind = "approval" => wake[n] = Never
  PROVE  /\ CheckpointSound(t, Stored(t, from, cursor, wake))
         /\ Stored(t, from, cursor, wake).version = from.version + 1
         /\ Stored(t, from, cursor, wake).cursor = cursor
         /\ Stored(t, from, cursor, wake).since = clock
<1>1. PICK k : k = Stored(t, from, cursor, wake)
  BY Zenon
<1>2. PICK S : S = {Never} \cup {wake[n] : n \in Waiting(t, cursor)}
  BY Zenon
<1>3. /\ k.version = from.version + 1 /\ k.cursor = cursor /\ k.wake = wake
      /\ k.since = clock /\ k.stamp = Min(S)
  BY Zenon, <1>1, <1>2 DEF Stored
<1>4. from.version + 1 \in Nat /\ Never \in Nat /\ Waiting(t, cursor) \subseteq Nodes
  BY ConstantsAssumption DEF Never, Waiting
<1>5. S \in SUBSET Nat /\ S # {}
  BY Zenon, <1>2, <1>4
<1>6. k.stamp \in S
  BY Zenon, <1>3, <1>5, MinOf
<1>7. k.stamp \in Nat /\ (k.stamp = Never \/ \E n \in Waiting(t, cursor) : wake[n] = k.stamp)
  BY Zenon, <1>2, <1>5, <1>6
<1> QED
  BY Zenon, <1>1, <1>3, <1>4, <1>7 DEF CheckpointSound

(* A resumed run: the answered node is one pause further, the others wait  *)
(* where they waited.                                                      *)
LEMMA AnsweredSound ==
  ASSUME ThreadsSound, NEW t \in Threads, NEW from, CheckpointSound(t, from), NEW node \in Nodes
  PROVE  /\ CheckpointSound(t, Answered(t, from, node))
         /\ Answered(t, from, node).version = from.version + 1
         /\ Answered(t, from, node).cursor = [from.cursor EXCEPT ![node] = @ + 1]
         /\ Answered(t, from, node).since = clock
<1>1. clock \in Nat /\ Never \in Nat /\ sc \in Scenarios
  BY ConstantsAssumption DEF ThreadsSound, Never
<1>2. PICK cursor : cursor = [from.cursor EXCEPT ![node] = @ + 1]
  BY Zenon
<1>3. from.version \in Nat /\ from.cursor \in Cursors /\ from.wake \in [Nodes -> Nat]
  BY Zenon DEF CheckpointSound
<1>4. cursor \in Cursors /\ \A n \in Nodes : n # node => cursor[n] = from.cursor[n]
  BY <1>2, <1>3 DEF Cursors
<1>5. PICK wake : wake = [n \in Nodes |->
                 IF n \notin Waiting(t, cursor) THEN Never
                 ELSE IF n = node \/ PauseOf(t, cursor, n).kind = "for"
                 THEN DueAt(PauseOf(t, cursor, n), clock)
                 ELSE from.wake[n]]
  BY Zenon
<1>6. ASSUME NEW n \in Nodes
      PROVE  /\ wake[n] \in Nat
             /\ n \in Waiting(t, cursor) /\ PauseOf(t, cursor, n).kind = "approval" => wake[n] = Never
  <2>1. CASE n \notin Waiting(t, cursor)
    BY Zenon, <1>1, <1>5, <2>1
  <2>2. CASE n \in Waiting(t, cursor) /\ (n = node \/ PauseOf(t, cursor, n).kind = "for")
    <3>1. PauseOf(t, cursor, n) \in Pauses
      BY Zenon, <1>1, <1>4, <2>2, PauseTyped
    <3>2. wake[n] = DueAt(PauseOf(t, cursor, n), clock)
      BY Zenon, <1>5, <2>2
    <3> QED
      BY Zenon, <1>1, <3>1, <3>2, DueTyped
  <2>3. CASE n \in Waiting(t, cursor) /\ ~(n = node \/ PauseOf(t, cursor, n).kind = "for")
    <3>1. wake[n] = from.wake[n]
      BY Zenon, <1>5, <2>3
    <3>2. cursor[n] = from.cursor[n]
      BY Zenon, <1>4, <2>3
    <3>3. n \in Waiting(t, from.cursor) /\ PauseOf(t, from.cursor, n) = PauseOf(t, cursor, n)
      BY Zenon, <2>3, <3>2 DEF Waiting, PauseOf
    <3> QED
      BY Zenon, <1>3, <3>1, <3>3 DEF CheckpointSound
  <2> QED
    BY Zenon, <2>1, <2>2, <2>3
<1>7. wake \in [Nodes -> Nat]
  BY Zenon, <1>5, <1>6
<1>8. \A n \in Waiting(t, cursor) : PauseOf(t, cursor, n).kind = "approval" => wake[n] = Never
  BY Zenon, <1>6 DEF Waiting
<1>9. Answered(t, from, node) = Stored(t, from, cursor, wake)
  BY Zenon, <1>2, <1>5 DEF Answered
<1> QED
  BY <1>1, <1>2, <1>3, <1>4, <1>7, <1>8, <1>9, StoredSound

-----------------------------------------------------------------------------
(* What every step does to the threads: time goes on, a thread stays or    *)
(* gets its next checkpoint, no cursor goes back.                          *)
Evolves ==
  /\ sc' = sc /\ clock <= clock' /\ ThreadsSound'
  /\ \A t \in Threads :
       th'[t] = th[t] \/ (th'[t].version = th[t].version + 1 /\ th'[t].since = clock')
  /\ \A t \in Threads, n \in Nodes : th[t].cursor[n] <= th'[t].cursor[n]

(* A step that writes no checkpoint.                                       *)
LEMMA EvolvesQuietly ==
  ASSUME TimerInv, UNCHANGED <<sc, th>>, clock' \in 0..MaxTime, clock <= clock'
  PROVE  Evolves
<1>1. ThreadsSound'
  BY Zenon DEF TimerInv, ThreadsSound, Threads, CheckpointSound, Waiting, PauseOf, Body
<1>2. \A t \in Threads, n \in Nodes : th[t].cursor[n] \in Nat
  BY Zenon DEF TimerInv, ThreadsSound, CheckpointSound, Cursors
<1> QED
  BY SMTT(30), <1>1, <1>2 DEF Evolves

(* A step that writes the next checkpoint of one thread.                   *)
LEMMA EvolvesBy ==
  ASSUME TimerInv, UNCHANGED <<sc, clock>>, NEW t \in Threads, NEW k, CheckpointSound(t, k),
         k.version = th[t].version + 1, k.since = clock, \A n \in Nodes : th[t].cursor[n] <= k.cursor[n],
         th' = [th EXCEPT ![t] = k]
  PROVE  Evolves
<1>1. ThreadsSound
  BY Zenon DEF TimerInv
<1>2. \A u \in Threads : th'[u] = IF u = t THEN k ELSE th[u]
  BY Zenon, <1>1 DEF ThreadsSound
<1>3. DOMAIN th' = Threads /\ Threads' = Threads
  BY Zenon, <1>1 DEF ThreadsSound, Threads
<1>4. \A u \in Threads : CheckpointSound(u, th'[u])
  BY Zenon, <1>1, <1>2 DEF ThreadsSound
<1>5. \A u \in Threads : CheckpointSound(u, th[u])'
  BY ZenonT(30), <1>4 DEF CheckpointSound, Waiting, PauseOf, Body
<1>6. ThreadsSound'
  BY Zenon, <1>1, <1>3, <1>5 DEF ThreadsSound
<1>7. \A u \in Threads, n \in Nodes : th[u].cursor[n] \in Nat
  BY <1>1 DEF ThreadsSound, CheckpointSound, Cursors
<1>8. clock <= clock'
  BY <1>1 DEF ThreadsSound
<1> QED
  BY <1>2, <1>6, <1>7, <1>8 DEF Evolves

(* A loaded checkpoint stays the latest until the version moves on.        *)
LEMMA HeldStays ==
  ASSUME TimerInv, Evolves, NEW t \in Threads, NEW k, Held(t, k)
  PROVE  Held(t, k)'
<1>1. th[t].version \in Nat /\ k.version \in Nat
  BY Zenon DEF TimerInv, ThreadsSound, CheckpointSound, Held
<1>2. CheckpointSound(t, k)'
  BY Zenon DEF Held, CheckpointSound, Waiting, PauseOf, Body, Evolves
<1>3. CASE th'[t] = th[t]
  BY Zenon, <1>2, <1>3 DEF Held, Unmoved
<1>4. CASE th'[t].version = th[t].version + 1
  BY <1>1, <1>2, <1>4 DEF Held, Unmoved
<1> QED
  BY Zenon, <1>3, <1>4 DEF Evolves

(* The latest checkpoint, loaded.                                          *)
LEMMA HeldLatest ==
  ASSUME ThreadsSound, NEW t \in Threads
  PROVE  Held(t, th[t])
BY DEF ThreadsSound, Held, CheckpointSound

(* A pass that does not move stays sound.                                  *)
LEMMA PassStays ==
  ASSUME TimerInv, Evolves, NEW x, PassSound(x)
  PROVE  PassSound(x)'
<1>1. clock \in Int /\ clock' \in Int /\ clock <= clock' /\ Threads' = Threads
  BY ConstantsAssumption DEF TimerInv, ThreadsSound, Evolves, Threads
<1>2. x.pc \in {"resume", "put"} => x.target \in Nodes /\ x.wake \in Int /\ x.wake <= clock'
  BY <1>1 DEF PassSound
<1>3. x.pc = "put" => /\ Held(Head(x.items), x.loaded)'
                      /\ x.target \in Waiting(Head(x.items), x.loaded.cursor)'
  <2> SUFFICES ASSUME x.pc = "put"
               PROVE  /\ Held(Head(x.items), x.loaded)'
                      /\ x.target \in Waiting(Head(x.items), x.loaded.cursor)'
    BY Zenon
  <2>1. x.items \in Seq(Threads) /\ x.items # <<>>
    BY Zenon DEF PassSound
  <2>2. Head(x.items) \in Threads
    BY <2>1
  <2>3. Held(Head(x.items), x.loaded) /\ x.target \in Waiting(Head(x.items), x.loaded.cursor)
    BY Zenon DEF PassSound
  <2>4. Held(Head(x.items), x.loaded)'
    BY Zenon, <2>2, <2>3, HeldStays
  <2> QED
    BY Zenon, <2>3, <2>4 DEF Waiting, Body, Evolves
<1> QED
  BY Zenon, <1>1, <1>2, <1>3 DEF PassSound

(* The call of an approver that does not move stays sound.                 *)
LEMMA HumanStays ==
  ASSUME TimerInv, Evolves, human' = human
  PROVE  HumanSound'
<1>1. HumanSound /\ Threads' = Threads /\ sc' = sc
  BY Zenon DEF TimerInv, Evolves, Threads
<1>2. human.pc = "put" => Held(human.thread, human.loaded)'
  BY Zenon, <1>1, HeldStays DEF HumanSound
<1>3. human.pc = "put" => /\ human.node \in Waiting(human.thread, human.loaded.cursor)'
                          /\ IsApproval(human.thread, human.loaded.cursor, human.node)'
  BY Zenon, <1>1 DEF HumanSound, Waiting, Body, IsApproval, PauseOf
<1> QED
  BY Zenon, <1>1, <1>2, <1>3 DEF HumanSound

(* A step: the passes and the approver it moves are sound again.           *)
LEMMA StepSound ==
  ASSUME TimerInv, Evolves, human' = human \/ HumanSound',
         DOMAIN pass' = Processes, \A p \in Processes : DOMAIN pass'[p] = Passes,
         \A p \in Processes, c \in Passes : pass'[p][c] = pass[p][c] \/ PassSound(pass[p][c])'
  PROVE  PassesSound' /\ HumanSound' /\ (log' = log => TimerInv')
<1>1. Processes' = Processes /\ Threads' = Threads /\ ThreadsSound'
  BY Zenon DEF Evolves, Processes, Threads
<1>2. ASSUME NEW p \in Processes, NEW c \in Passes
      PROVE  PassSound(pass[p][c])'
  <2>1. CASE pass'[p][c] = pass[p][c]
    <3>1. PICK x : x = pass[p][c] /\ PassSound(x)
      BY Zenon DEF TimerInv, PassesSound
    <3>2. PassSound(x)'
      BY Zenon, <3>1, PassStays
    <3> QED
      BY Zenon, <2>1, <3>1, <3>2
  <2> QED
    BY Zenon, <2>1
<1>3. PassesSound'
  BY Zenon, <1>1, <1>2 DEF PassesSound
<1>4. HumanSound'
  BY Zenon, HumanStays
<1>5. ASSUME log' = log
      PROVE  LogSound' /\ Decided'
  <2>1. \A d \in log : d.cursor < th'[d.thread].cursor[d.node]
    <3> SUFFICES ASSUME NEW d \in log
                 PROVE  d.cursor < th'[d.thread].cursor[d.node]
      BY Zenon
    <3>1. d.thread \in Threads /\ d.node \in Nodes /\ d.cursor \in Nat /\ d.cursor < th[d.thread].cursor[d.node]
      BY Zenon DEF TimerInv, LogSound
    <3>2. th[d.thread].cursor[d.node] \in Nat
      BY Zenon, <3>1 DEF TimerInv, ThreadsSound, CheckpointSound, Cursors
    <3>3. th'[d.thread].cursor[d.node] \in Nat
      BY Zenon, <1>1, <3>1 DEF ThreadsSound, CheckpointSound, Cursors
    <3>4. th[d.thread].cursor[d.node] <= th'[d.thread].cursor[d.node]
      BY Zenon, <3>1 DEF Evolves
    <3> QED
      BY <3>1, <3>2, <3>3, <3>4
  <2> QED
    BY Zenon, <1>1, <1>5, <2>1 DEF TimerInv, LogSound, Decided
<1> QED
  BY Zenon, <1>1, <1>3, <1>4, <1>5 DEF TimerInv

-----------------------------------------------------------------------------
(* A pass that has nothing to tick.                                        *)
LEMMA IdleSound ==
  ASSUME NEW d
  PROVE  PassSound(IdlePass)' /\ PassSound([IdlePass EXCEPT !.pc = "armed", !.deadline = d])'
<1>1. PICK y : y = [IdlePass EXCEPT !.pc = "armed", !.deadline = d]
  BY Zenon
<1>2. IsPass(IdlePass) /\ IdlePass.pc = "off" /\ IdlePass.items = <<>>
  BY Zenon DEF IsPass, IdlePass
<1>3. IsPass(y) /\ y.pc = "armed" /\ y.items = <<>>
  BY Zenon, <1>1, <1>2 DEF IsPass
<1>4. PICK e : e = <<>>
  BY Zenon
<1>5. e \in Seq(Threads)'
  BY <1>4
<1>6. PassSound(IdlePass)'
  BY Zenon, <1>2, <1>4, <1>5 DEF PassSound, IsPass
<1>7. PassSound(y)'
  BY Zenon, <1>3, <1>4, <1>5 DEF PassSound, IsPass
<1> QED
  BY Zenon, <1>1, <1>6, <1>7

(* A step that moves pass c of p to x.                                     *)
PassMoves(p, c, x) == pass' = [pass EXCEPT ![p][c] = x]

(* Such a step leaves the other passes alone.                              *)
LEMMA OnePass ==
  ASSUME PassesSound, NEW p \in Processes, NEW c \in Passes, NEW x, PassMoves(p, c, x), PassSound(x)'
  PROVE  /\ DOMAIN pass' = Processes /\ \A q \in Processes : DOMAIN pass'[q] = Passes
         /\ \A q \in Processes, d \in Passes : pass'[q][d] = pass[q][d] \/ PassSound(pass[q][d])'
<1>1. /\ DOMAIN pass' = Processes /\ \A q \in Processes : DOMAIN pass'[q] = Passes
      /\ pass'[p][c] = x
      /\ \A q \in Processes, d \in Passes : ~(q = p /\ d = c) => pass'[q][d] = pass[q][d]
  BY Zenon DEF PassMoves, PassesSound
<1> QED
  BY Zenon, <1>1

(* A pass goes on with its threads, or is over.                            *)
LEMMA ProceedSound ==
  ASSUME TimerInv, Evolves, NEW p \in Processes, NEW c \in Passes, NEW s, IsPass(s), s.pc = "item",
         s.items \in Seq(Threads), Proceed(p, c, s)
  PROVE  \E x : PassMoves(p, c, x) /\ PassSound(x)'
<1>1. Threads' = Threads
  BY Zenon DEF Evolves, Threads
<1>2. CASE s.items # <<>>
  <2>1. PassSound(s)'
    BY Zenon, <1>1, <1>2 DEF PassSound, IsPass
  <2>2. PassMoves(p, c, s)
    BY Zenon, <1>2 DEF Proceed, PassMoves
  <2> QED
    BY Zenon, <2>1, <2>2
<1>3. CASE s.items = <<>>
  <2>1. PassMoves(p, c, Rearmed(p, c, s.earliest))
    BY Zenon, <1>3 DEF Proceed, PassMoves
  <2>2. PICK d : Rearmed(p, c, s.earliest) \in {IdlePass, [IdlePass EXCEPT !.pc = "armed", !.deadline = d]}
    BY Zenon DEF Rearmed
  <2> QED
    BY Zenon, <2>1, <2>2, IdleSound
<1> QED
  BY Zenon, <1>2, <1>3

(* The tick of a thread is over.                                           *)
LEMMA NextItemSound ==
  ASSUME TimerInv, Evolves, NEW p \in Processes, NEW c \in Passes, NEW w,
         pass[p][c].pc \in {"item", "resume", "put"}, NextItem(p, c, w)
  PROVE  \E x : PassMoves(p, c, x) /\ PassSound(x)'
<1>1. PICK v : v = pass[p][c] /\ PassSound(v) /\ v.items # <<>> /\ v.items \in Seq(Threads)
  BY Zenon DEF TimerInv, PassesSound, PassSound
<1>2. PICK e : e = Min({v.earliest, w})
  BY Zenon
<1>3. PICK s : s = [v EXCEPT !.pc = "item", !.items = Tail(@), !.earliest = e]
  BY Zenon
<1>4. IsPass(s) /\ s.pc = "item" /\ s.items = Tail(v.items)
  BY Zenon, <1>1, <1>3 DEF PassSound, IsPass
<1>5. s.items \in Seq(Threads)
  BY <1>1, <1>4
<1>6. s = [pass[p][c] EXCEPT !.pc = "item", !.items = Tail(@), !.earliest = Min({@, w})]
  BY Zenon, <1>1, <1>2, <1>3
<1>7. CASE s.items # <<>>
  <2>1. PassMoves(p, c, s)
    BY Zenon, <1>6, <1>7 DEF NextItem, PassMoves
  <2>2. PassSound(s)'
    BY Zenon, <1>4, <1>5, <1>7 DEF PassSound, IsPass, Evolves, Threads
  <2> QED
    BY Zenon, <2>1, <2>2
<1>8. CASE s.items = <<>>
  <2>1. Proceed(p, c, s)
    BY Zenon, <1>6, <1>8 DEF NextItem
  <2> QED
    BY Zenon, <1>4, <1>5, <2>1, ProceedSound
<1> QED
  BY Zenon, <1>7, <1>8

(* The first elements of a list.                                           *)
LEMMA Prefix ==
  ASSUME NEW S, NEW q \in Seq(S), NEW m \in 0..Len(q)
  PROVE  /\ SubSeq(q, 1, m) \in Seq(S) /\ Len(SubSeq(q, 1, m)) = m
         /\ \A i \in 1..m : SubSeq(q, 1, m)[i] = q[i]
OBVIOUS

(* sweepOnce lists threads.                                                *)
LEMMA SweptSound ==
  ASSUME ThreadsSound, NEW list \in Listed
  PROVE  IsPass(Swept(list)) /\ Swept(list).pc = "item" /\ Swept(list).items \in Seq(Threads)
<1>1. PICK n : n = Min({BatchLimit, Cardinality(Ahead)})
  BY Zenon
<1>2. Ahead \subseteq Threads /\ IsFiniteSet(Threads)
  BY Zenon, ConstantsAssumption DEF Ahead, Threads, ThreadsSound
<1>3. Cardinality(Ahead) \in Nat /\ BatchLimit \in Nat
  BY Zenon, <1>2, FS_Subset, FS_CardinalityType, ConstantsAssumption
<1>4. n \in Nat
  BY <1>1, <1>3 DEF Min
<1>5. list \in [1..n -> Threads]
  BY Zenon, <1>1, <1>2 DEF Listed
<1>6. list \in Seq(Threads) /\ Len(list) = n /\ DOMAIN list = 1..n
  BY <1>4, <1>5
<1>7. PICK S : S = {i \in DOMAIN list : th[list[i]].stamp <= clock}
  BY Zenon
<1>8. S \subseteq 1..n /\ IsFiniteSet(1..n) /\ Cardinality(1..n) = n
  BY <1>4, <1>6, <1>7, FS_Interval
<1>9. Cardinality(S) \in 0..n
  <2>1. IsFiniteSet(S) /\ Cardinality(S) <= Cardinality(1..n)
    BY Zenon, <1>8, FS_Subset
  <2>2. Cardinality(S) \in Nat
    BY Zenon, <2>1, FS_CardinalityType
  <2> QED
    BY <1>4, <1>8, <2>1, <2>2
<1>10. DueOf(list) \in Seq(Threads)
  <2>1. PICK m \in 0..n : m = Cardinality(S)
    BY Zenon, <1>9
  <2>2. SubSeq(list, 1, m) \in Seq(Threads)
    BY Zenon, <1>6, <2>1, Prefix
  <2> QED
    BY Zenon, <1>7, <2>1, <2>2 DEF DueOf
<1>11. PICK e : e = Min({Never} \cup {th[t].stamp : t \in {u \in Range(list) : th[u].stamp > clock}})
  BY Zenon
<1>12. PICK x : x = [IdlePass EXCEPT !.pc = "item", !.at = clock, !.items = DueOf(list), !.earliest = e]
  BY Zenon
<1>13. IsPass(IdlePass)
  BY Zenon DEF IsPass, IdlePass
<1>14. IsPass(x) /\ x.pc = "item" /\ x.items = DueOf(list)
  BY Zenon, <1>12, <1>13 DEF IsPass
<1>15. Swept(list) = x
  BY Zenon, <1>11, <1>12 DEF Swept
<1> QED
  BY Zenon, <1>10, <1>14, <1>15

-----------------------------------------------------------------------------
(* The heart: a call that finds the version it loaded decides a pause      *)
(* nobody decided before, as it may.                                       *)
LEMMA DecideSound ==
  ASSUME TimerInv, UNCHANGED <<sc, clock>>, NEW t \in Threads, NEW k, Held(t, k), Unmoved(t, k),
         NEW n \in Waiting(t, k.cursor), NEW how \in {"timer", "human"}, NEW by,
         how = "timer" => k.wake[n] <= clock, how = "human" => IsApproval(t, k.cursor, n),
         th' = [th EXCEPT ![t] = Answered(t, k, n)],
         log' = log \cup {Decision(t, k, n, how, by)}
  PROVE  Evolves /\ LogSound' /\ Decided'
<1>1. k = th[t] /\ CheckpointSound(t, k) /\ ThreadsSound /\ n \in Nodes
  BY Zenon DEF Held, TimerInv, Waiting
<1>2. PICK a : a = Answered(t, k, n)
  BY Zenon
<1>3. /\ CheckpointSound(t, a) /\ a.version = th[t].version + 1 /\ a.cursor = [k.cursor EXCEPT ![n] = @ + 1]
      /\ a.since = clock
  BY <1>1, <1>2, AnsweredSound
<1>4. k.cursor \in Cursors /\ k.wake \in [Nodes -> Nat]
  BY Zenon, <1>1 DEF CheckpointSound
<1>5. k.cursor[n] \in Nat /\ a.cursor[n] = k.cursor[n] + 1
  BY Zenon, <1>1, <1>3, <1>4 DEF Cursors
<1>6. \A m \in Nodes : th[t].cursor[m] <= a.cursor[m]
  BY <1>1, <1>3, <1>4 DEF Cursors
<1>7. Evolves
  BY ZenonT(30), <1>2, <1>3, <1>6, EvolvesBy
<1>8. PICK d : d = Decision(t, k, n, how, by)
  BY Zenon
<1>9. /\ d.thread = t /\ d.node = n /\ d.cursor = k.cursor[n] /\ d.how = how
      /\ d.kind = PauseOf(t, k.cursor, n).kind /\ d.early = (clock < k.wake[n])
  BY Zenon, <1>8 DEF Decision
<1>10. th'[t] = a /\ log' = log \cup {d} /\ Threads' = Threads
  BY Zenon, <1>1, <1>2, <1>8 DEF ThreadsSound, Threads
<1>11. \A e \in log : /\ e.thread \in Threads /\ e.node \in Nodes /\ e.cursor \in Nat
                      /\ e.cursor < th[e.thread].cursor[e.node]
  BY Zenon DEF TimerInv, LogSound
<1>12. LogSound'
  <2> SUFFICES ASSUME NEW e \in log'
               PROVE  /\ e.thread \in Threads /\ e.node \in Nodes /\ e.cursor \in Nat
                      /\ e.cursor < th'[e.thread].cursor[e.node]
    BY Zenon, <1>10 DEF LogSound
  <2>1. CASE e = d
    BY <1>1, <1>5, <1>9, <1>10, <2>1
  <2>2. CASE e \in log
    <3>1. th[e.thread].cursor[e.node] \in Nat /\ th'[e.thread].cursor[e.node] \in Nat
      BY <1>7, <1>10, <1>11, <2>2 DEF Evolves, TimerInv, ThreadsSound, CheckpointSound, Cursors
    <3>2. th[e.thread].cursor[e.node] <= th'[e.thread].cursor[e.node]
      BY Zenon, <1>7, <1>11, <2>2 DEF Evolves
    <3> QED
      BY SMTT(30), <1>11, <2>2, <3>1, <3>2
  <2> QED
    BY <1>10, <2>1, <2>2
<1>13. how = "timer" => d.kind # "approval" /\ ~d.early
  <2> SUFFICES ASSUME how = "timer"
               PROVE  d.kind # "approval" /\ ~d.early
    BY Zenon
  <2>1. k.wake[n] \in Int /\ clock \in 0..MaxTime /\ MaxTime \in Nat /\ PollInterval \in Nat
    BY <1>1, <1>4, ConstantsAssumption DEF ThreadsSound
  <2>2. ~(clock < k.wake[n])
    BY <2>1
  <2>3. k.wake[n] # Never
    BY <2>1 DEF Never
  <2>4. PauseOf(t, k.cursor, n).kind # "approval"
    BY Zenon, <1>1, <2>3 DEF CheckpointSound
  <2> QED
    BY ZenonT(30), <1>9, <2>2, <2>4
<1>14. how = "human" => d.kind \in {"approval", "deadline"}
  BY Zenon, <1>9 DEF IsApproval
<1>15. \A e \in log : ~(e.thread = t /\ e.node = n /\ e.cursor = k.cursor[n])
  <2> SUFFICES ASSUME NEW e \in log, e.thread = t, e.node = n, e.cursor = k.cursor[n]
               PROVE  FALSE
    BY Zenon
  <2>1. e.cursor < k.cursor[n]
    BY Zenon, <1>1, <1>11
  <2> QED
    BY <1>5, <2>1
<1>16. Decided'
  <2> SUFFICES ASSUME NEW e \in log'
               PROVE  /\ e.how = "timer" => e.kind # "approval" /\ ~e.early
                      /\ e.how = "human" => e.kind \in {"approval", "deadline"}
                      /\ \A f \in log' : e.thread = f.thread /\ e.node = f.node /\ e.cursor = f.cursor => e = f
    BY Zenon DEF Decided
  <2>1. CASE e = d
    BY SMTT(30), <1>9, <1>10, <1>13, <1>14, <1>15, <2>1
  <2>2. CASE e \in log
    BY <1>9, <1>10, <1>15, <2>2 DEF TimerInv, Decided
  <2> QED
    BY Zenon, <1>10, <2>1, <2>2
<1> QED
  BY Zenon, <1>7, <1>12, <1>16

-----------------------------------------------------------------------------
(* Time passes.                                                            *)
LEMMA TickKeeps ==
  ASSUME TimerInv, Tick
  PROVE  TimerInv' /\ Evolves
<1>1. clock \in 0..MaxTime /\ MaxTime \in Nat /\ clock < MaxTime /\ clock' = clock + 1
  BY Zenon, ConstantsAssumption DEF TimerInv, ThreadsSound, Tick
<1>2. clock' \in 0..MaxTime /\ clock <= clock'
  BY <1>1
<1>3. Evolves
  BY Zenon, <1>2, EvolvesQuietly DEF Tick
<1> QED
  BY Zenon, <1>3, StepSound DEF Tick, TimerInv, PassesSound

(* A step that moves one pass and writes no checkpoint.                    *)
LEMMA PassKeeps ==
  ASSUME TimerInv, UNCHANGED <<sc, clock, th, human, log>>, NEW p \in Processes, NEW c \in Passes,
         \E x : PassMoves(p, c, x) /\ PassSound(x)'
  PROVE  TimerInv' /\ Evolves
<1>1. clock' \in 0..MaxTime /\ clock <= clock'
  BY ConstantsAssumption DEF TimerInv, ThreadsSound
<1>2. Evolves
  BY Zenon, <1>1, EvolvesQuietly
<1>3. PICK x : PassMoves(p, c, x) /\ PassSound(x)'
  BY Zenon
<1>4. PassesSound
  BY Zenon DEF TimerInv
<1>5. /\ DOMAIN pass' = Processes /\ \A q \in Processes : DOMAIN pass'[q] = Passes
      /\ \A q \in Processes, d \in Passes : pass'[q][d] = pass[q][d] \/ PassSound(pass[q][d])'
  BY Zenon, <1>3, <1>4, OnePass
<1> QED
  BY Zenon, <1>2, <1>5, StepSound

(* Nothing the driver does outside its ticks writes a checkpoint.          *)
LEMMA QuietEvolves ==
  ASSUME TimerInv, UNCHANGED <<sc, clock, th>>
  PROVE  Evolves
<1>1. clock' \in 0..MaxTime /\ clock <= clock'
  BY ConstantsAssumption DEF TimerInv, ThreadsSound
<1> QED
  BY Zenon, <1>1, EvolvesQuietly

(* No approval is being answered.                                          *)
LEMMA IdleHumanSound ==
  ASSUME human' = IdleHuman
  PROVE  HumanSound'
<1>1. /\ DOMAIN human' = {"pc", "process", "thread", "node", "loaded"}
      /\ human'.pc = "idle"
  BY Zenon DEF IdleHuman
<1> QED
  BY Zenon, <1>1 DEF HumanSound

(* execute() writes the first checkpoint.                                  *)
LEMMA ExecuteKeeps ==
  ASSUME TimerInv, NEW t \in Threads, Execute(t)
  PROVE  TimerInv' /\ Evolves
<1>1. PICK k : k = th[t] /\ CheckpointSound(t, k) /\ k.cursor \in Cursors /\ k.version \in Nat
  BY Zenon DEF TimerInv, ThreadsSound, CheckpointSound
<1>2. clock \in Nat /\ Never \in Nat /\ sc \in Scenarios
  BY ConstantsAssumption DEF TimerInv, ThreadsSound, Never
<1>3. PICK wake : wake = [n \in Nodes |-> IF n \in Waiting(t, k.cursor)
                                          THEN DueAt(PauseOf(t, k.cursor, n), clock) ELSE Never]
  BY Zenon
<1>4. ASSUME NEW n \in Nodes
      PROVE  /\ wake[n] \in Nat
             /\ n \in Waiting(t, k.cursor) /\ PauseOf(t, k.cursor, n).kind = "approval" => wake[n] = Never
  <2>1. CASE n \in Waiting(t, k.cursor)
    <3>1. PauseOf(t, k.cursor, n) \in Pauses
      BY Zenon, <1>1, <1>2, <2>1, PauseTyped
    <3>2. wake[n] = DueAt(PauseOf(t, k.cursor, n), clock)
      BY Zenon, <1>3, <2>1
    <3> QED
      BY Zenon, <1>2, <3>1, <3>2, DueTyped
  <2>2. CASE n \notin Waiting(t, k.cursor)
    BY Zenon, <1>2, <1>3, <2>2
  <2> QED
    BY Zenon, <2>1, <2>2
<1>5. wake \in [Nodes -> Nat]
  BY Zenon, <1>3, <1>4
<1>6. \A n \in Waiting(t, k.cursor) : PauseOf(t, k.cursor, n).kind = "approval" => wake[n] = Never
  BY Zenon, <1>4 DEF Waiting
<1>7. PICK a : a = Stored(t, k, k.cursor, wake)
  BY Zenon
<1>8. CheckpointSound(t, a) /\ a.version = k.version + 1 /\ a.cursor = k.cursor /\ a.since = clock
  BY <1>1, <1>2, <1>5, <1>6, <1>7, StoredSound
<1>9. th' = [th EXCEPT ![t] = a] /\ UNCHANGED <<sc, clock, pass, human, log>>
  BY Zenon, <1>1, <1>3, <1>7 DEF Execute
<1>10. \A n \in Nodes : th[t].cursor[n] <= a.cursor[n]
  BY <1>1, <1>8 DEF Cursors
<1>11. Evolves
  BY Zenon, <1>1, <1>8, <1>9, <1>10, EvolvesBy
<1> QED
  BY Zenon, <1>9, <1>11, StepSound DEF TimerInv, PassesSound

(* start() arms a polling chain.                                           *)
LEMMA StartKeeps ==
  ASSUME TimerInv, NEW p \in Processes, StartDriver(p)
  PROVE  TimerInv' /\ Evolves
<1>1. PICK c : c = Min(FreeChains(p))
  BY Zenon
<1>2. PICK x : x = [IdlePass EXCEPT !.pc = "armed", !.deadline = clock]
  BY Zenon
<1>3. pass' = [pass EXCEPT ![p][c] = x] /\ UNCHANGED <<sc, clock, th, human, log>>
  BY Zenon, <1>1, <1>2 DEF StartDriver
<1>4. PassSound(x)'
  BY Zenon, <1>2, IdleSound
<1>5. /\ DOMAIN pass' = Processes /\ \A q \in Processes : DOMAIN pass'[q] = Passes
      /\ \A q \in Processes, d \in Passes : pass'[q][d] = pass[q][d] \/ pass'[q][d] = x
  BY Zenon, <1>3 DEF TimerInv, PassesSound
<1>6. \A q \in Processes, d \in Passes : pass'[q][d] = pass[q][d] \/ PassSound(pass[q][d])'
  BY Zenon, <1>4, <1>5
<1>7. Evolves
  BY Zenon, <1>3, QuietEvolves
<1> QED
  BY Zenon, <1>3, <1>5, <1>6, <1>7, StepSound

(* stop() clears the timeout of the chain it knows.                        *)
LEMMA StopKeeps ==
  ASSUME TimerInv, NEW p \in Processes, StopDriver(p)
  PROVE  TimerInv' /\ Evolves
<1>1. UNCHANGED <<sc, clock, th, human, log>>
  BY Zenon DEF StopDriver
<1>2. PassSound(IdlePass)'
  BY Zenon, IdleSound
<1>3. /\ DOMAIN pass' = Processes /\ \A q \in Processes : DOMAIN pass'[q] = Passes
      /\ \A q \in Processes, d \in Passes : pass'[q][d] = pass[q][d] \/ pass'[q][d] = IdlePass
  BY Zenon DEF StopDriver, TimerInv, PassesSound
<1>4. \A q \in Processes, d \in Passes : pass'[q][d] = pass[q][d] \/ PassSound(pass[q][d])'
  <2> SUFFICES ASSUME NEW q \in Processes, NEW d \in Passes, pass'[q][d] = IdlePass
               PROVE  PassSound(pass[q][d])'
    BY <1>3
  <2>1. PICK x : x = IdlePass
    BY Zenon
  <2> QED
    BY Zenon, <1>2, <2>1
<1>5. Evolves
  BY Zenon, <1>1, QuietEvolves
<1> QED
  BY <1>1, <1>3, <1>4, <1>5, StepSound

(* A process is lost: its passes, and the approver that called it.         *)
LEMMA CrashKeeps ==
  ASSUME TimerInv, NEW p \in Processes, Crash(p)
  PROVE  TimerInv' /\ Evolves
<1>1. UNCHANGED <<sc, clock, th, log>>
  BY Zenon DEF Crash
<1>2. PassSound(IdlePass)'
  BY Zenon, IdleSound
<1>3. /\ DOMAIN pass' = Processes /\ \A q \in Processes : DOMAIN pass'[q] = Passes
      /\ \A q \in Processes, d \in Passes : pass'[q][d] = pass[q][d] \/ pass'[q][d] = IdlePass
  BY DEF Crash, TimerInv, PassesSound
<1>4. \A q \in Processes, d \in Passes : pass'[q][d] = pass[q][d] \/ PassSound(pass[q][d])'
  <2> SUFFICES ASSUME NEW q \in Processes, NEW d \in Passes, pass'[q][d] = IdlePass
               PROVE  PassSound(pass[q][d])'
    BY <1>3
  <2>1. PICK x : x = IdlePass
    OBVIOUS
  <2> QED
    BY <1>2, <2>1
<1>5. Evolves
  BY Zenon, <1>1, QuietEvolves
<1>6. human' = human \/ HumanSound'
  BY Zenon, IdleHumanSound DEF Crash
<1> QED
  BY Zenon, <1>1, <1>3, <1>4, <1>5, <1>6, StepSound

(* A pass begins, or the driver was stopped meanwhile.                     *)
LEMMA RunPassKeeps ==
  ASSUME TimerInv, NEW p \in Processes, NEW c \in Passes, RunPass(p, c)
  PROVE  TimerInv' /\ Evolves
<1>1. UNCHANGED <<sc, clock, th, human, log>> /\ ThreadsSound
  BY Zenon DEF RunPass, TimerInv
<1>2. Evolves
  BY Zenon, <1>1, QuietEvolves
<1>3. CASE drv[p].running
  <2>1. PICK list \in Listed : Proceed(p, c, Swept(list))
    BY Zenon, <1>3 DEF RunPass
  <2>2. PICK s : s = Swept(list)
    BY Zenon
  <2>3. IsPass(s) /\ s.pc = "item" /\ s.items \in Seq(Threads) /\ Proceed(p, c, s)
    BY Zenon, <1>1, <2>1, <2>2, SweptSound
  <2>4. \E x : PassMoves(p, c, x) /\ PassSound(x)'
    BY Zenon, <1>2, <2>3, ProceedSound
  <2> QED
    BY Zenon, <1>1, <2>4, PassKeeps
<1>4. CASE ~drv[p].running
  <2>1. PassMoves(p, c, IdlePass)
    BY Zenon, <1>4 DEF RunPass, PassMoves
  <2>2. \E x : PassMoves(p, c, x) /\ PassSound(x)'
    BY Zenon, <2>1, IdleSound
  <2> QED
    BY Zenon, <1>1, <2>2, PassKeeps
<1> QED
  BY Zenon, <1>3, <1>4

(* sweep() runs a pass of its own, or joins the one in flight.             *)
LEMMA SweepKeeps ==
  ASSUME TimerInv, NEW p \in Processes, Sweep(p)
  PROVE  TimerInv' /\ Evolves
<1>1. UNCHANGED <<sc, clock, th, human, log>> /\ ThreadsSound /\ Manual \in Passes
  BY Zenon DEF Sweep, TimerInv, Passes
<1>2. Evolves
  BY Zenon, <1>1, QuietEvolves
<1>3. CASE ~drv[p].inFlight
  <2>1. PICK list \in Listed : Proceed(p, Manual, Swept(list))
    BY Zenon, <1>3 DEF Sweep
  <2>2. PICK s : s = Swept(list)
    BY Zenon
  <2>3. IsPass(s) /\ s.pc = "item" /\ s.items \in Seq(Threads) /\ Proceed(p, Manual, s)
    BY Zenon, <1>1, <2>1, <2>2, SweptSound
  <2>4. \E x : PassMoves(p, Manual, x) /\ PassSound(x)'
    BY <1>1, <1>2, <2>3, ProceedSound
  <2> QED
    BY Zenon, <1>1, <2>4, PassKeeps
<1>4. CASE drv[p].inFlight
  <2>1. pass' = pass
    BY Zenon, <1>4 DEF Sweep
  <2> QED
    BY Zenon, <1>1, <1>2, <2>1, StepSound DEF TimerInv, PassesSound
<1> QED
  BY Zenon, <1>3, <1>4

(* A pass that ticks: what it is about.                                    *)
LEMMA Ticking ==
  ASSUME TimerInv, NEW p \in Processes, NEW c \in Passes, pass[p][c].pc \in {"item", "resume", "put"}
  PROVE  Item(p, c) \in Threads /\ PassSound(pass[p][c])
<1>1. PICK v : v = pass[p][c] /\ PassSound(v)
  BY Zenon DEF TimerInv, PassesSound
<1>2. v.items \in Seq(Threads) /\ v.items # <<>>
  BY Zenon, <1>1 DEF PassSound
<1>3. Head(v.items) \in Threads
  BY <1>2
<1> QED
  BY Zenon, <1>1, <1>3 DEF Item

(* tick() reads the checkpoint and picks a pause that is due.              *)
LEMMA TickReadKeeps ==
  ASSUME TimerInv, NEW p \in Processes, NEW c \in Passes, TickRead(p, c)
  PROVE  TimerInv' /\ Evolves
<1>1. UNCHANGED <<sc, clock, th, human, log>> /\ pass[p][c].pc = "item"
  BY Zenon DEF TickRead
<1>2. Evolves
  BY Zenon, <1>1, QuietEvolves
<1>3. PICK t \in Threads : t = Item(p, c)
  BY Zenon, <1>1, Ticking
<1>4. CASE Due(t) = {} \/ th[t].status # "suspended"
  <2>1. PICK w : w = Min({Never} \cup {th[t].wake[n] : n \in Pending(t) \ Due(t)})
    BY ZenonT(30)
  <2>2. NextItem(p, c, w)
    BY Zenon, <1>3, <1>4, <2>1 DEF TickRead
  <2>3. \E x : PassMoves(p, c, x) /\ PassSound(x)'
    BY <1>1, <1>2, <2>2, NextItemSound
  <2> QED
    BY Zenon, <1>1, <2>3, PassKeeps
<1>5. CASE ~(Due(t) = {} \/ th[t].status # "suspended")
  <2>1. PICK n \in Due(t) : pass' = [pass EXCEPT ![p][c].pc = "resume", ![p][c].target = n,
                                                 ![p][c].wake = th[t].wake[n]]
    BY Zenon, <1>3, <1>5 DEF TickRead
  <2>2. PICK v : v = pass[p][c] /\ PassSound(v)
    BY Zenon, <1>1, Ticking
  <2>3. PICK w : w = th[t].wake[n]
    BY Zenon
  <2>4. PICK x : x = [v EXCEPT !.pc = "resume", !.target = n, !.wake = w]
    BY Zenon
  <2>5. PassMoves(p, c, x)
    BY ZenonT(30), <2>1, <2>2, <2>3, <2>4 DEF PassMoves, TimerInv, PassesSound
  <2>6. n \in Nodes /\ w <= clock
    BY Zenon, <2>3 DEF Due, Pending, Waiting
  <2>7. w \in Int
    BY <2>3, <2>6 DEF TimerInv, ThreadsSound, CheckpointSound
  <2>8. IsPass(x) /\ x.pc = "resume" /\ x.target = n /\ x.wake = w /\ x.items = v.items
    BY Zenon, <2>2, <2>4 DEF PassSound, IsPass
  <2>9. v.items \in Seq(Threads) /\ v.items # <<>>
    BY Zenon, <1>1, <2>2 DEF PassSound
  <2>10. PassSound(x)
    BY Zenon, <2>6, <2>7, <2>8, <2>9 DEF PassSound
  <2>11. PassSound(x)'
    BY Zenon, <1>2, <2>10, PassStays
  <2> QED
    BY Zenon, <1>1, <2>5, <2>11, PassKeeps
<1> QED
  BY Zenon, <1>4, <1>5

(* tick's resume loads the checkpoint if the pause is still there.         *)
LEMMA TickResumeKeeps ==
  ASSUME TimerInv, NEW p \in Processes, NEW c \in Passes, TickResume(p, c)
  PROVE  TimerInv' /\ Evolves
<1>1. UNCHANGED <<sc, clock, th, human, log>> /\ pass[p][c].pc = "resume"
  BY Zenon DEF TickResume
<1>2. Evolves
  BY Zenon, <1>1, QuietEvolves
<1>3. PICK t \in Threads : t = Item(p, c)
  BY Zenon, <1>1, Ticking
<1>4. CASE ~(<<p, t>> \notin lock /\ Found(t, pass[p][c].target, pass[p][c].wake))
  <2>1. NextItem(p, c, Never)
    BY Zenon, <1>3, <1>4 DEF TickResume
  <2>2. \E x : PassMoves(p, c, x) /\ PassSound(x)'
    BY <1>1, <1>2, <2>1, NextItemSound
  <2> QED
    BY Zenon, <1>1, <2>2, PassKeeps
<1>5. CASE <<p, t>> \notin lock /\ Found(t, pass[p][c].target, pass[p][c].wake)
  <2>1. PICK v : v = pass[p][c] /\ PassSound(v)
    BY Zenon, <1>1, Ticking
  <2>2. PICK k : k = th[t]
    BY Zenon
  <2>3. PICK x : x = [v EXCEPT !.pc = "put", !.loaded = k]
    BY Zenon
  <2>4. pass' = [pass EXCEPT ![p][c].pc = "put", ![p][c].loaded = th[t]]
    BY Zenon, <1>3, <1>5 DEF TickResume
  <2>5. PassMoves(p, c, x)
    BY ZenonT(30), <2>1, <2>2, <2>3, <2>4 DEF PassMoves, TimerInv, PassesSound
  <2>6. v.target \in Waiting(t, k.cursor) /\ k.wake[v.target] = v.wake
    BY Zenon, <1>5, <2>1, <2>2 DEF Found, Pending
  <2>7. Held(t, k)
    BY <2>2, HeldLatest DEF TimerInv
  <2>8. /\ IsPass(x) /\ x.pc = "put" /\ x.target = v.target /\ x.wake = v.wake /\ x.items = v.items
        /\ x.loaded = k
    BY Zenon, <2>1, <2>3 DEF PassSound, IsPass
  <2>9. v.items \in Seq(Threads) /\ v.items # <<>> /\ v.target \in Nodes /\ v.wake \in Int /\ v.wake <= clock
    BY ZenonT(30), <1>1, <2>1 DEF PassSound
  <2>10. Head(x.items) = t
    BY Zenon, <1>3, <2>1, <2>8 DEF Item
  <2>11. PassSound(x)
    BY Zenon, <2>6, <2>7, <2>8, <2>9, <2>10 DEF PassSound
  <2>12. PassSound(x)'
    BY Zenon, <1>2, <2>11, PassStays
  <2> QED
    BY Zenon, <1>1, <2>5, <2>12, PassKeeps
<1> QED
  BY Zenon, <1>4, <1>5

(* The resumed run writes its checkpoint, unless somebody was first.       *)
LEMMA TickPutKeeps ==
  ASSUME TimerInv, NEW p \in Processes, NEW c \in Passes, TickPut(p, c)
  PROVE  TimerInv' /\ Evolves
<1>1. UNCHANGED <<sc, clock, human>> /\ pass[p][c].pc = "put"
  BY ZenonT(30) DEF TickPut
<1>2. PICK t \in Threads : t = Item(p, c)
  BY Zenon, <1>1, Ticking
<1>3. PICK v : v = pass[p][c] /\ PassSound(v)
  BY Zenon, <1>1, Ticking
<1>4. PICK k : k = v.loaded
  BY Zenon
<1>5. PICK n : n = v.target
  BY Zenon
<1>6. /\ Held(t, k) /\ n \in Waiting(t, k.cursor) /\ k.wake[n] = v.wake
      /\ v.wake \in Int /\ v.wake <= clock
  <2>1. v.pc = "put" /\ t = Head(v.items)
    BY Zenon, <1>1, <1>2, <1>3 DEF Item
  <2> QED
    BY Zenon, <1>3, <1>4, <1>5, <2>1 DEF PassSound
<1>7. CASE ~Unmoved(t, k)
  <2>1. UNCHANGED <<th, log>> /\ NextItem(p, c, Never)
    BY <1>2, <1>3, <1>4, <1>7 DEF TickPut
  <2>2. Evolves
    BY Zenon, <1>1, <2>1, QuietEvolves
  <2>3. pass[p][c].pc \in {"item", "resume", "put"}
    BY Zenon, <1>1
  <2>4. \E x : PassMoves(p, c, x) /\ PassSound(x)'
    BY <2>1, <2>2, <2>3, NextItemSound
  <2> QED
    BY Zenon, <1>1, <2>1, <2>4, PassKeeps
<1>8. CASE Unmoved(t, k)
  <2>1. PICK by : by = <<p, c>>
    BY ZenonT(30)
  <2>2. PICK how \in {"timer", "human"} : how = "timer"
    BY Zenon
  <2>3. PICK w : w = Answered(t, k, n).stamp
    BY Zenon
  <2>4. /\ th' = [th EXCEPT ![t] = Answered(t, k, n)]
        /\ log' = log \cup {Decision(t, k, n, how, by)}
        /\ NextItem(p, c, w)
    BY Zenon, <1>2, <1>3, <1>4, <1>5, <1>8, <2>1, <2>2, <2>3 DEF TickPut
  <2>5. (how = "timer" => k.wake[n] <= clock) /\ (how = "human" => IsApproval(t, k.cursor, n))
    BY Zenon, <1>6, <2>2
  <2>6. Evolves /\ LogSound' /\ Decided'
    BY ZenonT(30), <1>1, <1>6, <1>8, <2>4, <2>5, DecideSound
  <2>7. PICK x : PassMoves(p, c, x) /\ PassSound(x)'
    <3>1. pass[p][c].pc \in {"item", "resume", "put"}
      BY Zenon, <1>1
    <3>2. Evolves /\ NextItem(p, c, w)
      BY Zenon, <2>4, <2>6
    <3> QED
      BY ONLY TimerInv, p \in Processes, c \in Passes, <3>1, <3>2, NextItemSound
  <2>8. PassesSound
    BY Zenon DEF TimerInv
  <2>9. /\ DOMAIN pass' = Processes /\ \A q \in Processes : DOMAIN pass'[q] = Passes
        /\ \A q \in Processes, d \in Passes : pass'[q][d] = pass[q][d] \/ PassSound(pass[q][d])'
    BY Zenon, <2>7, <2>8, OnePass
  <2>10. PassesSound' /\ HumanSound'
    BY Zenon, <1>1, <2>6, <2>9, StepSound
  <2> QED
    BY Zenon, <2>6, <2>10 DEF TimerInv, Evolves
<1> QED
  BY Zenon, <1>7, <1>8

(* Somebody answers an approval: the call, and what it loads.              *)
LEMMA ApproveKeeps ==
  ASSUME TimerInv, NEW p \in Processes, NEW t \in Threads, NEW n \in Nodes, Approve(p, t, n)
  PROVE  TimerInv' /\ Evolves
<1>1. UNCHANGED <<sc, clock, th, pass, log>>
  BY Zenon DEF Approve
<1>2. Evolves
  BY Zenon, <1>1, QuietEvolves
<1>3. PICK h : h = [pc |-> "resume", process |-> p, thread |-> t, node |-> n, loaded |-> NoCheckpoint]
  BY Zenon
<1>4. /\ DOMAIN h = {"pc", "process", "thread", "node", "loaded"}
      /\ h.pc = "resume" /\ h.thread \in Threads /\ h.node \in Nodes
  BY Zenon, <1>3
<1>5. human' = h /\ Threads' = Threads
  BY Zenon, <1>1, <1>3 DEF Approve, Threads
<1>6. HumanSound'
  BY Zenon, <1>4, <1>5 DEF HumanSound
<1> QED
  BY Zenon, <1>1, <1>2, <1>6, StepSound DEF TimerInv, PassesSound

(* approve's resume loads the checkpoint if the approval is still pending. *)
LEMMA ApproveResumeKeeps ==
  ASSUME TimerInv, ApproveResume
  PROVE  TimerInv' /\ Evolves
<1>1. UNCHANGED <<sc, clock, th, pass, log>> /\ human.pc = "resume"
  BY Zenon DEF ApproveResume
<1>2. Evolves
  BY Zenon, <1>1, QuietEvolves
<1>3. PICK h : h = human /\ h.thread \in Threads /\ h.node \in Nodes
               /\ DOMAIN h = {"pc", "process", "thread", "node", "loaded"}
  BY Zenon, <1>1 DEF TimerInv, HumanSound
<1>4. PICK k : k = th[h.thread]
  BY Zenon
<1>5. CASE human' = IdleHuman
  BY <1>1, <1>2, <1>5, IdleHumanSound, StepSound DEF TimerInv, PassesSound
<1>6. CASE human' # IdleHuman
  <2>1. /\ human' = [human EXCEPT !.pc = "put", !.loaded = th[h.thread]]
        /\ h.node \in Pending(h.thread) /\ th[h.thread].status = "suspended"
        /\ IsApproval(h.thread, k.cursor, h.node)
    BY Zenon, <1>3, <1>4, <1>6 DEF ApproveResume, IsApproval
  <2>2. PICK g : g = [h EXCEPT !.pc = "put", !.loaded = k]
    BY Zenon
  <2>3. /\ DOMAIN g = {"pc", "process", "thread", "node", "loaded"}
        /\ g.pc = "put" /\ g.thread = h.thread /\ g.node = h.node /\ g.loaded = k
    BY Zenon, <1>3, <2>2
  <2>4. human' = g
    BY Zenon, <1>3, <1>4, <2>1, <2>2
  <2>5. h.node \in Waiting(h.thread, k.cursor)
    BY Zenon, <1>4, <2>1 DEF Pending
  <2>6. Held(h.thread, k)
    BY Zenon, <1>3, <1>4, HeldLatest DEF TimerInv
  <2>7. Held(h.thread, k)'
    BY Zenon, <1>2, <1>3, <2>6, HeldStays
  <2>8. h.node \in Waiting(h.thread, k.cursor)' /\ IsApproval(h.thread, k.cursor, h.node)'
    BY Zenon, <1>1, <2>1, <2>5 DEF Waiting, Body, IsApproval, PauseOf
  <2>9. Threads' = Threads
    BY Zenon, <1>1 DEF Threads
  <2>10. HumanSound'
    BY Zenon, <1>3, <2>3, <2>4, <2>7, <2>8, <2>9 DEF HumanSound
  <2> QED
    BY Zenon, <1>1, <1>2, <2>10, StepSound DEF TimerInv, PassesSound
<1> QED
  BY Zenon, <1>5, <1>6

(* The run that an approver resumed writes its checkpoint, unless somebody *)
(* was first.                                                              *)
LEMMA ApprovePutKeeps ==
  ASSUME TimerInv, ApprovePut
  PROVE  TimerInv' /\ Evolves
<1>1. UNCHANGED <<sc, clock, pass>> /\ human.pc = "put" /\ human' = IdleHuman
  BY Zenon DEF ApprovePut
<1>2. PICK t \in Threads : t = human.thread
  BY Zenon, <1>1 DEF TimerInv, HumanSound
<1>3. PICK k : k = human.loaded
  BY Zenon
<1>4. PICK n : n = human.node
  BY Zenon
<1>5. Held(t, k) /\ n \in Waiting(t, k.cursor) /\ IsApproval(t, k.cursor, n)
  BY Zenon, <1>1, <1>2, <1>3, <1>4 DEF TimerInv, HumanSound
<1>6. HumanSound'
  BY Zenon, <1>1, IdleHumanSound
<1>7. CASE ~Unmoved(t, k)
  <2>1. UNCHANGED <<th, log>>
    BY Zenon, <1>2, <1>3, <1>7 DEF ApprovePut
  <2>2. Evolves
    BY Zenon, <1>1, <2>1, QuietEvolves
  <2> QED
    BY Zenon, <1>1, <1>6, <2>1, <2>2, StepSound DEF TimerInv, PassesSound
<1>8. CASE Unmoved(t, k)
  <2>1. PICK by : by = <<human.process>>
    BY ZenonT(30)
  <2>2. PICK how \in {"timer", "human"} : how = "human"
    BY Zenon
  <2>3. /\ th' = [th EXCEPT ![t] = Answered(t, k, n)]
        /\ log' = log \cup {Decision(t, k, n, how, by)}
    BY <1>2, <1>3, <1>4, <1>8, <2>1, <2>2 DEF ApprovePut
  <2>4. (how = "timer" => k.wake[n] <= clock) /\ (how = "human" => IsApproval(t, k.cursor, n))
    BY Zenon, <1>5, <2>2
  <2>5. Evolves /\ LogSound' /\ Decided'
    BY ZenonT(30), <1>1, <1>5, <1>8, <2>3, <2>4, DecideSound
  <2>6. PassesSound' /\ HumanSound'
    BY Zenon, <1>1, <1>6, <2>5, StepSound DEF TimerInv, PassesSound
  <2> QED
    BY Zenon, <2>5, <2>6 DEF TimerInv, Evolves
<1> QED
  BY Zenon, <1>7, <1>8

-----------------------------------------------------------------------------
(* No thread has a checkpoint, nobody does anything.                       *)
LEMMA TimerStarts == Init => TimerInv
<1> SUFFICES ASSUME Init
             PROVE  TimerInv
  BY Zenon
<1>1. /\ NoCheckpoint.version = 0 /\ NoCheckpoint.cursor = [n \in Nodes |-> 1]
      /\ NoCheckpoint.wake = [n \in Nodes |-> Never]
      /\ NoCheckpoint.since = 0 /\ NoCheckpoint.stamp = Never
  BY Zenon DEF NoCheckpoint
<1>2. Never \in Nat /\ 0 \in 0..MaxTime
  BY ConstantsAssumption DEF Never
<1>3. \A t \in Threads : CheckpointSound(t, NoCheckpoint)
  BY <1>1, <1>2 DEF CheckpointSound, Cursors, Waiting
<1>4. ThreadsSound
  BY Zenon, <1>2, <1>3 DEF Init, ThreadsSound
<1>5. IsPass(IdlePass) /\ IdlePass.pc = "off" /\ IdlePass.items = <<>>
  BY Zenon DEF IsPass, IdlePass
<1>6. PassSound(IdlePass)
  <2>1. PICK e : e = <<>>
    BY Zenon
  <2>2. e \in Seq(Threads)
    BY <2>1
  <2> QED
    BY Zenon, <1>5, <2>1, <2>2 DEF PassSound
<1>7. PassesSound
  BY Zenon, <1>6 DEF Init, PassesSound
<1>8. HumanSound
  BY Zenon DEF Init, HumanSound, IdleHuman
<1>9. LogSound /\ Decided
  BY Zenon DEF Init, LogSound, Decided
<1> QED
  BY Zenon, <1>4, <1>7, <1>8, <1>9 DEF TimerInv

(* Every step of the drivers, the approvers and the clock.                 *)
LEMMA TimerStep == TimerInv /\ [Next]_vars => TimerInv' /\ Evolves
<1> SUFFICES ASSUME TimerInv, [Next]_vars
             PROVE  TimerInv' /\ Evolves
  BY Zenon
<1>1. CASE UNCHANGED vars
  <2>1. UNCHANGED <<sc, clock, th, pass, human, log>>
    BY Zenon, <1>1 DEF vars
  <2>2. Evolves
    BY Zenon, <2>1, QuietEvolves
  <2> QED
    BY Zenon, <2>1, <2>2, StepSound DEF TimerInv, PassesSound
<1>2. CASE Tick \/ ApproveResume \/ ApprovePut
  BY Zenon, <1>2, TickKeeps, ApproveResumeKeeps, ApprovePutKeeps
<1>3. CASE \E t \in Threads : Execute(t)
  BY Zenon, <1>3, ExecuteKeeps
<1>4. CASE \E p \in Processes : StartDriver(p) \/ StopDriver(p) \/ Crash(p) \/ Sweep(p)
  BY Zenon, <1>4, StartKeeps, StopKeeps, CrashKeeps, SweepKeeps
<1>5. CASE \E p \in Processes, c \in Passes : Sweeping(p, c)
  BY Zenon, <1>5, RunPassKeeps, TickReadKeeps, TickResumeKeeps, TickPutKeeps DEF Sweeping
<1>6. CASE \E p \in Processes, t \in Threads, n \in Nodes : Approve(p, t, n)
  BY Zenon, <1>6, ApproveKeeps
<1> QED
  BY Zenon, <1>1, <1>2, <1>3, <1>4, <1>5, <1>6 DEF Next

(* For any threads, nodes, processes and pauses, however the drivers, the  *)
(* approver, stops, crashes and manual sweeps interleave: each pause is    *)
(* decided once (the compare-and-set of put), tick() decides only timers   *)
(* and deadlines that are due, and an approval answers an approval.        *)
THEOREM DecidedSafe == Spec => []Decided
<1>1. TimerInv => Decided
  BY Zenon DEF TimerInv
<1> QED
  BY <1>1, TimerStarts, TimerStep, PTL DEF Spec

-----------------------------------------------------------------------------
(* What NeverLate takes: the clock counts in units of the least delay, and *)
(* one batch holds every thread of the namespace.                          *)
Ample == MinDelay = 1 /\ \A s \in Scenarios : Cardinality(DOMAIN s.body) <= BatchLimit

(* Nothing to be late for: the thread suspended now, or does not wait. *)
Fresh(t) == th[t].status # "suspended" \/ th[t].since = clock

(* A wake-up of p at d is soon enough for t. *)
InTime(p, t, d) == d <= th[t].stamp \/ d <= th[t].since + PollInterval \/ d <= drv[p].up

(* A pass that ends with the earliest due time e wakes up for t. *)
Foreseen(t, e) == th[t].stamp > clock /\ (th[t].stamp > clock + PollInterval \/ e <= th[t].stamp)

(* A pass of p with these threads to tick has forgotten no thread. *)
Covers(p, items, e) ==
  /\ e \in Int
  /\ \A t \in Threads : Fresh(t) \/ <<p, t>> \in lock \/ t \in Range(items) \/ Foreseen(t, e)

(* The next wake-up of p is soon enough for every thread. *)
ArmedFor(p, x) ==
  /\ x.pc = "armed" /\ x.deadline \in Int /\ x.deadline <= clock + PollInterval
  /\ \A t \in Threads : th[t].status = "suspended" => <<p, t>> \in lock \/ InTime(p, t, x.deadline)

Ticks == {"item", "resume", "put"}

Watches(p, x) == ArmedFor(p, x) \/ (x.pc \in Ticks /\ Covers(p, x.items, x.earliest))

(* A driver that runs has a polling chain that watches every thread. *)
Watched == \A p \in Processes : drv[p].running => \E c \in Chains : Watches(p, pass[p][c])

(* A tick loses its thread only to somebody who moved it just now. *)
PassFresh(x) ==
  /\ x.pc = "resume" => Fresh(Head(x.items)) \/ Found(Head(x.items), x.target, x.wake)
  /\ x.pc = "put" => Fresh(Head(x.items)) \/ Unmoved(Head(x.items), x.loaded)
HumanFresh == human.pc = "put" => Fresh(human.thread) \/ Unmoved(human.thread, human.loaded)
AllFresh == HumanFresh /\ \A p \in Processes, c \in Passes : PassFresh(pass[p][c])

(* A lock is held by a call that is about to write. *)
Holder(p, t) ==
  \/ \E c \in Passes : pass[p][c].pc = "put" /\ Item(p, c) = t
  \/ human.pc = "put" /\ human.process = p /\ human.thread = t
LockSound == \A p \in Processes, t \in Threads : <<p, t>> \in lock => Holder(p, t)

DriversSound ==
  /\ DOMAIN drv = Processes
  /\ \A p \in Processes : DOMAIN drv[p] = {"running", "handle", "inFlight", "up"} /\ drv[p].up \in Int

NotLate == \A p \in Processes, t \in Threads :
             drv[p].running /\ th[t].status = "suspended" => InTime(p, t, clock)

LateInv == DriversSound /\ LockSound /\ AllFresh /\ Watched /\ NotLate

-----------------------------------------------------------------------------
(* The types the comparisons of times need.                                *)
LEMMA Times ==
  ASSUME TimerInv
  PROVE  /\ clock \in Nat /\ clock <= MaxTime /\ MaxTime \in Nat /\ PollInterval \in Nat /\ PollInterval > 0
         /\ Never = MaxTime + PollInterval + 1
         /\ \A t \in Threads : th[t].stamp \in Nat /\ th[t].since \in Nat
BY ConstantsAssumption DEF TimerInv, ThreadsSound, CheckpointSound, Never

(* A thread that moved is fresh.                                           *)
LEMMA MovedFresh ==
  ASSUME Evolves, NEW t \in Threads
  PROVE  th'[t] = th[t] \/ Fresh(t)'
BY Zenon DEF Evolves, Fresh

(* What is fresh stays fresh while no time passes.                         *)
LEMMA FreshStays ==
  ASSUME Evolves, clock' = clock, NEW t \in Threads, Fresh(t)
  PROVE  Fresh(t)'
BY Zenon, MovedFresh DEF Fresh

(* A chain that does not move keeps watching: a lock is given up only when *)
(* its thread moved.                                                       *)
LEMMA WatchStays ==
  ASSUME TimerInv, TimerInv', Evolves, clock' = clock, NEW p \in Processes, NEW x, Watches(p, x),
         drv'[p].up = drv[p].up,
         \A t \in Threads : <<p, t>> \in lock => <<p, t>> \in lock' \/ Fresh(t)'
  PROVE  Watches(p, x)'
<1>1. Threads' = Threads
  BY Zenon DEF Evolves, Threads
<1>2. CASE ArmedFor(p, x)
  <2>1. /\ x.pc = "armed" /\ x.deadline \in Int /\ x.deadline <= clock + PollInterval
        /\ \A t \in Threads : th[t].status = "suspended" => <<p, t>> \in lock \/ InTime(p, t, x.deadline)
    BY Zenon, <1>2 DEF ArmedFor
  <2>2. ASSUME NEW t \in Threads, Fresh(t)', th'[t].status = "suspended"
        PROVE  InTime(p, t, x.deadline)'
    BY Zenon, <2>1, <2>2 DEF Fresh, InTime
  <2>3. ASSUME NEW t \in Threads, th'[t].status = "suspended"
        PROVE  <<p, t>> \in lock' \/ InTime(p, t, x.deadline)'
    <3>1. CASE Fresh(t)'
      BY Zenon, <2>2, <2>3, <3>1
    <3>2. CASE ~Fresh(t)'
      <4>1. th'[t] = th[t]
        BY Zenon, <3>2, MovedFresh
      <4>2. <<p, t>> \in lock \/ InTime(p, t, x.deadline)
        BY Zenon, <2>1, <2>3, <4>1
      <4>3. CASE <<p, t>> \in lock
        BY Zenon, <3>2, <4>3
      <4>4. CASE InTime(p, t, x.deadline)
        BY Zenon, <4>1, <4>4 DEF InTime
      <4> QED
        BY Zenon, <4>2, <4>3, <4>4
    <3> QED
      BY Zenon, <3>1, <3>2
  <2>4. ArmedFor(p, x)'
    BY Zenon, <1>1, <2>1, <2>3 DEF ArmedFor
  <2> QED
    BY Zenon, <2>4 DEF Watches
<1>3. CASE x.pc \in Ticks /\ Covers(p, x.items, x.earliest)
  <2>1. ASSUME NEW t \in Threads
        PROVE  Fresh(t)' \/ <<p, t>> \in lock' \/ t \in Range(x.items) \/ Foreseen(t, x.earliest)'
    <3>1. Fresh(t) \/ <<p, t>> \in lock \/ t \in Range(x.items) \/ Foreseen(t, x.earliest)
      BY Zenon, <1>3 DEF Covers
    <3>2. CASE Foreseen(t, x.earliest)
      BY Zenon, <3>2, MovedFresh DEF Foreseen
    <3> QED
      BY Zenon, <3>1, <3>2, FreshStays
  <2>2. Covers(p, x.items, x.earliest)'
    BY Zenon, <1>1, <1>3, <2>1 DEF Covers
  <2> QED
    BY <1>3, <2>2 DEF Watches
<1> QED
  BY Zenon, <1>2, <1>3 DEF Watches

(* schedule(): the next wake-up after a pass that forgot no thread.        *)
LEMMA RearmWatches ==
  ASSUME Ample, TimerInv, TimerInv', clock' = clock, NEW p \in Processes, NEW c \in Chains, drv[p].running,
         NEW e, Covers(p, <<>>, e)'
  PROVE  \E x : x = Rearmed(p, c, e) /\ Watches(p, x)'
<1>1. PICK m : m = Min({clock + PollInterval, e})
  BY Zenon
<1>2. PICK d : d = clock + Max({MinDelay, m - clock})
  BY Zenon
<1>3. /\ clock \in Nat /\ PollInterval \in Nat /\ PollInterval > 0 /\ e \in Int
      /\ \A t \in Threads' : th'[t].stamp \in Nat /\ th'[t].since \in Nat
  BY Zenon, Times DEF Covers, TimerInv, ThreadsSound, CheckpointSound
<1>4. m \in Int /\ m <= clock + PollInterval /\ m <= e
  <2>1. PICK k \in Int : k = clock + PollInterval
    BY <1>3
  <2>2. Min({k, e}) = IF k <= e THEN k ELSE e
    BY <1>3 DEF Min
  <2> QED
    BY <1>1, <1>3, <2>1, <2>2
<1>5. d \in Int /\ d <= clock + PollInterval /\ (d = clock + 1 \/ d = m)
  <2>1. PICK k \in Int : k = m - clock
    BY <1>3, <1>4
  <2>2. Max({1, k}) = IF k <= 1 THEN 1 ELSE k
    BY DEF Max
  <2>3. d = clock + Max({1, k})
    BY Zenon, <1>2, <2>1 DEF Ample
  <2> QED
    BY <1>3, <1>4, <2>1, <2>2, <2>3
<1>6. PICK x : x = [IdlePass EXCEPT !.pc = "armed", !.deadline = d]
  BY Zenon
<1>7. Rearmed(p, c, e) = x
  BY <1>1, <1>2, <1>6 DEF Rearmed, Chains, Manual
<1>8. x.pc = "armed" /\ x.deadline = d
  BY Zenon, <1>6 DEF IdlePass
<1>9. ASSUME NEW t \in Threads', th'[t].status = "suspended"
      PROVE  <<p, t>> \in lock' \/ InTime(p, t, d)'
  <2>1. Fresh(t)' \/ <<p, t>> \in lock' \/ t \in Range(<<>>) \/ Foreseen(t, e)'
    BY Zenon DEF Covers
  <2>2. t \notin Range(<<>>)
    BY DEF Range
  <2>3. CASE Fresh(t)'
    BY Zenon, <1>3, <1>5, <1>9, <2>3 DEF Fresh, InTime
  <2>4. CASE Foreseen(t, e)'
    BY <1>3, <1>4, <1>5, <2>4 DEF Foreseen, InTime
  <2> QED
    BY Zenon, <2>1, <2>2, <2>3, <2>4
<1>10. ArmedFor(p, x)'
  BY Zenon, <1>5, <1>8, <1>9 DEF ArmedFor
<1>11. Watches(p, x)'
  BY Zenon, <1>10 DEF Watches
<1> QED
  BY Zenon, <1>7, <1>11

(* A pass goes on: what it has still to tick, or the wake-up it arms,      *)
(* watches every thread.                                                   *)
LEMMA ProceedWatches ==
  ASSUME Ample, TimerInv, TimerInv', Evolves, clock' = clock, NEW p \in Processes, NEW c \in Chains,
         drv[p].running, NEW s, s.pc = "item", Covers(p, s.items, s.earliest)', Proceed(p, c, s)
  PROVE  \E x : PassMoves(p, c, x) /\ Watches(p, x)'
<1>1. CASE s.items # <<>>
  <2>1. PassMoves(p, c, s)
    BY Zenon, <1>1 DEF Proceed, PassMoves
  <2>2. Watches(p, s)'
    BY Zenon DEF Watches, Ticks
  <2> QED
    BY Zenon, <2>1, <2>2
<1>2. CASE s.items = <<>>
  <2>1. PICK e : e = s.earliest
    BY Zenon
  <2>2. Covers(p, <<>>, e)'
    BY Zenon, <1>2, <2>1
  <2>3. PICK x : x = Rearmed(p, c, e) /\ Watches(p, x)'
    BY Zenon, <2>2, RearmWatches
  <2>4. PassMoves(p, c, x)
    BY Zenon, <1>2, <2>1, <2>3 DEF Proceed, PassMoves
  <2> QED
    BY Zenon, <2>3, <2>4
<1> QED
  BY Zenon, <1>1, <1>2

(* What a list holds besides its head.                                     *)
LEMMA HeadOrTail ==
  ASSUME NEW S, NEW q \in Seq(S), q # <<>>, NEW t \in Range(q)
  PROVE  t = Head(q) \/ t \in Range(Tail(q))
<1>1. PICK k \in 1..Len(q) : t = q[k]
  BY DEF Range
<1>2. /\ Tail(q) \in Seq(S) /\ Len(Tail(q)) = Len(q) - 1 /\ Len(q) \in Nat
      /\ \A j \in 1..(Len(q) - 1) : Tail(q)[j] = q[j + 1]
  OBVIOUS
<1>3. CASE k = 1
  BY <1>1, <1>3
<1>4. CASE k # 1
  <2>1. k - 1 \in 1..(Len(q) - 1) /\ (k - 1) + 1 = k
    BY <1>2, <1>4
  <2>2. Tail(q)[k - 1] = t /\ k - 1 \in DOMAIN Tail(q)
    BY <1>1, <1>2, <2>1
  <2> QED
    BY ZenonT(30), <2>2 DEF Range
<1> QED
  BY Zenon, <1>3, <1>4

(* The tick of a thread is over: it moved, somebody of the process holds   *)
(* it, or the pass knows when it is due.                                   *)
LEMMA NextItemWatches ==
  ASSUME Ample, TimerInv, TimerInv', Evolves, clock' = clock, NEW p \in Processes, NEW c \in Chains,
         drv[p].running, pass[p][c].pc \in Ticks, Watches(p, pass[p][c]),
         \A t \in Threads : <<p, t>> \in lock => <<p, t>> \in lock' \/ Fresh(t)',
         NEW w \in Int, NextItem(p, c, w),
         NEW i \in Threads, i = Item(p, c), Fresh(i)' \/ <<p, i>> \in lock' \/ Foreseen(i, w)'
  PROVE  \E x : PassMoves(p, c, x) /\ Watches(p, x)'
<1>1. PICK v : v = pass[p][c]
  BY Zenon
<1>2. c \in Passes /\ Threads' = Threads
  BY Zenon DEF Passes, Evolves, Threads
<1>3. PassSound(v) /\ v.items # <<>> /\ v.items \in Seq(Threads) /\ i = Head(v.items)
  BY ZenonT(30), <1>1, <1>2 DEF TimerInv, PassesSound, PassSound, Ticks, Item
<1>4. Covers(p, v.items, v.earliest)
  BY Zenon, <1>1 DEF Watches, ArmedFor, Ticks
<1>5. PICK e : e = Min({v.earliest, w})
  BY Zenon
<1>6. e \in Int /\ e <= v.earliest /\ e <= w /\ v.earliest \in Int
  BY <1>4, <1>5 DEF Min, Covers
<1>7. PICK s : s = [v EXCEPT !.pc = "item", !.items = Tail(@), !.earliest = e]
  BY Zenon
<1>8. s.pc = "item" /\ s.items = Tail(v.items) /\ s.earliest = e
  BY Zenon, <1>3, <1>7 DEF PassSound, IsPass
<1>9. \A t \in Range(v.items) : t = i \/ t \in Range(s.items)
  BY Zenon, <1>3, <1>8, HeadOrTail
<1>10. ASSUME NEW t \in Threads
       PROVE  Fresh(t)' \/ <<p, t>> \in lock' \/ t \in Range(s.items) \/ Foreseen(t, e)'
  <2>1. clock \in Nat /\ PollInterval \in Nat /\ th[t].stamp \in Nat /\ th'[t].stamp \in Nat
    BY Zenon, <1>2, Times DEF TimerInv, ThreadsSound, CheckpointSound
  <2>2. CASE t = i
    <3>1. CASE Foreseen(i, w)'
      BY <1>6, <2>1, <2>2, <3>1 DEF Foreseen
    <3> QED
      BY Zenon, <2>2, <3>1
  <2>3. CASE t # i
    <3>1. Fresh(t) \/ <<p, t>> \in lock \/ t \in Range(v.items) \/ Foreseen(t, v.earliest)
      BY Zenon, <1>4 DEF Covers
    <3>2. CASE Foreseen(t, v.earliest)
      <4>1. CASE th'[t] = th[t]
        BY <1>6, <2>1, <3>2, <4>1 DEF Foreseen
      <4> QED
        BY Zenon, <4>1, MovedFresh
    <3> QED
      BY Zenon, <1>9, <2>3, <3>1, <3>2, FreshStays
  <2> QED
    BY Zenon, <2>2, <2>3
<1>11. Covers(p, s.items, s.earliest)'
  BY Zenon, <1>2, <1>6, <1>8, <1>10 DEF Covers
<1>12. s = [pass[p][c] EXCEPT !.pc = "item", !.items = Tail(@), !.earliest = Min({@, w})]
  BY Zenon, <1>1, <1>5, <1>7
<1>13. CASE s.items # <<>>
  <2>1. PassMoves(p, c, s)
    BY Zenon, <1>12, <1>13 DEF NextItem, PassMoves
  <2>2. Watches(p, s)'
    BY <1>8, <1>11 DEF Watches, Ticks
  <2> QED
    BY Zenon, <2>1, <2>2
<1>14. CASE s.items = <<>>
  <2>1. Proceed(p, c, s)
    BY Zenon, <1>12, <1>14 DEF NextItem
  <2> QED
    BY <1>8, <1>11, <2>1, ProceedWatches
<1> QED
  BY Zenon, <1>13, <1>14

(* One batch lists every thread due within a poll interval.                *)
LEMMA ListedAll ==
  ASSUME Ample, ThreadsSound, NEW list \in Listed
  PROVE  /\ list \in Seq(Threads) /\ Ahead \subseteq Range(list) /\ IsFiniteSet(DOMAIN list)
         /\ \A i, j \in DOMAIN list : i < j => th[list[i]].stamp <= th[list[j]].stamp
<1>1. PICK n : n = Cardinality(Ahead)
  BY Zenon
<1>2. Ahead \subseteq Threads /\ IsFiniteSet(Threads) /\ Cardinality(Threads) <= BatchLimit
  BY Zenon, ConstantsAssumption DEF Ahead, Threads, ThreadsSound, Ample
<1>3. /\ IsFiniteSet(Ahead) /\ n <= Cardinality(Threads)
      /\ n \in Nat /\ Cardinality(Threads) \in Nat /\ BatchLimit \in Nat
  BY Zenon, <1>1, <1>2, FS_Subset, FS_CardinalityType, ConstantsAssumption
<1>4. Min({BatchLimit, n}) = n
  BY <1>2, <1>3 DEF Min
<1>5. /\ list \in [1..n -> Ahead]
      /\ \A i, j \in 1..n : i < j => list[i] # list[j] /\ th[list[i]].stamp <= th[list[j]].stamp
  BY Zenon, <1>1, <1>4 DEF Listed
<1>6. list \in Seq(Threads) /\ DOMAIN list = 1..n
  BY <1>2, <1>3, <1>5
<1>7. \A i, j \in 1..n : list[i] = list[j] => i = j
  BY <1>3, <1>5
<1>8. list \in Injection(1..n, Ahead)
  BY Zenon, <1>5, <1>7 DEF Injection, IsInjective
<1>9. IsFiniteSet(1..n) /\ Cardinality(1..n) = n
  BY <1>3, FS_Interval
<1>10. list \in Surjection(1..n, Ahead)
  BY Zenon, <1>1, <1>3, <1>8, <1>9, FS_Injection
<1>11. Ahead \subseteq Range(list)
  BY Zenon, <1>6, <1>10 DEF Surjection, Range
<1> QED
  BY Zenon, <1>5, <1>6, <1>9, <1>11

(* The due threads of a list, which is sorted by due time, come first.     *)
LEMMA DueFirst ==
  ASSUME ThreadsSound, NEW list \in Seq(Threads), NEW i \in DOMAIN list, th[list[i]].stamp <= clock,
         \A j, k \in DOMAIN list : j < k => th[list[j]].stamp <= th[list[k]].stamp
  PROVE  list[i] \in Range(DueOf(list))
<1>1. PICK S : S = {j \in DOMAIN list : th[list[j]].stamp <= clock}
  BY Zenon
<1>2. PICK n \in Nat : n = Len(list) /\ DOMAIN list = 1..n
  OBVIOUS
<1>3. /\ clock \in Nat
      /\ \A j \in 1..n : th[list[j]].stamp \in Nat
  BY <1>2, ConstantsAssumption DEF ThreadsSound, CheckpointSound
<1>4. i \in 1..n /\ 1..i \subseteq S
  BY <1>1, <1>2, <1>3
<1>5. S \subseteq 1..n /\ IsFiniteSet(1..n) /\ Cardinality(1..n) = n
  <2>1. IsFiniteSet(1..n) /\ Cardinality(1..n) = n
    BY FS_Interval
  <2> QED
    BY Zenon, <1>1, <1>2, <2>1
<1>6. IsFiniteSet(S) /\ Cardinality(S) <= n /\ Cardinality(S) \in Nat
  BY ZenonT(30), <1>5, FS_Subset, FS_CardinalityType
<1>7. Cardinality(1..i) = i /\ Cardinality(1..i) <= Cardinality(S)
  <2>1. Cardinality(1..i) = i
    BY <1>4, FS_Interval
  <2> QED
    BY Zenon, <1>4, <1>6, <2>1, FS_Subset
<1>8. PICK m \in Nat : m = Cardinality(S) /\ i <= m /\ m <= n
  BY Zenon, <1>6, <1>7
<1>9. /\ Len(SubSeq(list, 1, m)) = m /\ SubSeq(list, 1, m) \in Seq(Threads)
      /\ SubSeq(list, 1, m)[i] = list[i]
  <2>1. m \in 0..Len(list) /\ i \in 1..m
    BY <1>2, <1>4, <1>8
  <2> QED
    BY Zenon, <2>1, Prefix
<1>10. i \in DOMAIN SubSeq(list, 1, m)
  BY <1>4, <1>8, <1>9
<1>11. DueOf(list) = SubSeq(list, 1, m)
  BY Zenon, <1>1, <1>8 DEF DueOf
<1> QED
  BY Zenon, <1>9, <1>10, <1>11 DEF Range

(* sweepOnce forgets no thread.                                            *)
LEMMA SweptCovers ==
  ASSUME Ample, TimerInv, NEW p \in Processes, NEW list \in Listed
  PROVE  Covers(p, Swept(list).items, Swept(list).earliest) /\ Swept(list).pc = "item"
<1>1. PICK E : E = {Never} \cup {th[t].stamp : t \in {u \in Range(list) : th[u].stamp > clock}}
  BY Zenon
<1>2. PICK x : x = [IdlePass EXCEPT !.pc = "item", !.at = clock, !.items = DueOf(list), !.earliest = Min(E)]
  BY Zenon
<1>3. Swept(list) = x
  BY Zenon, <1>1, <1>2 DEF Swept
<1>4. x.items = DueOf(list) /\ x.earliest = Min(E) /\ x.pc = "item"
  BY Zenon, <1>2 DEF IdlePass
<1>5. /\ list \in Seq(Threads) /\ Ahead \subseteq Range(list)
      /\ \A i, j \in DOMAIN list : i < j => th[list[i]].stamp <= th[list[j]].stamp
  BY Zenon, ListedAll DEF TimerInv
<1>6. /\ clock \in Nat /\ clock <= MaxTime /\ MaxTime \in Nat /\ PollInterval \in Nat
      /\ Never = MaxTime + PollInterval + 1
      /\ \A t \in Threads : th[t].stamp \in Nat
  BY Zenon, Times
<1>7. Range(list) \subseteq Threads
  BY <1>5 DEF Range
<1>8. E \in SUBSET Nat /\ E # {}
  BY <1>1, <1>6, <1>7
<1>9. Min(E) \in Nat /\ \A y \in E : Min(E) <= y
  BY Zenon, <1>8, MinOf
<1>10. ASSUME NEW t \in Threads, th[t].status = "suspended"
       PROVE  t \in Range(DueOf(list)) \/ Foreseen(t, Min(E))
  <2>1. CASE th[t].stamp > clock + PollInterval
    BY <1>6, <2>1 DEF Foreseen
  <2>2. CASE th[t].stamp <= clock + PollInterval
    <3>1. t \in Ahead
      BY <1>6, <1>10, <2>2 DEF Ahead
    <3>2. PICK i \in DOMAIN list : t = list[i]
      BY Zenon, <1>5, <3>1 DEF Range
    <3>3. CASE th[t].stamp <= clock
      BY Zenon, <1>5, <3>2, <3>3, DueFirst DEF TimerInv
    <3>4. CASE th[t].stamp > clock
      BY Zenon, <1>1, <1>5, <1>9, <3>1, <3>4 DEF Foreseen
    <3> QED
      BY <1>6, <3>3, <3>4
  <2> QED
    BY <1>6, <2>1, <2>2
<1>11. Covers(p, x.items, x.earliest)
  BY <1>4, <1>9, <1>10 DEF Covers, Fresh
<1> QED
  BY Zenon, <1>3, <1>4, <1>11

-----------------------------------------------------------------------------
(* While no time passes, a tick that does not move has lost its thread to  *)
(* somebody who moved it just now, or has not lost it.                     *)
LEMMA PassFreshStays ==
  ASSUME Evolves, clock' = clock, NEW x, PassSound(x), PassFresh(x)
  PROVE  PassFresh(x)'
<1>1. CASE x.pc \in {"resume", "put"}
  <2>1. PICK t \in Threads : t = Head(x.items)
    BY <1>1 DEF PassSound
  <2>2. CASE Fresh(t)'
    BY Zenon, <2>1, <2>2 DEF PassFresh
  <2>3. CASE ~Fresh(t)'
    <3>1. th'[t] = th[t] /\ ~Fresh(t)
      BY Zenon, <2>3, MovedFresh, FreshStays
    <3>2. /\ x.pc = "resume" => Found(t, x.target, x.wake)
          /\ x.pc = "put" => Unmoved(t, x.loaded)
      BY Zenon, <2>1, <3>1 DEF PassFresh
    <3>3. /\ x.pc = "resume" => Found(t, x.target, x.wake)'
          /\ x.pc = "put" => Unmoved(t, x.loaded)'
      BY Zenon, <3>1, <3>2 DEF Found, Unmoved, Pending, Waiting, Body, Evolves
    <3> QED
      BY Zenon, <2>1, <3>3 DEF PassFresh
  <2> QED
    BY Zenon, <2>2, <2>3
<1>2. CASE x.pc \notin {"resume", "put"}
  BY Zenon, <1>2 DEF PassFresh
<1> QED
  BY Zenon, <1>1, <1>2

(* The same for the call of an approver.                                   *)
LEMMA HumanFreshStays ==
  ASSUME TimerInv, Evolves, clock' = clock, HumanFresh, human' = human
  PROVE  HumanFresh'
<1> SUFFICES ASSUME human.pc = "put"
             PROVE  Fresh(human.thread)' \/ Unmoved(human.thread, human.loaded)'
  BY Zenon DEF HumanFresh
<1>1. PICK t \in Threads : t = human.thread
  BY Zenon DEF TimerInv, HumanSound
<1>2. CASE Fresh(t)'
  BY Zenon, <1>1, <1>2
<1>3. CASE ~Fresh(t)'
  <2>1. th'[t] = th[t] /\ ~Fresh(t)
    BY Zenon, <1>3, MovedFresh, FreshStays
  <2> QED
    BY Zenon, <1>1, <2>1 DEF HumanFresh, Unmoved
<1> QED
  BY Zenon, <1>2, <1>3

(* What a step has to show while no time passes.                           *)
LEMMA LateFrom ==
  ASSUME TimerInv, TimerInv', Evolves, clock' = clock, LateInv, DriversSound', LockSound', Watched',
         \A p \in Processes :
           drv'[p].running => drv'[p].up = clock \/ (drv[p].running /\ drv'[p].up = drv[p].up),
         human' = human \/ HumanFresh',
         \A p \in Processes, c \in Passes : pass'[p][c] = pass[p][c] \/ PassFresh(pass[p][c])'
  PROVE  LateInv'
<1>1. Processes' = Processes /\ Threads' = Threads
  BY Zenon DEF Evolves, Processes, Threads
<1>2. ASSUME NEW p \in Processes, NEW c \in Passes
      PROVE  PassFresh(pass[p][c])'
  <2>1. CASE pass'[p][c] = pass[p][c]
    <3>1. PICK x : x = pass[p][c] /\ PassSound(x) /\ PassFresh(x)
      BY Zenon DEF TimerInv, PassesSound, LateInv, AllFresh
    <3>2. PassFresh(x)'
      BY Zenon, <3>1, PassFreshStays
    <3> QED
      BY Zenon, <2>1, <3>1, <3>2
  <2> QED
    BY Zenon, <2>1
<1>3. HumanFresh'
  BY Zenon, HumanFreshStays DEF LateInv, AllFresh
<1>4. AllFresh'
  BY Zenon, <1>1, <1>2, <1>3 DEF AllFresh
<1>5. ASSUME NEW p \in Processes, NEW t \in Threads, drv'[p].running, th'[t].status = "suspended"
      PROVE  InTime(p, t, clock)'
  <2>1. /\ clock \in Nat /\ PollInterval \in Nat /\ th'[t].since \in Nat
    BY ZenonT(30), <1>1, Times DEF TimerInv, ThreadsSound, CheckpointSound
  <2>2. CASE drv'[p].up = clock
    BY <2>1, <2>2 DEF InTime
  <2>3. CASE Fresh(t)'
    BY <1>5, <2>1, <2>3 DEF InTime, Fresh
  <2>4. CASE th'[t] = th[t] /\ drv[p].running /\ drv'[p].up = drv[p].up
    BY Zenon, <1>5, <2>4 DEF InTime, LateInv, NotLate
  <2> QED
    BY Zenon, <1>5, <2>2, <2>3, <2>4, MovedFresh
<1>6. NotLate'
  BY Zenon, <1>1, <1>5 DEF NotLate
<1> QED
  BY Zenon, <1>4, <1>6 DEF LateInv

(* A driver whose watching chain does not move.                            *)
LEMMA StillWatched ==
  ASSUME TimerInv, TimerInv', Evolves, clock' = clock, NEW p \in Processes, NEW c \in Chains,
         Watches(p, pass[p][c]), pass'[p][c] = pass[p][c], drv'[p].up = drv[p].up,
         \A t \in Threads : <<p, t>> \in lock => <<p, t>> \in lock' \/ Fresh(t)'
  PROVE  Watches(p, pass[p][c])'
<1>1. PICK x : x = pass[p][c] /\ Watches(p, x)
  BY Zenon
<1>2. Watches(p, x)'
  BY Zenon, <1>1, WatchStays
<1> QED
  BY Zenon, <1>1, <1>2

(* A step that moves no driver and no pass.                                *)
LEMMA QuietLate ==
  ASSUME TimerInv, TimerInv', Evolves, clock' = clock, LateInv, UNCHANGED <<drv, pass>>, LockSound',
         human' = human \/ HumanFresh',
         \A p \in Processes, t \in Threads : <<p, t>> \in lock => <<p, t>> \in lock' \/ Fresh(t)'
  PROVE  LateInv'
<1>1. Processes' = Processes
  BY Zenon DEF Evolves, Processes
<1>2. DriversSound'
  BY Zenon, <1>1 DEF LateInv, DriversSound
<1>3. Watched'
  <2> SUFFICES ASSUME NEW p \in Processes, drv[p].running
               PROVE  \E c \in Chains : Watches(p, pass[p][c])'
    BY Zenon, <1>1 DEF Watched
  <2>1. PICK c \in Chains : Watches(p, pass[p][c])
    BY Zenon DEF LateInv, Watched
  <2>2. Watches(p, pass[p][c])'
    BY Zenon, <2>1, StillWatched
  <2> QED
    BY Zenon, <2>2
<1> QED
  BY Zenon, <1>2, <1>3, LateFrom

(* A step that moves one pass.                                             *)
LEMMA PassLate ==
  ASSUME TimerInv, TimerInv', Evolves, clock' = clock, LateInv, DriversSound', LockSound', human' = human,
         NEW p \in Processes, NEW c \in Passes, NEW x, PassMoves(p, c, x), PassFresh(x)',
         \A q \in Processes : drv'[q].running = drv[q].running /\ drv'[q].up = drv[q].up,
         \A q \in Processes, t \in Threads : <<q, t>> \in lock => <<q, t>> \in lock' \/ Fresh(t)',
         c \in Chains /\ drv[p].running /\ Watches(p, pass[p][c]) => Watches(p, x)'
  PROVE  LateInv'
<1>1. Processes' = Processes
  BY Zenon DEF Evolves, Processes
<1>2. /\ pass'[p][c] = x
      /\ \A q \in Processes, d \in Passes : ~(q = p /\ d = c) => pass'[q][d] = pass[q][d]
  BY Zenon DEF PassMoves, TimerInv, PassesSound
<1>3. Watched'
  <2> SUFFICES ASSUME NEW q \in Processes, drv[q].running
               PROVE  \E d \in Chains : Watches(q, pass[q][d])'
    BY Zenon, <1>1 DEF Watched
  <2>1. PICK d \in Chains : Watches(q, pass[q][d])
    BY Zenon DEF LateInv, Watched
  <2>2. CASE q = p /\ d = c
    <3>1. Watches(p, x)'
      BY Zenon, <2>1, <2>2
    <3> QED
      BY Zenon, <1>2, <2>2, <3>1
  <2>3. CASE ~(q = p /\ d = c)
    <3>1. pass'[q][d] = pass[q][d]
      BY Zenon, <1>2, <2>3 DEF Passes
    <3>2. Watches(q, pass[q][d])'
      BY Zenon, <2>1, <3>1, StillWatched
    <3> QED
      BY Zenon, <3>2
  <2> QED
    BY Zenon, <2>2, <2>3
<1>4. ASSUME NEW q \in Processes, NEW d \in Passes
      PROVE  pass'[q][d] = pass[q][d] \/ PassFresh(pass[q][d])'
  <2>1. CASE q = p /\ d = c
    BY Zenon, <1>2, <2>1
  <2> QED
    BY Zenon, <1>2, <2>1
<1> QED
  BY Zenon, <1>3, <1>4, LateFrom

-----------------------------------------------------------------------------
(* Time passes: nobody is about to write, and the wake-up that watches the *)
(* threads is still to come.                                               *)
LEMMA TickLate ==
  ASSUME TimerInv, TimerInv', Evolves, LateInv, Tick
  PROVE  LateInv'
<1>1. /\ UNCHANGED <<sc, th, drv, pass, human, lock>> /\ clock' = clock + 1 /\ clock \in Nat
      /\ human.pc = "idle" /\ Processes' = Processes /\ Threads' = Threads
  BY Zenon, Times DEF Tick, Processes, Threads
<1>2. \A p \in Processes, c \in Passes :
        \/ pass[p][c].pc = "off"
        \/ pass[p][c].pc = "armed" /\ pass[p][c].deadline > clock
  BY Zenon DEF Tick, Quiet
<1>3. \A p \in Processes, t \in Threads : <<p, t>> \notin lock
  BY ZenonT(30), <1>1, <1>2 DEF LateInv, LockSound, Holder
<1>4. DriversSound' /\ LockSound'
  BY Zenon, <1>1, <1>3 DEF LateInv, DriversSound, LockSound
<1>5. AllFresh'
  BY Zenon, <1>1, <1>2 DEF AllFresh, HumanFresh, PassFresh
<1>6. ASSUME NEW p \in Processes, drv[p].running
      PROVE  \E c \in Chains : /\ Watches(p, pass[p][c])'
                               /\ \A t \in Threads : th[t].status = "suspended" => InTime(p, t, clock)'
  <2>1. PICK c \in Chains : Watches(p, pass[p][c])
    BY Zenon, <1>6 DEF LateInv, Watched
  <2>2. PICK x : x = pass[p][c] /\ ArmedFor(p, x) /\ x.deadline > clock
    <3>1. PICK y : y = pass[p][c] /\ Watches(p, y)
      BY Zenon, <2>1
    <3>2. y.pc = "off" \/ (y.pc = "armed" /\ y.deadline > clock)
      BY Zenon, <1>2, <3>1 DEF Passes
    <3>3. ArmedFor(p, y) /\ y.pc = "armed"
      BY Zenon, <3>1, <3>2 DEF Watches, Ticks, ArmedFor
    <3> QED
      BY Zenon, <3>1, <3>2, <3>3
  <2>3. /\ x.pc = "armed" /\ x.deadline \in Int /\ x.deadline <= clock + PollInterval
        /\ \A t \in Threads : th[t].status = "suspended" => InTime(p, t, x.deadline)
    BY Zenon, <1>3, <2>2 DEF ArmedFor
  <2>4. ASSUME NEW t \in Threads, th[t].status = "suspended"
        PROVE  InTime(p, t, x.deadline)' /\ InTime(p, t, clock)'
    <3>1. /\ th[t].stamp \in Nat /\ th[t].since \in Nat /\ PollInterval \in Nat /\ drv[p].up \in Int
      BY Zenon, Times DEF LateInv, DriversSound
    <3>2. InTime(p, t, x.deadline)
      BY Zenon, <2>3, <2>4
    <3> QED
      BY <1>1, <2>2, <2>3, <3>1, <3>2 DEF InTime
  <2>5. x.deadline <= clock' + PollInterval
    BY <1>1, <2>3, Times
  <2>6. ArmedFor(p, x)'
    BY Zenon, <1>1, <2>3, <2>4, <2>5 DEF ArmedFor
  <2>7. Watches(p, x)'
    BY Zenon, <2>6 DEF Watches
  <2>8. Watches(p, pass[p][c])'
    BY Zenon, <1>1, <2>2, <2>7
  <2> QED
    BY Zenon, <2>4, <2>8
<1>7. Watched'
  BY Zenon, <1>1, <1>6 DEF Watched
<1>8. NotLate'
  BY Zenon, <1>1, <1>6 DEF NotLate
<1> QED
  BY Zenon, <1>4, <1>5, <1>7, <1>8 DEF LateInv

(* A lock that stays where it was keeps its holder, whatever the threads   *)
(* do.                                                                     *)
LEMMA SameLock ==
  ASSUME Evolves, LateInv, lock' = lock, pass' = pass, human' = human \/ human.pc # "put"
  PROVE  LockSound'
<1>1. Processes' = Processes /\ Threads' = Threads
  BY Zenon DEF Evolves, Processes, Threads
<1> QED
  BY <1>1 DEF LateInv, LockSound, Holder, Item

(* execute() suspends a thread now.                                        *)
LEMMA ExecuteLate ==
  ASSUME TimerInv, TimerInv', Evolves, LateInv, NEW t \in Threads, Execute(t)
  PROVE  LateInv'
<1>1. UNCHANGED <<clock, drv, pass, human, lock>>
  BY Zenon DEF Execute
<1> QED
  BY Zenon, <1>1, SameLock, QuietLate

(* approve() begins.                                                       *)
LEMMA ApproveLate ==
  ASSUME TimerInv, TimerInv', Evolves, LateInv, NEW p \in Processes, NEW t \in Threads, NEW n \in Nodes,
         Approve(p, t, n)
  PROVE  LateInv'
<1>1. UNCHANGED <<clock, drv, pass, lock>> /\ human.pc = "idle" /\ human'.pc = "resume"
  BY Zenon DEF Approve
<1>2. HumanFresh'
  BY Zenon, <1>1 DEF HumanFresh
<1> QED
  BY Zenon, <1>1, <1>2, SameLock, QuietLate

(* approve's resume takes the lock, or gives up.                           *)
LEMMA ApproveResumeLate ==
  ASSUME TimerInv, TimerInv', Evolves, LateInv, ApproveResume
  PROVE  LateInv'
<1>1. UNCHANGED <<sc, clock, th, drv, pass>> /\ human.pc = "resume"
  BY Zenon DEF ApproveResume
<1>2. CASE lock' = lock /\ human' = IdleHuman
  <2>1. human'.pc = "idle"
    BY Zenon, <1>2 DEF IdleHuman
  <2>2. HumanFresh'
    BY Zenon, <2>1 DEF HumanFresh
  <2> QED
    BY Zenon, <1>1, <1>2, <2>2, SameLock, QuietLate
<1>3. CASE ~(lock' = lock /\ human' = IdleHuman)
  <2>1. PICK h : h = human /\ DOMAIN h = {"pc", "process", "thread", "node", "loaded"}
    BY Zenon DEF TimerInv, HumanSound
  <2>2. PICK k : k = th[h.thread]
    BY Zenon
  <2>3. lock' = lock \cup {<<h.process, h.thread>>} /\ human' = [h EXCEPT !.pc = "put", !.loaded = k]
    BY Zenon, <1>3, <2>1, <2>2 DEF ApproveResume
  <2>4. /\ human'.pc = "put" /\ human'.process = h.process /\ human'.thread = h.thread
        /\ human'.loaded = k
    BY Zenon, <2>1, <2>3
  <2>5. HumanFresh'
    BY Zenon, <1>1, <2>2, <2>4 DEF HumanFresh, Unmoved
  <2>6. Processes' = Processes /\ Threads' = Threads
    BY Zenon, <1>1 DEF Processes, Threads
  <2>7. ASSUME NEW p \in Processes, NEW t \in Threads, <<p, t>> \in lock'
        PROVE  Holder(p, t)'
    <3>1. CASE <<p, t>> \in lock
      BY Zenon, <1>1, <3>1 DEF LateInv, LockSound, Holder, Item
    <3>2. CASE <<p, t>> = <<h.process, h.thread>>
      BY Zenon, <2>4, <3>2 DEF Holder
    <3> QED
      BY Zenon, <2>3, <2>7, <3>1, <3>2
  <2>8. LockSound'
    BY Zenon, <2>6, <2>7 DEF LockSound
  <2> QED
    BY Zenon, <1>1, <2>3, <2>5, <2>8, QuietLate
<1> QED
  BY Zenon, <1>2, <1>3

(* The approver's run writes and gives its lock up: the thread moved, now  *)
(* or just before.                                                         *)
LEMMA ApprovePutLate ==
  ASSUME TimerInv, TimerInv', Evolves, LateInv, ApprovePut
  PROVE  LateInv'
<1>1. UNCHANGED <<sc, clock, drv, pass>> /\ human.pc = "put" /\ human' = IdleHuman
  BY Zenon DEF ApprovePut
<1>2. PICK t \in Threads : t = human.thread
  BY Zenon, <1>1 DEF TimerInv, HumanSound
<1>3. lock' = lock \ {<<human.process, t>>}
  BY Zenon, <1>2 DEF ApprovePut
<1>4. human'.pc = "idle"
  BY Zenon, <1>1 DEF IdleHuman
<1>5. HumanFresh'
  BY Zenon, <1>4 DEF HumanFresh
<1>6. Fresh(t)'
  <2>1. CASE Unmoved(t, human.loaded)
    <3>1. PICK a : a = Answered(t, human.loaded, human.node)
      BY Zenon
    <3>2. th'[t] = a
      BY Zenon, <1>2, <2>1, <3>1 DEF ApprovePut, TimerInv, ThreadsSound
    <3>3. a.since = clock
      BY Zenon, <3>1 DEF Answered, Stored
    <3> QED
      BY Zenon, <1>1, <3>2, <3>3 DEF Fresh
  <2>2. CASE ~Unmoved(t, human.loaded)
    <3>1. Fresh(t)
      BY Zenon, <1>1, <1>2, <2>2 DEF LateInv, AllFresh, HumanFresh
    <3> QED
      BY Zenon, <1>1, <3>1, FreshStays
  <2> QED
    BY Zenon, <2>1, <2>2
<1>7. ASSUME NEW p \in Processes, NEW u \in Threads, <<p, u>> \in lock'
      PROVE  Holder(p, u)'
  <2>1. <<p, u>> \in lock /\ <<p, u>> # <<human.process, t>>
    BY Zenon, <1>3, <1>7
  <2>2. \E c \in Passes : pass[p][c].pc = "put" /\ Item(p, c) = u
    BY Zenon, <1>2, <2>1 DEF LateInv, LockSound, Holder
  <2> QED
    BY Zenon, <1>1, <2>2 DEF Holder, Item
<1>8. LockSound'
  BY Zenon, <1>1, <1>7 DEF LockSound, Processes, Threads
<1>9. \A p \in Processes, u \in Threads : <<p, u>> \in lock => <<p, u>> \in lock' \/ Fresh(u)'
  BY Zenon, <1>3, <1>6
<1> QED
  BY Zenon, <1>1, <1>5, <1>8, <1>9, QuietLate

-----------------------------------------------------------------------------
(* Proceed and NextItem leave alone whether a driver runs and since when.  *)
LEMMA DriverKept ==
  ASSUME Evolves, DriversSound, NEW p \in Processes, NEW c, NEW s, drv' = drv \/ Proceed(p, c, s)
  PROVE  /\ DriversSound'
         /\ \A q \in Processes : drv'[q].running = drv[q].running /\ drv'[q].up = drv[q].up
<1>1. Processes' = Processes
  BY Zenon DEF Evolves, Processes
<1>2. PICK f, h : drv' = drv \/ drv' = [drv EXCEPT ![p].inFlight = f]
                             \/ drv' = [drv EXCEPT ![p].inFlight = f, ![p].handle = h]
  BY ZenonT(30) DEF Proceed
<1> QED
  BY <1>1, <1>2 DEF DriversSound

(* The same of the end of a tick.                                          *)
LEMMA NextItemKept ==
  ASSUME Evolves, DriversSound, NEW p \in Processes, NEW c \in Passes, NEW w, NextItem(p, c, w)
  PROVE  /\ DriversSound'
         /\ \A q \in Processes : drv'[q].running = drv[q].running /\ drv'[q].up = drv[q].up
<1>1. PICK s : s = [pass[p][c] EXCEPT !.pc = "item", !.items = Tail(@), !.earliest = Min({@, w})]
  BY Zenon
<1>2. drv' = drv \/ Proceed(p, c, s)
  BY Zenon, <1>1 DEF NextItem
<1> QED
  BY Zenon, <1>2, DriverKept

(* A pass moves: its lock is given up, taken, or stays.                    *)
LEMMA LockMoves ==
  ASSUME TimerInv, Evolves, LateInv, human' = human,
         NEW p \in Processes, NEW c \in Passes, NEW x, PassMoves(p, c, x),
         \A q \in Processes, t \in Threads : <<q, t>> \in lock' =>
           \/ <<q, t>> \in lock /\ ~(q = p /\ pass[p][c].pc = "put" /\ Item(p, c) = t)
           \/ q = p /\ x.pc = "put" /\ Head(x.items) = t
  PROVE  LockSound'
<1>1. Processes' = Processes /\ Threads' = Threads
  BY Zenon DEF Evolves, Processes, Threads
<1>2. /\ pass'[p][c] = x
      /\ \A q \in Processes, d \in Passes : ~(q = p /\ d = c) => pass'[q][d] = pass[q][d]
  BY Zenon DEF PassMoves, TimerInv, PassesSound
<1>3. ASSUME NEW q \in Processes, NEW t \in Threads, <<q, t>> \in lock'
      PROVE  Holder(q, t)'
  <2>1. CASE q = p /\ x.pc = "put" /\ Head(x.items) = t
    BY Zenon, <1>2, <2>1 DEF Holder, Item
  <2>2. CASE <<q, t>> \in lock /\ ~(q = p /\ pass[p][c].pc = "put" /\ Item(p, c) = t)
    <3>1. Holder(q, t)
      BY Zenon, <2>2 DEF LateInv, LockSound
    <3>2. CASE human.pc = "put" /\ human.process = q /\ human.thread = t
      BY Zenon, <3>2 DEF Holder
    <3>3. ASSUME NEW d \in Passes, pass[q][d].pc = "put", Item(q, d) = t
          PROVE  Holder(q, t)'
      <4>1. pass'[q][d] = pass[q][d]
        BY Zenon, <1>2, <2>2, <3>3
      <4> QED
        BY Zenon, <3>3, <4>1 DEF Holder, Item
    <3> QED
      BY Zenon, <3>1, <3>2, <3>3 DEF Holder
  <2> QED
    BY Zenon, <1>3, <2>1, <2>2
<1> QED
  BY Zenon, <1>1, <1>3 DEF LockSound

(* start(): the first sweep is due at once.                                *)
LEMMA StartLate ==
  ASSUME TimerInv, TimerInv', Evolves, LateInv, NEW p \in Processes, StartDriver(p)
  PROVE  LateInv'
<1>1. UNCHANGED <<sc, clock, th, human, lock>> /\ Processes' = Processes /\ Threads' = Threads
  BY Zenon DEF StartDriver, Processes, Threads
<1>2. PICK c \in Chains : c = Min(FreeChains(p)) /\ pass[p][c].pc = "off"
  <2>1. FreeChains(p) \in SUBSET Nat /\ FreeChains(p) # {}
    <3>1. FreeChains(p) \subseteq {1, 2}
      BY Zenon DEF FreeChains, Chains
    <3>2. FreeChains(p) # {}
      BY Zenon DEF StartDriver
    <3> QED
      BY <3>1, <3>2
  <2>2. PICK m : m = Min(FreeChains(p)) /\ m \in FreeChains(p)
    BY Zenon, <2>1, MinOf
  <2>3. m \in Chains /\ pass[p][m].pc = "off"
    BY Zenon, <2>2 DEF FreeChains
  <2> QED
    BY Zenon, <2>2, <2>3
<1>3. PICK x : x = [IdlePass EXCEPT !.pc = "armed", !.deadline = clock]
  BY Zenon
<1>4. x.pc = "armed" /\ x.deadline = clock
  BY Zenon, <1>3 DEF IdlePass
<1>5. /\ PassMoves(p, c, x) /\ c \in Passes
      /\ drv' = [drv EXCEPT ![p].running = TRUE, ![p].handle = c, ![p].up = clock]
  BY Zenon, <1>2, <1>3 DEF StartDriver, PassMoves, Passes
<1>6. /\ pass'[p][c] = x
      /\ \A q \in Processes, d \in Passes : ~(q = p /\ d = c) => pass'[q][d] = pass[q][d]
  BY <1>5 DEF PassMoves, TimerInv, PassesSound
<1>7. clock \in Nat /\ PollInterval \in Nat
  BY Zenon, Times
<1>8. /\ DriversSound' /\ drv'[p].running /\ drv'[p].up = clock
      /\ \A q \in Processes \ {p} : drv'[q] = drv[q]
  BY <1>1, <1>5, <1>7 DEF LateInv, DriversSound
<1>9. LockSound'
  BY Zenon, <1>1, <1>2, <1>5, LockMoves
<1>10. PassFresh(x)'
  BY Zenon, <1>4 DEF PassFresh
<1>11. Watches(p, x)'
  <2>1. \A t \in Threads : InTime(p, t, x.deadline)'
    BY <1>4, <1>7, <1>8 DEF InTime
  <2>2. ArmedFor(p, x)'
    BY <1>1, <1>4, <1>7, <2>1 DEF ArmedFor
  <2> QED
    BY Zenon, <2>2 DEF Watches
<1>12. Watched'
  <2> SUFFICES ASSUME NEW q \in Processes, drv'[q].running
               PROVE  \E d \in Chains : Watches(q, pass[q][d])'
    BY Zenon, <1>1 DEF Watched
  <2>1. CASE q = p
    <3>1. Watches(p, pass[p][c])'
      BY Zenon, <1>6, <1>11
    <3> QED
      BY Zenon, <2>1, <3>1
  <2>2. CASE q # p
    <3>1. drv'[q] = drv[q]
      BY Zenon, <1>8, <2>2
    <3>2. PICK d \in Chains : Watches(q, pass[q][d])
      BY Zenon, <3>1 DEF LateInv, Watched
    <3>3. pass'[q][d] = pass[q][d]
      BY Zenon, <1>6, <2>2 DEF Passes
    <3>4. Watches(q, pass[q][d])'
      BY <1>1, <3>1, <3>2, <3>3, StillWatched
    <3> QED
      BY Zenon, <3>4
  <2> QED
    BY Zenon, <2>1, <2>2
<1>13. \A q \in Processes :
         drv'[q].running => drv'[q].up = clock \/ (drv[q].running /\ drv'[q].up = drv[q].up)
  BY Zenon, <1>8
<1>14. ASSUME NEW q \in Processes, NEW d \in Passes
       PROVE  pass'[q][d] = pass[q][d] \/ PassFresh(pass[q][d])'
  <2>1. CASE q = p /\ d = c
    BY SMTT(30), <1>6, <1>10, <2>1
  <2> QED
    BY Zenon, <1>6, <2>1
<1> QED
  BY <1>1, <1>8, <1>9, <1>12, <1>13, <1>14, LateFrom

(* A driver stops, or its process is lost: the others go on.               *)
LEMMA HaltLate ==
  ASSUME TimerInv, TimerInv', Evolves, clock' = clock, LateInv, NEW p \in Processes, DriversSound', LockSound',
         human' = human \/ HumanFresh', ~drv'[p].running,
         \A q \in Processes \ {p} : drv'[q] = drv[q] /\ pass'[q] = pass[q],
         \A c \in Passes : pass'[p][c] = pass[p][c] \/ pass'[p][c] = IdlePass,
         \A q \in Processes \ {p}, t \in Threads : <<q, t>> \in lock => <<q, t>> \in lock'
  PROVE  LateInv'
<1>1. Processes' = Processes
  BY Zenon DEF Evolves, Processes
<1>2. Watched'
  <2> SUFFICES ASSUME NEW q \in Processes, drv'[q].running
               PROVE  \E d \in Chains : Watches(q, pass[q][d])'
    BY Zenon, <1>1 DEF Watched
  <2>1. q \in Processes \ {p}
    BY Zenon
  <2>2. PICK d \in Chains : Watches(q, pass[q][d])
    BY Zenon, <2>1 DEF LateInv, Watched
  <2>3. pass'[q][d] = pass[q][d] /\ drv'[q].up = drv[q].up
    BY Zenon, <2>1
  <2>4. \A t \in Threads : <<q, t>> \in lock => <<q, t>> \in lock'
    BY Zenon, <2>1
  <2>5. Watches(q, pass[q][d])'
    BY Zenon, <2>2, <2>3, <2>4, StillWatched
  <2> QED
    BY Zenon, <2>5
<1>3. PICK y : y = IdlePass /\ y.pc = "off"
  BY Zenon DEF IdlePass
<1>4. PassFresh(y)'
  BY Zenon, <1>3 DEF PassFresh
<1>5. ASSUME NEW q \in Processes, NEW d \in Passes
      PROVE  pass'[q][d] = pass[q][d] \/ PassFresh(pass[q][d])'
  <2>1. CASE pass'[q][d] = y
    BY Zenon, <1>4, <2>1
  <2> QED
    BY Zenon, <1>3, <2>1
<1>6. \A q \in Processes :
        drv'[q].running => drv'[q].up = clock \/ (drv[q].running /\ drv'[q].up = drv[q].up)
  BY Zenon
<1> QED
  BY SMTT(30), <1>2, <1>5, <1>6, LateFrom

(* stop().                                                                 *)
LEMMA StopLate ==
  ASSUME TimerInv, TimerInv', Evolves, LateInv, NEW p \in Processes, StopDriver(p)
  PROVE  LateInv'
<1>1. UNCHANGED <<sc, clock, human, lock>> /\ Processes' = Processes /\ Threads' = Threads
  BY Zenon DEF StopDriver, Processes, Threads
<1>2. /\ DriversSound' /\ ~drv'[p].running
      /\ \A q \in Processes \ {p} : drv'[q] = drv[q]
  BY Zenon, <1>1 DEF StopDriver, LateInv, DriversSound
<1>3. /\ \A q \in Processes \ {p} : pass'[q] = pass[q]
      /\ \A c \in Passes : pass'[p][c] = pass[p][c] \/ (pass'[p][c] = IdlePass /\ pass[p][c].pc = "armed")
  BY Zenon DEF StopDriver, TimerInv, PassesSound
<1>4. \A q \in Processes, c \in Passes : pass[q][c].pc = "put" => pass'[q][c] = pass[q][c]
  BY Zenon, <1>3
<1>5. LockSound'
  BY <1>1, <1>4 DEF LateInv, LockSound, Holder, Item
<1> QED
  BY <1>1, <1>2, <1>3, <1>5, HaltLate

(* The process of a driver is lost, with its locks.                        *)
LEMMA CrashLate ==
  ASSUME TimerInv, TimerInv', Evolves, LateInv, NEW p \in Processes, Crash(p)
  PROVE  LateInv'
<1>1. UNCHANGED <<sc, clock>> /\ Processes' = Processes /\ Threads' = Threads
  BY Zenon DEF Crash, Processes, Threads
<1>2. /\ DriversSound' /\ ~drv'[p].running
      /\ \A q \in Processes \ {p} : drv'[q] = drv[q]
  BY Zenon, <1>1 DEF Crash, LateInv, DriversSound
<1>3. /\ \A q \in Processes \ {p} : pass'[q] = pass[q]
      /\ \A c \in Passes : pass'[p][c] = IdlePass
  BY Zenon DEF Crash, TimerInv, PassesSound
<1>4. \A q \in Processes, t \in Threads : <<q, t>> \in lock' <=> <<q, t>> \in lock /\ q # p
  BY Zenon DEF Crash
<1>5. human' = human \/ HumanFresh'
  <2>1. CASE human' = IdleHuman
    <3>1. human'.pc = "idle"
      BY Zenon, <2>1 DEF IdleHuman
    <3> QED
      BY Zenon, <3>1 DEF HumanFresh
  <2> QED
    BY Zenon, <2>1 DEF Crash
<1>6. human.process # p => human' = human
  BY Zenon DEF Crash
<1>7. ASSUME NEW q \in Processes, NEW t \in Threads, <<q, t>> \in lock'
      PROVE  Holder(q, t)'
  <2>1. Holder(q, t) /\ q # p
    BY Zenon, <1>4, <1>7 DEF LateInv, LockSound
  <2> QED
    BY Zenon, <1>3, <1>6, <2>1 DEF Holder, Item
<1>8. LockSound'
  BY Zenon, <1>1, <1>7 DEF LockSound
<1>9. \A q \in Processes \ {p}, t \in Threads : <<q, t>> \in lock => <<q, t>> \in lock'
  BY Zenon, <1>4
<1> QED
  BY Zenon, <1>1, <1>2, <1>3, <1>5, <1>8, <1>9, HaltLate

(* A pass that is not about to write moves, and does not get there.        *)
LEMMA PlainPassLate ==
  ASSUME TimerInv, TimerInv', Evolves, clock' = clock, LateInv, human' = human, lock' = lock, DriversSound',
         \A q \in Processes : drv'[q].running = drv[q].running /\ drv'[q].up = drv[q].up,
         NEW p \in Processes, NEW c \in Passes, pass[p][c].pc # "put",
         NEW x, PassMoves(p, c, x), PassFresh(x)',
         c \in Chains /\ drv[p].running /\ Watches(p, pass[p][c]) => Watches(p, x)'
  PROVE  LateInv'
<1>1. LockSound'
  BY Zenon, LockMoves
<1> QED
  BY Zenon, <1>1, PassLate

(* What Proceed leaves is no tick that could lose a thread.                *)
LEMMA ProceedFresh ==
  ASSUME NEW p, NEW c, NEW s, s.pc = "item", Proceed(p, c, s)
  PROVE  \E x : PassMoves(p, c, x) /\ PassFresh(x)' /\ x.pc # "put"
<1>1. PICK x : PassMoves(p, c, x) /\ (x = s \/ x = Rearmed(p, c, s.earliest))
  BY Zenon DEF Proceed, PassMoves
<1>2. CASE x = s
  BY Zenon, <1>1, <1>2 DEF PassFresh
<1>3. CASE x = Rearmed(p, c, s.earliest)
  <2>1. PICK d : x \in {IdlePass, [IdlePass EXCEPT !.pc = "armed", !.deadline = d]}
    BY ZenonT(30), <1>3 DEF Rearmed
  <2>2. IsPass(IdlePass) /\ IdlePass.pc = "off"
    BY Zenon DEF IsPass, IdlePass
  <2>3. x.pc \in {"off", "armed"}
    BY ZenonT(30), <2>1, <2>2 DEF IsPass
  <2> QED
    BY Zenon, <1>1, <2>3 DEF PassFresh
<1> QED
  BY Zenon, <1>1, <1>2, <1>3

(* The timeout of a chain fires: the sweep forgets no thread.              *)
LEMMA RunPassLate ==
  ASSUME Ample, TimerInv, TimerInv', Evolves, LateInv, NEW p \in Processes, NEW c \in Passes, RunPass(p, c)
  PROVE  LateInv'
<1>1. UNCHANGED <<sc, clock, th, human, lock>> /\ pass[p][c].pc = "armed" /\ DriversSound
  BY Zenon DEF RunPass, LateInv
<1>2. CASE ~drv[p].running
  <2>1. PICK x : x = IdlePass /\ x.pc = "off"
    <3>1. IdlePass.pc = "off"
      BY Zenon DEF IdlePass
    <3> QED
      BY Zenon, <3>1
  <2>2. PassMoves(p, c, x) /\ drv' = drv
    BY Zenon, <1>2, <2>1 DEF RunPass, PassMoves
  <2>3. PassFresh(x)'
    BY Zenon, <2>1 DEF PassFresh
  <2>4. DriversSound'
    BY Zenon, <1>1, <2>2 DEF DriversSound, Processes
  <2> QED
    BY <1>1, <1>2, <2>2, <2>3, <2>4, PlainPassLate
<1>3. CASE drv[p].running
  <2>1. PICK list \in Listed : Proceed(p, c, Swept(list))
    BY Zenon, <1>3 DEF RunPass
  <2>2. PICK s : s = Swept(list)
    BY Zenon
  <2>3. s.pc = "item" /\ Covers(p, s.items, s.earliest) /\ Proceed(p, c, s)
    BY <2>1, <2>2, SweptCovers
  <2>4. Covers(p, s.items, s.earliest)'
    BY ZenonT(30), <1>1, <2>3 DEF Covers, Fresh, Foreseen, Threads
  <2>5. /\ DriversSound'
        /\ \A q \in Processes : drv'[q].running = drv[q].running /\ drv'[q].up = drv[q].up
    BY ZenonT(30), <1>1, <2>3, DriverKept
  <2>6. PICK x : PassMoves(p, c, x) /\ PassFresh(x)'
    BY Zenon, <2>3, ProceedFresh
  <2>7. c \in Chains => Watches(p, x)'
    <3> SUFFICES ASSUME c \in Chains
                 PROVE  Watches(p, x)'
      BY Zenon
    <3>1. PICK y : PassMoves(p, c, y) /\ Watches(p, y)'
      BY <1>1, <1>3, <2>3, <2>4, ProceedWatches
    <3>2. x = y
      BY <2>6, <3>1 DEF PassMoves, TimerInv, PassesSound
    <3> QED
      BY Zenon, <3>1, <3>2
  <2> QED
    BY <1>1, <2>5, <2>6, <2>7, PlainPassLate
<1> QED
  BY Zenon, <1>2, <1>3

(* sweep() runs beside the chains.                                         *)
LEMMA SweepLate ==
  ASSUME TimerInv, TimerInv', Evolves, LateInv, NEW p \in Processes, Sweep(p)
  PROVE  LateInv'
<1>1. UNCHANGED <<sc, clock, th, human, lock>> /\ Manual \in Passes /\ Manual \notin Chains /\ DriversSound
  BY DEF Sweep, LateInv, Passes, Manual, Chains
<1>2. CASE drv[p].inFlight
  <2>1. UNCHANGED <<drv, pass>>
    BY Zenon, <1>2 DEF Sweep
  <2> QED
    BY <1>1, <2>1, SameLock, QuietLate
<1>3. CASE ~drv[p].inFlight
  <2>1. PICK list \in Listed : Proceed(p, Manual, Swept(list)) /\ pass[p][Manual].pc = "off"
    BY Zenon, <1>3 DEF Sweep
  <2>2. PICK s : s = Swept(list)
    BY Zenon
  <2>3. s.pc = "item" /\ Proceed(p, Manual, s)
    BY <2>1, <2>2, SweptSound DEF TimerInv
  <2>4. /\ DriversSound'
        /\ \A q \in Processes : drv'[q].running = drv[q].running /\ drv'[q].up = drv[q].up
    BY <1>1, <2>3, DriverKept
  <2>5. PICK x : PassMoves(p, Manual, x) /\ PassFresh(x)'
    BY Zenon, <2>3, ProceedFresh
  <2> QED
    BY ZenonT(30), <1>1, <2>1, <2>4, <2>5, PlainPassLate
<1> QED
  BY Zenon, <1>2, <1>3

(* The end of a tick of pass c, seen by the locks and the other passes.    *)
LEMMA NextItemLate ==
  ASSUME Ample, TimerInv, TimerInv', Evolves, clock' = clock, LateInv, human' = human,
         NEW p \in Processes, NEW c \in Passes, pass[p][c].pc \in Ticks, NEW w \in Int, NextItem(p, c, w),
         NEW i \in Threads, i = Item(p, c), Fresh(i)' \/ <<p, i>> \in lock' \/ Foreseen(i, w)',
         \A q \in Processes, t \in Threads : <<q, t>> \in lock =>
           <<q, t>> \in lock' \/ (<<q, t>> = <<p, i>> /\ Fresh(i)'),
         \A q \in Processes, t \in Threads : <<q, t>> \in lock' =>
           <<q, t>> \in lock /\ ~(q = p /\ pass[p][c].pc = "put" /\ t = i)
  PROVE  LateInv'
<1>1. PICK v : v = pass[p][c] /\ PassSound(v)
  BY Zenon DEF TimerInv, PassesSound
<1>2. PICK s : s = [v EXCEPT !.pc = "item", !.items = Tail(@), !.earliest = Min({@, w})]
  BY Zenon
<1>3. s.pc = "item"
  BY Zenon, <1>1, <1>2 DEF PassSound, IsPass
<1>4. PICK x : PassMoves(p, c, x) /\ PassFresh(x)' /\ x.pc # "put"
  <2>1. CASE pass' = [pass EXCEPT ![p][c] = s]
    BY ZenonT(30), <1>3, <2>1 DEF PassMoves, PassFresh
  <2>2. CASE Proceed(p, c, s)
    BY Zenon, <1>3, <2>2, ProceedFresh
  <2> QED
    BY <1>1, <1>2, <2>1, <2>2 DEF NextItem
<1>5. /\ DriversSound'
      /\ \A q \in Processes : drv'[q].running = drv[q].running /\ drv'[q].up = drv[q].up
  BY ZenonT(30), NextItemKept DEF LateInv
<1>6. LockSound'
  BY Zenon, <1>4, LockMoves
<1>7. \A q \in Processes, t \in Threads : <<q, t>> \in lock => <<q, t>> \in lock' \/ Fresh(t)'
  <2> SUFFICES ASSUME NEW q \in Processes, NEW t \in Threads, <<q, t>> \in lock, <<q, t>> \notin lock'
               PROVE  Fresh(t)'
    BY Zenon
  <2>1. t = i /\ Fresh(i)'
    BY Zenon
  <2> QED
    BY Zenon, <2>1
<1>8. ASSUME c \in Chains, drv[p].running, Watches(p, pass[p][c])
      PROVE  Watches(p, x)'
  <2>1. \A t \in Threads : <<p, t>> \in lock => <<p, t>> \in lock' \/ Fresh(t)'
    BY Zenon, <1>7
  <2>2. PICK y : PassMoves(p, c, y) /\ Watches(p, y)'
    BY ZenonT(30), <1>8, <2>1, NextItemWatches
  <2>3. x = y
    BY <1>4, <2>2 DEF PassMoves, TimerInv, PassesSound
  <2> QED
    BY <2>2, <2>3
<1> QED
  BY ZenonT(30), <1>4, <1>5, <1>6, <1>7, <1>8, PassLate

(* A tick that goes on with its thread keeps watching the others.          *)
LEMMA TickGoesOn ==
  ASSUME TimerInv, TimerInv', Evolves, clock' = clock, NEW p \in Processes, NEW v, NEW x, Watches(p, v),
         v.pc \in Ticks, x.pc \in Ticks, x.items = v.items, x.earliest = v.earliest,
         drv' = drv, lock \subseteq lock'
  PROVE  Watches(p, x)'
<1>1. Watches(p, x)
  BY Zenon DEF Watches, ArmedFor, Ticks
<1> QED
  BY Zenon, <1>1, WatchStays

(* tick() reads its thread.                                                *)
LEMMA TickReadLate ==
  ASSUME Ample, TimerInv, TimerInv', Evolves, LateInv, NEW p \in Processes, NEW c \in Passes, TickRead(p, c)
  PROVE  LateInv'
<1>1. UNCHANGED <<sc, clock, th, human, lock>> /\ pass[p][c].pc = "item"
  BY Zenon DEF TickRead
<1>2. PICK t \in Threads : t = Item(p, c)
  BY Zenon, <1>1, Ticking
<1>3. /\ clock \in Nat /\ clock <= MaxTime /\ MaxTime \in Nat /\ PollInterval \in Nat
      /\ Never = MaxTime + PollInterval + 1 /\ th[t].stamp \in Nat
  BY Zenon, Times
<1>4. /\ th[t].wake \in [Nodes -> Nat]
      /\ th[t].stamp = Never \/ \E n \in Waiting(t, th[t].cursor) : th[t].wake[n] = th[t].stamp
  BY Zenon DEF TimerInv, ThreadsSound, CheckpointSound
<1>5. CASE Due(t) = {} \/ th[t].status # "suspended"
  <2>1. PICK E : E = {Never} \cup {th[t].wake[n] : n \in Pending(t) \ Due(t)}
    BY Zenon
  <2>2. NextItem(p, c, Min(E))
    BY ZenonT(30), <1>2, <1>5, <2>1 DEF TickRead
  <2>3. Pending(t) \subseteq Nodes
    BY Zenon DEF Pending, Waiting
  <2>4. E \in SUBSET Nat /\ E # {}
    BY <1>3, <1>4, <2>1, <2>3
  <2>5. PICK w \in Nat : w = Min(E) /\ \A y \in E : w <= y
    BY ZenonT(30), <2>4, MinOf
  <2>6. Fresh(t)' \/ Foreseen(t, w)'
    <3>1. CASE th[t].status # "suspended"
      BY Zenon, <1>1, <3>1 DEF Fresh
    <3>2. CASE th[t].stamp = Never
      BY SMTT(30), <1>1, <1>3, <3>2 DEF Foreseen
    <3>3. ASSUME th[t].status = "suspended", Due(t) = {},
                 NEW n \in Waiting(t, th[t].cursor), th[t].wake[n] = th[t].stamp
          PROVE  Foreseen(t, w)'
      <4>1. n \in Pending(t) /\ n \notin Due(t)
        BY Zenon, <3>3 DEF Pending
      <4>2. th[t].stamp > clock
        BY <1>3, <3>3, <4>1 DEF Due
      <4>3. w <= th[t].stamp
        BY <2>1, <2>5, <3>3, <4>1
      <4> QED
        BY <1>1, <4>2, <4>3 DEF Foreseen
    <3> QED
      BY <1>4, <1>5, <3>1, <3>2, <3>3
  <2>7. pass[p][c].pc \in Ticks /\ NextItem(p, c, w) /\ w \in Int
    BY <1>1, <2>2, <2>5 DEF Ticks
  <2> QED
    BY ZenonT(30), <1>1, <1>2, <2>6, <2>7, NextItemLate
<1>6. CASE ~(Due(t) = {} \/ th[t].status # "suspended")
  <2>1. PICK n \in Due(t) : /\ pass' = [pass EXCEPT ![p][c].pc = "resume", ![p][c].target = n,
                                                    ![p][c].wake = th[t].wake[n]]
                            /\ drv' = drv
    BY ZenonT(30), <1>2, <1>6 DEF TickRead
  <2>2. PICK v : v = pass[p][c] /\ IsPass(v) /\ v.pc = "item" /\ t = Head(v.items)
    BY ZenonT(30), <1>1, <1>2 DEF TimerInv, PassesSound, PassSound, Item
  <2>3. PICK k : k = th[t].wake[n]
    BY Zenon
  <2>4. PICK x : x = [v EXCEPT !.pc = "resume", !.target = n, !.wake = k]
    BY Zenon
  <2>5. PassMoves(p, c, x)
    <3>1. DOMAIN pass = Processes /\ DOMAIN pass[p] = Passes
      BY Zenon DEF TimerInv, PassesSound
    <3> QED
      BY ZenonT(30), <2>1, <2>2, <2>3, <2>4, <3>1 DEF PassMoves
  <2>6. /\ x.pc = "resume" /\ x.target = n /\ x.wake = k /\ x.items = v.items
        /\ x.earliest = v.earliest
    BY Zenon, <2>2, <2>4 DEF IsPass
  <2>7. Found(t, n, k)
    BY Zenon, <1>6, <2>3 DEF Found, Due
  <2>8. Found(t, n, k)'
    BY <1>1, <2>7 DEF Found, Pending, Waiting, Body
  <2>9. PassFresh(x)'
    BY ZenonT(30), <2>2, <2>6, <2>8 DEF PassFresh
  <2>10. Watches(p, pass[p][c]) => Watches(p, x)'
    <3>1. v.pc \in Ticks /\ x.pc \in Ticks
      BY <2>2, <2>6 DEF Ticks
    <3> QED
      BY ZenonT(30), <1>1, <2>1, <2>2, <2>6, <3>1, TickGoesOn
  <2>11. DriversSound'
    BY Zenon, <1>1, <2>1 DEF LateInv, DriversSound, Processes
  <2> QED
    BY <1>1, <2>1, <2>5, <2>9, <2>10, <2>11, PlainPassLate
<1> QED
  BY <1>5, <1>6

(* tick's resume: it takes the lock, or leaves its thread to a call of the *)
(* process that holds it, or finds that it was moved just now.             *)
LEMMA TickResumeLate ==
  ASSUME Ample, TimerInv, TimerInv', Evolves, LateInv, NEW p \in Processes, NEW c \in Passes, TickResume(p, c)
  PROVE  LateInv'
<1>1. UNCHANGED <<sc, clock, th, human>> /\ pass[p][c].pc = "resume"
  BY Zenon DEF TickResume
<1>2. PICK t \in Threads : t = Item(p, c)
  BY <1>1, Ticking
<1>3. PICK v : v = pass[p][c] /\ IsPass(v) /\ v.pc = "resume" /\ t = Head(v.items) /\ PassFresh(v)
  BY ZenonT(30), <1>1, <1>2 DEF TimerInv, PassesSound, PassSound, Item, LateInv, AllFresh
<1>4. CASE ~(<<p, t>> \notin lock /\ Found(t, v.target, v.wake))
  <2>1. lock' = lock /\ NextItem(p, c, Never)
    BY <1>2, <1>3, <1>4 DEF TickResume
  <2>2. Fresh(t)' \/ <<p, t>> \in lock'
    <3>1. CASE Fresh(t)
      BY SMTT(30), <1>1, <3>1, FreshStays
    <3> QED
      BY ZenonT(30), <1>3, <1>4, <2>1, <3>1 DEF PassFresh
  <2>3. pass[p][c].pc \in Ticks /\ Never \in Int
    BY <1>1, ConstantsAssumption DEF Ticks, Never
  <2> QED
    BY ZenonT(30), <1>1, <1>2, <2>1, <2>2, <2>3, NextItemLate
<1>5. CASE <<p, t>> \notin lock /\ Found(t, v.target, v.wake)
  <2>1. /\ pass' = [pass EXCEPT ![p][c].pc = "put", ![p][c].loaded = th[t]]
        /\ lock' = lock \cup {<<p, t>>} /\ drv' = drv
    BY <1>2, <1>3, <1>5 DEF TickResume
  <2>2. PICK k : k = th[t]
    BY Zenon
  <2>3. PICK x : x = [v EXCEPT !.pc = "put", !.loaded = k]
    BY Zenon
  <2>4. PassMoves(p, c, x)
    <3>1. DOMAIN pass = Processes /\ DOMAIN pass[p] = Passes
      BY DEF TimerInv, PassesSound
    <3> QED
      BY ZenonT(30), <1>3, <2>1, <2>2, <2>3, <3>1 DEF PassMoves
  <2>5. x.pc = "put" /\ x.loaded = k /\ x.items = v.items /\ x.earliest = v.earliest
    BY <1>3, <2>3 DEF IsPass
  <2>6. PassFresh(x)'
    BY ZenonT(30), <1>1, <1>3, <2>2, <2>5 DEF PassFresh, Unmoved
  <2>7. LockSound'
    <3>1. \A q \in Processes, u \in Threads : <<q, u>> \in lock' =>
            \/ <<q, u>> \in lock /\ ~(q = p /\ pass[p][c].pc = "put" /\ Item(p, c) = u)
            \/ q = p /\ x.pc = "put" /\ Head(x.items) = u
      BY Zenon, <1>1, <1>3, <2>1, <2>5
    <3> QED
      BY ZenonT(30), <1>1, <2>4, <3>1, LockMoves
  <2>8. Watches(p, pass[p][c]) => Watches(p, x)'
    <3>1. v.pc \in Ticks /\ x.pc \in Ticks /\ lock \subseteq lock'
      BY <1>3, <2>1, <2>5 DEF Ticks
    <3> QED
      BY SMTT(30), <1>1, <1>3, <2>1, <2>5, <3>1, TickGoesOn
  <2>9. DriversSound'
    BY Zenon, <1>1, <2>1 DEF LateInv, DriversSound, Processes
  <2>10. \A q \in Processes, u \in Threads : <<q, u>> \in lock => <<q, u>> \in lock' \/ Fresh(u)'
    BY <2>1
  <2> QED
    BY Zenon, <1>1, <2>1, <2>4, <2>6, <2>7, <2>8, <2>9, <2>10, PassLate
<1> QED
  BY <1>4, <1>5

(* tick's run writes and gives its lock up: the thread moved, now or just  *)
(* before.                                                                 *)
LEMMA TickPutLate ==
  ASSUME Ample, TimerInv, TimerInv', Evolves, LateInv, NEW p \in Processes, NEW c \in Passes, TickPut(p, c)
  PROVE  LateInv'
<1>1. UNCHANGED <<sc, clock, human>> /\ pass[p][c].pc = "put"
  BY ZenonT(30) DEF TickPut
<1>2. PICK t \in Threads : t = Item(p, c)
  BY <1>1, Ticking
<1>3. PICK v : v = pass[p][c] /\ v.pc = "put" /\ t = Head(v.items) /\ PassFresh(v)
  BY <1>1, <1>2 DEF Item, LateInv, AllFresh
<1>4. lock' = lock \ {<<p, t>>}
  BY Zenon, <1>2 DEF TickPut
<1>5. PICK a : a = Answered(t, v.loaded, v.target)
  BY Zenon
<1>6. PICK w \in Int : NextItem(p, c, w) /\ Fresh(t)'
  <2>1. CASE Unmoved(t, v.loaded)
    <3>1. th' = [th EXCEPT ![t] = a] /\ NextItem(p, c, a.stamp)
      BY ZenonT(30), <1>2, <1>3, <1>5, <2>1 DEF TickPut
    <3>2. th'[t] = a
      BY <3>1 DEF TimerInv, ThreadsSound
    <3>3. a.since = clock
      BY ZenonT(30), <1>5 DEF Answered, Stored
    <3>4. a.stamp \in Int
      <4>1. t \in Threads' /\ ThreadsSound'
        BY Zenon, <1>1 DEF TimerInv, Threads
      <4> QED
        BY <3>2, <4>1 DEF ThreadsSound, CheckpointSound
    <3> QED
      BY <1>1, <3>1, <3>2, <3>3, <3>4 DEF Fresh
  <2>2. CASE ~Unmoved(t, v.loaded)
    <3>1. NextItem(p, c, Never)
      BY ZenonT(30), <1>2, <1>3, <2>2 DEF TickPut
    <3>2. Fresh(t)
      BY ZenonT(30), <1>3, <2>2 DEF PassFresh
    <3>3. Never \in Int
      BY ConstantsAssumption DEF Never
    <3> QED
      BY <1>1, <3>1, <3>2, <3>3, FreshStays
  <2> QED
    BY SMTT(30), <2>1, <2>2
<1>7. pass[p][c].pc \in Ticks
  BY Zenon, <1>1 DEF Ticks
<1>8. /\ \A q \in Processes, u \in Threads : <<q, u>> \in lock =>
           <<q, u>> \in lock' \/ (<<q, u>> = <<p, t>> /\ Fresh(t)')
      /\ \A q \in Processes, u \in Threads : <<q, u>> \in lock' =>
           <<q, u>> \in lock /\ ~(q = p /\ pass[p][c].pc = "put" /\ u = t)
  BY Zenon, <1>4, <1>6
<1> QED
  BY ZenonT(30), <1>1, <1>2, <1>6, <1>7, <1>8, NextItemLate

-----------------------------------------------------------------------------
(* Nobody waits, no driver runs.                                           *)
LEMMA LateStarts == Init => LateInv
<1> SUFFICES ASSUME Init
             PROVE  LateInv
  BY Zenon
<1>1. \A p \in Processes : /\ DOMAIN drv[p] = {"running", "handle", "inFlight", "up"}
                           /\ ~drv[p].running /\ drv[p].up = 0
  BY Zenon DEF Init
<1>2. DriversSound /\ NotLate /\ Watched
  <2>1. DOMAIN drv = Processes
    BY Zenon DEF Init
  <2>2. DriversSound
    BY <1>1, <2>1 DEF DriversSound
  <2> QED
    BY Zenon, <1>1, <2>2 DEF NotLate, Watched
<1>3. LockSound
  BY Zenon DEF Init, LockSound
<1>4. \A p \in Processes, c \in Passes : pass[p][c].pc = "off"
  BY Zenon DEF Init, IdlePass
<1>5. human.pc = "idle"
  BY Zenon DEF Init, IdleHuman
<1>6. AllFresh
  BY Zenon, <1>4, <1>5 DEF AllFresh, HumanFresh, PassFresh
<1> QED
  BY <1>2, <1>3, <1>6 DEF LateInv

(* Every step of the drivers, the approvers and the clock.                 *)
LEMMA LateStep == Ample /\ TimerInv /\ LateInv /\ [Next]_vars => LateInv'
<1> SUFFICES ASSUME Ample, TimerInv, LateInv, [Next]_vars
             PROVE  LateInv'
  BY Zenon
<1>1. TimerInv' /\ Evolves
  BY Zenon, TimerStep
<1>2. CASE UNCHANGED vars
  <2>1. UNCHANGED <<clock, drv, pass, human, lock>>
    BY Zenon, <1>2 DEF vars
  <2> QED
    BY <1>1, <2>1, SameLock, QuietLate
<1>3. CASE Tick \/ ApproveResume \/ ApprovePut
  BY <1>1, <1>3, TickLate, ApproveResumeLate, ApprovePutLate
<1>4. CASE \E t \in Threads : Execute(t)
  BY <1>1, <1>4, ExecuteLate
<1>5. CASE \E p \in Processes : StartDriver(p) \/ StopDriver(p) \/ Crash(p) \/ Sweep(p)
  BY <1>1, <1>5, StartLate, StopLate, CrashLate, SweepLate
<1>6. CASE \E p \in Processes, c \in Passes : Sweeping(p, c)
  BY <1>1, <1>6, RunPassLate, TickReadLate, TickResumeLate, TickPutLate DEF Sweeping
<1>7. CASE \E p \in Processes, t \in Threads, n \in Nodes : Approve(p, t, n)
  BY <1>1, <1>7, ApproveLate
<1> QED
  BY <1>2, <1>3, <1>4, <1>5, <1>6, <1>7 DEF Next

(* For any threads that fit in one batch of listSuspended, any nodes,      *)
(* processes and pauses, and a clock that counts in the least delay of     *)
(* schedule(): a driver that is up ticks a suspended thread the moment it  *)
(* is due, or one poll interval after it suspended, whatever is stopped,   *)
(* started, lost, swept by hand or approved meanwhile.                     *)
THEOREM NeverLateSafe == Ample => (Spec => []NeverLate)
<1> SUFFICES ASSUME Ample
             PROVE  Spec => []NeverLate
  BY Zenon
<1>1. TimerInv /\ LateInv => NeverLate
  <2> SUFFICES ASSUME TimerInv, LateInv, NEW t \in Threads, NEW p \in Processes,
                      drv[p].running, th[t].status = "suspended"
               PROVE  clock <= Max({th[t].stamp, th[t].since + PollInterval, drv[p].up})
    BY Zenon DEF NeverLate
  <2>1. PICK a \in Int : a = th[t].stamp
    BY Times
  <2>2. PICK b \in Int : b = th[t].since + PollInterval
    BY Times
  <2>3. PICK d \in Int : d = drv[p].up
    BY Zenon DEF LateInv, DriversSound
  <2>4. clock \in Int
    BY Times
  <2>5. clock <= a \/ clock <= b \/ clock <= d
    BY <2>1, <2>2, <2>3 DEF LateInv, NotLate, InTime
  <2>6. \E m \in {a, b, d} : \A y \in {a, b, d} : m >= y
    OBVIOUS
  <2>7. Max({a, b, d}) \in {a, b, d} /\ \A y \in {a, b, d} : Max({a, b, d}) >= y
    BY Zenon, <2>6 DEF Max
  <2>8. clock <= Max({a, b, d})
    BY <2>4, <2>5, <2>7
  <2> QED
    BY SMTT(30), <2>1, <2>2, <2>3, <2>8
<1>2. TimerInv /\ LateInv /\ [Next]_vars => TimerInv' /\ LateInv'
  BY Zenon, TimerStep, LateStep
<1> QED
  BY <1>1, <1>2, TimerStarts, LateStarts, PTL DEF Spec

=============================================================================
