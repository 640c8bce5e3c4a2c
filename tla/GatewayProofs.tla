------------------------------- MODULE GatewayProofs -------------------------------
(* What the gateway promises its peers, for any policy, limits, peers,        *)
(* channels and bounds: a running gateway leaves no queue unattended, only    *)
(* messages of peers the operator approved reach the handler, and a code      *)
(* delivered to a peer stays good until it expires.                           *)
EXTENDS FrontDoorProofs

(* Where a step leaves the drain loops.                                       *)

(* The loop of channel d stays, rests, takes a message, goes on with its      *)
(* check, or goes on with its handler.                                        *)
LoopGoes(d) ==
  \/ loop'[d] = loop[d]
  \/ loop'[d] = Idle
  \/ \E m : loop'[d] = CheckBegins(m)
  \/ AccessCheck(d) /\ loop'[d] = CheckStep(loop[d])
  \/ /\ loop[d].pc \in {"allowed", "handling"}
     /\ \E x \in {"handling", "reply"} : loop'[d] = [loop[d] EXCEPT !.pc = x]

(* The head of the drain loop moves the loop of its channel only.             *)
LEMMA TakeGoes ==
  ASSUME Scopes, NEW c \in cf.channels, NEW q, Take(c, q)
  PROVE  \A d \in cf.channels : LoopGoes(d)
<1>1. PICK m : loop' = [loop EXCEPT ![c] = CheckBegins(m)] \/ loop' = [loop EXCEPT ![c] = Idle]
  BY Zenon DEF Take
<1>2. \A d \in cf.channels : loop'[d] = loop[d] \/ loop'[d] = Idle \/ loop'[d] = CheckBegins(m)
  BY Zenon, <1>1 DEF Scopes
<1> QED
  BY Zenon, <1>2 DEF LoopGoes

(* No step but those of a channel's own loop and of its adapter moves it.     *)
LEMMA LoopsGo ==
  ASSUME LineInv, [Next]_vars
  PROVE  cf' = cf /\ \A d \in cf.channels : LoopGoes(d)
<1>1. ASSUME UNCHANGED loop PROVE \A d \in cf.channels : LoopGoes(d)
  BY Zenon, <1>1 DEF LoopGoes
<1>2. CASE AccessNext
  <2>1. UNCHANGED <<cf, loop>>
    BY Zenon, <1>2 DEF AccessNext, Operator, ApproveFinds, ApproveDeletes, ApprovePairs, ApproveFails, Revoke, Tick, gatewayVars
  <2> QED
    BY <1>1, <2>1
<1>3. CASE \E p \in cf.peers : Inbound(p)
  <2>1. PICK p \in cf.peers : Inbound(p)
    BY Zenon, <1>3
  <2>2. cf' = cf /\ p.channel \in cf.channels /\ Scopes
    BY <2>1, ScenariosAssumption DEF Inbound, LineInv
  <2>3. loop' = loop \/ \E q : Take(p.channel, q)
    BY <2>1 DEF Inbound, Drain
  <2> QED
    BY <1>1, <2>2, <2>3, TakeGoes
<1>4. CASE \E c \in cf.channels : LoopStep(c)
  <2>1. PICK c \in cf.channels : LoopStep(c)
    BY <1>4
  <2>2. cf' = cf /\ Scopes /\ DOMAIN loop = cf.channels
    BY <2>1 DEF LoopStep, AccessCheck, AccessThrows, Refuse, Handle, Handled, Replied, LineInv, Scopes
  <2>3. CASE AccessCheck(c)
    <3>1. loop' = [loop EXCEPT ![c] = CheckStep(loop[c])]
      BY Zenon, <2>3 DEF AccessCheck
    <3>2. \A d \in cf.channels : d # c => loop'[d] = loop[d]
      BY Zenon, <2>2, <3>1
    <3>3. loop'[c] = CheckStep(loop[c])
      BY <2>2, <3>1
    <3> QED
      BY <2>2, <2>3, <3>2, <3>3 DEF LoopGoes
  <2>4. CASE AccessThrows(c) \/ Refuse(c) \/ Handle(c) \/ Handled(c) \/ Replied(c)
    <3>1. \/ Take(c, queue[c])
          \/ /\ loop[c].pc \in {"allowed", "handling"}
             /\ \E x \in {"handling", "reply"} : loop' = [loop EXCEPT ![c] = [loop[c] EXCEPT !.pc = x]]
      BY <2>2, <2>4 DEF AccessThrows, Refuse, Handle, Handled, Replied, Finish
    <3>2. CASE Take(c, queue[c])
      BY <2>2, <3>2, TakeGoes
    <3>3. CASE /\ loop[c].pc \in {"allowed", "handling"}
               /\ \E x \in {"handling", "reply"} : loop' = [loop EXCEPT ![c] = [loop[c] EXCEPT !.pc = x]]
      <4>1. PICK x \in {"handling", "reply"} : loop' = [loop EXCEPT ![c] = [loop[c] EXCEPT !.pc = x]]
        BY Zenon, <3>3
      <4>2. \A d \in cf.channels : d # c => loop'[d] = loop[d]
        BY <2>2, <4>1
      <4>3. loop'[c] = [loop[c] EXCEPT !.pc = x]
        BY <2>2, <4>1
      <4> QED
        BY <2>2, <3>3, <4>2, <4>3 DEF LoopGoes
    <3> QED
      BY <3>1, <3>2, <3>3
  <2> QED
    BY <2>1, <2>3, <2>4 DEF LoopStep
<1>5. CASE HostStep
  <2>1. UNCHANGED <<cf, loop>>
    BY <1>5 DEF HostStep, Start, AdapterStarts, AdapterFails, Stop, AdapterStops, Stopped
  <2> QED
    BY <1>1, <2>1
<1>6. CASE ProactiveNext
  <2>1. UNCHANGED doorVars
    BY Zenon, <1>6, ProactiveFrame DEF LineInv
  <2>2. UNCHANGED <<cf, loop>>
    BY <2>1 DEF doorVars, gatewayVars
  <2> QED
    BY <1>1, <2>2
<1>7. CASE UNCHANGED vars
  <2>1. UNCHANGED <<cf, loop>>
    BY <1>7 DEF vars, gatewayVars
  <2> QED
    BY <1>1, <2>1
<1> QED
  BY <1>2, <1>3, <1>4, <1>5, <1>6, <1>7 DEF Next, GatewayNext

-----------------------------------------------------------------------------
(* The queues of a running gateway.                                           *)

(* The gateway runs only while it starts or is up; what the queues hold when  *)
(* it is off is what its last stop() left; and a running gateway attends.     *)
AttendInv ==
  /\ running = TRUE => host \in {"starting", "up"}
  /\ host = "off" => \A c \in cf.channels : Range(queue[c]) \subseteq left
  /\ QueueAttended

(* A loop at work, or a queue that stays as it was.                           *)
Attends(d) == loop'[d] # Idle \/ queue'[d] = <<>> \/ (queue'[d] = queue[d] /\ loop[d] = Idle)

(* A step of a gateway that is not off.                                       *)
LEMMA AttendKept ==
  ASSUME LineInv, AttendInv, host # "off", UNCHANGED <<cf, host, left>>, running' = running,
         running = TRUE => \A d \in cf.channels : Attends(d)
  PROVE  AttendInv'
BY Zenon DEF AttendInv, QueueAttended, Attends

(* The head of a running drain loop rests on an empty queue only.             *)
LEMMA TakeAttends ==
  ASSUME Scopes, NEW c \in cf.channels, NEW q, Take(c, q), running = TRUE,
         q = <<>> \/ (q \in Seq(Of(cf, c)) /\ q # <<>>)
  PROVE  /\ loop'[c] # Idle \/ queue'[c] = <<>>
         /\ \A d \in cf.channels : d # c => loop'[d] = loop[d] /\ queue'[d] = queue[d]
<1>1. \A m : CheckBegins(m) # Idle
  <2>1. \A m : CheckBegins(m).pc # "idle"
    BY Zenon DEF CheckBegins
  <2> QED
    BY <2>1 DEF Idle
<1>2. CASE q # <<>>
  <2>1. loop' = [loop EXCEPT ![c] = CheckBegins(Head(q))] /\ queue' = [queue EXCEPT ![c] = Tail(q)]
    BY Zenon, <1>2 DEF Take
  <2> QED
    BY Zenon, <1>1, <2>1 DEF Scopes
<1>3. CASE q = <<>>
  <2>1. loop' = [loop EXCEPT ![c] = Idle] /\ queue' = [queue EXCEPT ![c] = q]
    BY <1>3 DEF Take
  <2> QED
    BY <1>3, <2>1 DEF Scopes
<1> QED
  BY <1>2, <1>3

(* A message handed over by an adapter gets a loop, if there is none.         *)
LEMMA InboundAttends ==
  ASSUME LineInv, HostInv, AttendInv, NEW p \in cf.peers, Inbound(p)
  PROVE  AttendInv'
<1>1. p.channel \in cf.channels /\ p.channel \in adapters /\ Scopes
  BY Zenon, ScenariosAssumption DEF Inbound, LineInv
<1>2. PICK c \in cf.channels : c = p.channel
  BY Zenon, <1>1
<1>3. host # "off" /\ UNCHANGED <<cf, host, left, running>>
  BY <1>1 DEF HostInv, Inbound
<1>4. CASE UNCHANGED <<queue, loop>>
  BY <1>3, <1>4, AttendKept DEF AttendInv, QueueAttended
<1>5. CASE ~UNCHANGED <<queue, loop>>
  <2>1. PICK m : Drain(c, Append(queue[c], m)) /\ m = [peer |-> p, n |-> used["message"] + 1]
    BY <1>2, <1>5 DEF Inbound
  <2>2. m \in Of(cf, c)
    BY <1>2, <2>1, EventsNamed DEF Of, LineInv
  <2>3. PICK q : q = Append(queue[c], m)
    BY Zenon
  <2>4. q \in Seq(Of(cf, c)) /\ q # <<>>
    <3>1. queue[c] \in Seq(Of(cf, c))
      BY Zenon DEF LineInv, InLine
    <3> QED
      BY <2>2, <2>3, <3>1, AppendProperties
  <2>5. CASE loop[c] = Idle
    <3>1. Take(c, q)
      BY <2>1, <2>3, <2>5 DEF Drain
    <3>2. ASSUME running = TRUE
          PROVE  /\ loop'[c] # Idle \/ queue'[c] = <<>>
                 /\ \A d \in cf.channels : d # c => loop'[d] = loop[d] /\ queue'[d] = queue[d]
      BY <1>1, <2>4, <3>1, <3>2, TakeAttends
    <3>3. running = TRUE => \A d \in cf.channels : Attends(d)
      BY Zenon, <3>2 DEF Attends
    <3> QED
      BY Zenon, <1>3, <3>3, AttendKept
  <2>6. CASE loop[c] # Idle
    <3>1. queue' = [queue EXCEPT ![c] = q] /\ loop' = loop
      BY <2>1, <2>3, <2>6 DEF Drain
    <3>2. \A d \in cf.channels : Attends(d)
      BY <1>1, <2>6, <3>1 DEF Attends, Scopes
    <3> QED
      BY Zenon, <1>3, <3>2, AttendKept
  <2> QED
    BY <2>5, <2>6
<1> QED
  BY <1>4, <1>5

(* A drain loop at work goes on, or has found its queue empty.                *)
LEMMA LoopAttends ==
  ASSUME LineInv, LineInv', HostInv, AttendInv, NEW c \in cf.channels, LoopStep(c)
  PROVE  AttendInv'
<1>1. loop[c] # Idle
  <2>1. loop[c].pc # "idle"
    BY Zenon DEF LoopStep, AccessCheck, AccessThrows, Refuse, Handle, Handled, Replied, Checking
  <2> QED
    BY <2>1 DEF Idle
<1>2. /\ UNCHANGED <<cf, host, left, running>> /\ host # "off" /\ Scopes /\ cf.channels = cf'.channels
      /\ queue[c] \in Seq(Of(cf, c)) /\ loop[c] \in WorkOf(cf, c)
  BY Zenon, <1>1 DEF LoopStep, AccessCheck, AccessThrows, Refuse, Handle, Handled, Replied, HostInv, LineInv, InLine, histories
<1>3. CASE AccessCheck(c)
  <2>1. PICK w : w = CheckStep(loop[c])
    BY Zenon
  <2>2. loop' = [loop EXCEPT ![c] = w] /\ queue' = queue /\ loop[c].pc \in Checking
    BY <1>3, <2>1 DEF AccessCheck
  <2>3. w \in WorkOf(cf, c)
    BY <1>2, <2>1, <2>2, CheckStepHolds DEF LineInv
  <2>4. w.pc # "idle"
    BY Zenon, <2>3 DEF WorkOf, Points
  <2>5. w # Idle
    BY <2>4 DEF Idle
  <2>6. \A d \in cf.channels : (d # c => loop'[d] = loop[d]) /\ loop'[c] = w
    BY <1>2, <2>2 DEF Scopes
  <2>7. \A d \in cf.channels : Attends(d)
    BY <2>2, <2>5, <2>6 DEF Attends
  <2> QED
    BY Zenon, <1>2, <2>7, AttendKept
<1>4. CASE Take(c, queue[c])
  <2>1. ASSUME running = TRUE
        PROVE  /\ loop'[c] # Idle \/ queue'[c] = <<>>
               /\ \A d \in cf.channels : d # c => loop'[d] = loop[d] /\ queue'[d] = queue[d]
    BY <1>2, <1>4, <2>1, TakeAttends
  <2>2. running = TRUE => \A d \in cf.channels : Attends(d)
    BY Zenon, <2>1 DEF Attends
  <2> QED
    BY Zenon, <1>2, <2>2, AttendKept
<1>5. CASE queue' = queue /\ \E x \in {"handling", "reply"} : loop' = [loop EXCEPT ![c] = [loop[c] EXCEPT !.pc = x]]
  <2>1. PICK x \in {"handling", "reply"} : loop' = [loop EXCEPT ![c] = [loop[c] EXCEPT !.pc = x]]
    BY Zenon, <1>5
  <2>2. PICK w : w = [loop[c] EXCEPT !.pc = x]
    BY ZenonT(30)
  <2>3. w.pc = x
    BY Zenon, <1>2, <2>2 DEF WorkOf
  <2>4. w # Idle
    BY <2>3 DEF Idle
  <2>5. \A d \in cf.channels : (d # c => loop'[d] = loop[d]) /\ loop'[c] = w
    BY <1>2, <2>1, <2>2 DEF Scopes
  <2>6. \A d \in cf.channels : Attends(d)
    BY <1>5, <2>4, <2>5 DEF Attends
  <2> QED
    BY Zenon, <1>2, <2>6, AttendKept
<1> QED
  BY <1>3, <1>4, <1>5 DEF LoopStep, AccessThrows, Refuse, Handle, Handled, Replied, Finish

(* start() and stop(): what a stop() leaves is all that a start() finds.      *)
LEMMA HostAttends ==
  ASSUME LineInv, HostInv, AttendInv, HostStep
  PROVE  AttendInv'
<1>1. UNCHANGED <<cf, queue, loop>>
  BY Zenon DEF HostStep, Start, AdapterStarts, AdapterFails, Stop, AdapterStops, Stopped
<1>2. CASE Start
  BY Zenon, <1>1, <1>2 DEF AttendInv, QueueAttended, Start, histories
<1>3. CASE AdapterStarts
  BY Zenon, <1>1, <1>3 DEF AttendInv, QueueAttended, AdapterStarts, histories
<1>7. CASE AdapterFails
  BY Zenon, <1>1, <1>7 DEF AttendInv, QueueAttended, AdapterFails, histories
<1>4. CASE Stop
  BY <1>1, <1>4 DEF AttendInv, QueueAttended, Stop, histories
<1>5. CASE AdapterStops
  BY <1>1, <1>5 DEF AttendInv, QueueAttended, AdapterStops, histories
<1>6. CASE Stopped
  <2>1. running # TRUE /\ running' = running /\ host = "stopping" /\ host' = "off"
    BY Zenon, <1>6 DEF AttendInv, Stopped
  <2>2. left' = UNION {Range(queue[c]) : c \in cf.channels}
    BY Zenon, <1>6 DEF Stopped
  <2>3. \A c \in cf'.channels : Range(queue'[c]) \subseteq left'
    BY Zenon, <1>1, <2>2
  <2> QED
    BY <2>1, <2>3 DEF AttendInv, QueueAttended
<1> QED
  BY <1>2, <1>3, <1>4, <1>5, <1>6, <1>7 DEF HostStep

(* Every step keeps the queues of a running gateway attended.                 *)
LEMMA AttendStep == LineInv /\ LineInv' /\ HostInv /\ AttendInv /\ [Next]_vars => AttendInv'
<1> SUFFICES ASSUME LineInv, LineInv', HostInv, AttendInv, [Next]_vars PROVE AttendInv'
  BY Zenon
<1>1. ASSUME UNCHANGED <<cf, host, running, queue, loop, left>> PROVE AttendInv'
  BY Zenon, <1>1 DEF AttendInv, QueueAttended
<1>2. CASE AccessNext
  <2>1. UNCHANGED <<cf, gatewayVars>>
    BY Zenon, <1>2 DEF AccessNext, Operator, ApproveFinds, ApproveDeletes, ApprovePairs, ApproveFails, Revoke, Tick
  <2> QED
    BY <1>1, <2>1 DEF gatewayVars
<1>3. CASE GatewayNext
  BY <1>3, InboundAttends, LoopAttends, HostAttends DEF GatewayNext
<1>4. CASE ProactiveNext
  <2>1. UNCHANGED doorVars
    BY Zenon, <1>4, ProactiveFrame DEF LineInv
  <2> QED
    BY Zenon, <1>1, <2>1 DEF doorVars, gatewayVars
<1>5. CASE UNCHANGED vars
  BY Zenon, <1>1, <1>5 DEF vars, gatewayVars
<1> QED
  BY <1>2, <1>3, <1>4, <1>5 DEF Next

(* The gateway begins off, with nothing queued.                               *)
LEMMA AttendInit == Init => AttendInv
<1> SUFFICES ASSUME Init PROVE AttendInv
  BY Zenon
<1>1. host = "off" /\ running = FALSE /\ left = {} /\ queue = [c \in cf.channels |-> <<>>]
  BY Zenon DEF Init, GatewayInit
<1>2. Range(<<>>) = {}
  BY DEF Range
<1> QED
  BY Zenon, <1>1, <1>2 DEF AttendInv, QueueAttended

(* A running gateway has a drain loop on every queue that holds a message,    *)
(* whatever adapters, stops and starts do: only what an earlier stop() left   *)
(* may wait.                                                                  *)
THEOREM AttendedSafe == Spec => []QueueAttended
<1>1. AttendInv => QueueAttended
  BY Zenon DEF AttendInv
<1> QED
  BY <1>1, DoorInit, DoorStep, AttendInit, AttendStep, PTL DEF Spec

-----------------------------------------------------------------------------
(* Who is admitted under the pairing policy.                                  *)

Vouched(ks, p) == \E k \in ks : k.peer = p /\ k.live

(* A paired peer, a peer whose message was let in and a peer whose message    *)
(* reached the handler each had a code approved while it was live.  A peer    *)
(* revoked in between stays vouched for: the operator did approve.            *)
VouchInv ==
  cf.policy = "pairing" =>
    /\ \A p \in paired : Vouched(consumed, p)
    /\ \A c \in cf.channels : loop[c].pc = "allowed" => Vouched(consumed, loop[c].msg.peer)
    /\ \A m \in admitted : Vouched(consumed, m.peer)

(* Spent codes stay spent; a peer is paired with one.                         *)
LEMMA ConsumedGrows ==
  ASSUME [Next]_vars, LineInv
  PROVE  consumed \subseteq consumed' /\ \A p \in paired' : p \in paired \/ Vouched(consumed', p)
<1>1. ASSUME UNCHANGED <<paired, consumed>>
      PROVE  consumed \subseteq consumed' /\ \A p \in paired' : p \in paired \/ Vouched(consumed', p)
  BY Zenon, <1>1
<1>2. CASE AccessNext
  <2>1. CASE ApprovePairs
    <3>1. CASE Live(approval, clock)
      <4>1. PICK k : k = [peer |-> approval.peer, code |-> approval.code, live |-> TRUE]
        BY ZenonT(30)
      <4>2. paired' = paired \union {k.peer} /\ consumed' = consumed \union {k} /\ k.live
        BY <2>1, <3>1, <4>1 DEF ApprovePairs
      <4> QED
        BY Zenon, <4>2 DEF Vouched
    <3>2. CASE ~Live(approval, clock)
      BY <1>1, <2>1, <3>2 DEF ApprovePairs
    <3> QED
      BY Zenon, <3>1, <3>2
  <2>2. CASE ~ApprovePairs
    <3>1. consumed \subseteq consumed' /\ paired' \subseteq paired
      BY Zenon, <1>2, <2>2 DEF AccessNext, Operator, ApproveFinds, ApproveDeletes, ApproveFails, Revoke, Tick
    <3> QED
      BY Zenon, <3>1
  <2> QED
    BY Zenon, <2>1, <2>2
<1>3. CASE GatewayNext
  <2>1. UNCHANGED <<paired, consumed>>
    BY ZenonT(30), <1>3 DEF GatewayNext, Inbound, LoopStep, AccessCheck, AccessThrows, CheckWrites, Refuse, Handle, Handled, Replied,
                HostStep, Start, AdapterStarts, AdapterFails, Stop, AdapterStops, Stopped, accessVars
  <2> QED
    BY SMTT(30), <1>1, <2>1
<1>4. CASE ProactiveNext
  BY <1>1, <1>4, ProactiveFrame DEF LineInv, doorVars, accessVars
<1>5. CASE UNCHANGED vars
  BY Zenon, <1>1, <1>5 DEF vars, accessVars
<1> QED
  BY <1>2, <1>3, <1>4, <1>5 DEF Next

(* Only a message that was let in reaches the handler.                        *)
LEMMA AdmittedGrows ==
  ASSUME [Next]_vars, LineInv
  PROVE  \A m \in admitted' : m \in admitted \/ \E c \in cf.channels : loop[c].pc = "allowed" /\ m = loop[c].msg
<1>1. CASE AccessNext
  BY Zenon, <1>1 DEF AccessNext, gatewayVars
<1>2. CASE \E c \in cf.channels : Handle(c)
  BY Zenon, <1>2 DEF Handle
<1>3. CASE GatewayNext /\ ~\E c \in cf.channels : Handle(c)
  BY ZenonT(30), <1>3 DEF GatewayNext, Inbound, LoopStep, AccessCheck, AccessThrows, Refuse, Handled, Replied,
              HostStep, Start, AdapterStarts, AdapterFails, Stop, AdapterStops, Stopped, histories
<1>4. CASE ProactiveNext
  BY <1>4, ProactiveFrame DEF LineInv, doorVars, gatewayVars
<1>5. CASE UNCHANGED vars
  BY Zenon, <1>5 DEF vars, gatewayVars
<1> QED
  BY <1>1, <1>2, <1>3, <1>4, <1>5 DEF Next

(* A check lets in, under the pairing policy, a peer that is paired.          *)
LEMMA LetIn ==
  ASSUME NEW c, NEW w \in WorkOf(cf, c), w.pc \in Checking, CheckStep(w).pc = "allowed"
  PROVE  w.msg.peer \in paired /\ CheckStep(w).msg = w.msg
<1>1. w.pc \in {"isPaired", "find", "prune", "count", "issue"}
  BY Zenon DEF Checking
<1>2. CASE w.pc = "isPaired"
  BY Zenon, <1>2 DEF CheckStep, IsPaired, WorkOf
<1>3. CASE w.pc = "find"
  <2>1. PICK p \in {"refused", "prune"} : FindRequest(w) = [w EXCEPT !.at = clock, !.pc = p]
    BY Zenon DEF FindRequest
  <2>2. CheckStep(w) = [w EXCEPT !.at = clock, !.pc = p]
    BY <1>3, <2>1 DEF CheckStep
  <2>3. CheckStep(w).pc = p
    BY Zenon, <2>2 DEF WorkOf
  <2> QED
    BY <2>1, <2>3
<1>4. CASE w.pc = "prune"
  BY Zenon, <1>4 DEF CheckStep, WorkOf
<1>5. CASE w.pc = "count"
  BY Zenon, <1>5 DEF CheckStep, CountPending, WorkOf
<1>6. CASE w.pc = "issue"
  BY ZenonT(30), <1>6 DEF CheckStep, IssueCode, WorkOf
<1> QED
  BY <1>1, <1>2, <1>3, <1>4, <1>5, <1>6

(* Every step keeps everyone who is let in vouched for.                       *)
LEMMA VouchStep == LineInv /\ VouchInv /\ [Next]_vars => VouchInv'
<1> SUFFICES ASSUME LineInv, VouchInv, [Next]_vars, cf'.policy = "pairing"
             PROVE  /\ \A p \in paired' : Vouched(consumed', p)
                    /\ \A c \in cf'.channels : loop'[c].pc = "allowed" => Vouched(consumed', loop'[c].msg.peer)
                    /\ \A m \in admitted' : Vouched(consumed', m.peer)
  BY Zenon DEF VouchInv
<1>1. cf' = cf /\ \A d \in cf.channels : LoopGoes(d)
  BY Zenon, LoopsGo
<1>2. /\ \A p \in paired : Vouched(consumed, p)
      /\ \A c \in cf.channels : loop[c].pc = "allowed" => Vouched(consumed, loop[c].msg.peer)
      /\ \A m \in admitted : Vouched(consumed, m.peer)
  BY Zenon, <1>1 DEF VouchInv
<1>3. \A p : Vouched(consumed, p) => Vouched(consumed', p)
  BY Zenon, ConsumedGrows DEF Vouched
<1>4. \A p \in paired' : Vouched(consumed', p)
  BY <1>2, <1>3, ConsumedGrows
<1>5. ASSUME NEW c \in cf.channels, loop'[c].pc = "allowed"
      PROVE  Vouched(consumed', loop'[c].msg.peer)
  <2>1. CASE loop'[c] = loop[c]
    BY <1>2, <1>3, <1>5, <2>1
  <2>2. CASE AccessCheck(c) /\ loop'[c] = CheckStep(loop[c])
    <3>1. loop[c].pc \in Checking
      BY Zenon, <2>2 DEF AccessCheck
    <3>2. loop[c] # Idle
      BY <3>1 DEF Checking, Idle
    <3>3. PICK w \in WorkOf(cf, c) : w = loop[c]
      BY Zenon, <3>2 DEF LineInv, InLine
    <3>4. CheckStep(w).pc = "allowed" /\ w.pc \in Checking
      BY <1>5, <2>2, <3>1, <3>3
    <3>5. w.msg.peer \in paired /\ CheckStep(w).msg = w.msg
      BY <3>4, LetIn
    <3> QED
      BY <1>2, <1>3, <2>2, <3>3, <3>5
  <2>3. loop'[c] # Idle
    BY <1>5 DEF Idle
  <2>4. \A m : CheckBegins(m).pc = "isPaired"
    BY Zenon, <1>1 DEF CheckBegins
  <2>5. ASSUME loop[c].pc \in {"allowed", "handling"}, NEW x \in {"handling", "reply"},
               loop'[c] = [loop[c] EXCEPT !.pc = x]
        PROVE  FALSE
    <3>1. loop[c] # Idle
      BY <2>5 DEF Idle
    <3>2. loop[c] \in WorkOf(cf, c)
      BY ZenonT(30), <3>1 DEF LineInv, InLine
    <3> QED
      BY <1>5, <2>5, <3>2 DEF WorkOf
  <2> QED
    BY SMTT(30), <1>1, <1>5, <2>1, <2>2, <2>3, <2>4, <2>5 DEF LoopGoes
<1>6. \A m \in admitted' : Vouched(consumed', m.peer)
  BY <1>2, <1>3, AdmittedGrows
<1> QED
  BY <1>1, <1>4, <1>5, <1>6

(* Nobody is let in at first.                                                 *)
LEMMA VouchInit == Init => VouchInv
<1> SUFFICES ASSUME Init PROVE VouchInv
  OBVIOUS
<1>1. paired = {} /\ admitted = {} /\ loop = [c \in cf.channels |-> Idle]
  BY Zenon DEF Init, AccessInit, GatewayInit
<1>2. Idle.pc # "allowed"
  BY Zenon DEF Idle
<1> QED
  BY <1>1, <1>2 DEF VouchInv

(* Under the pairing policy a message reaches the handler only when the       *)
(* operator approved a code of its peer before the code expired, whatever     *)
(* checks, approvals and revocations overlap.                                 *)
THEOREM AdmittedSafe == Spec => []AdmittedByOperator
<1>1. VouchInv => AdmittedByOperator
  BY Zenon DEF VouchInv, AdmittedByOperator, Vouched
<1> QED
  BY <1>1, DoorInit, DoorStep, VouchInit, VouchStep, PTL DEF Spec

-----------------------------------------------------------------------------
(* The codes on their way to a peer.                                          *)

Requests == [peer : cf.peers, code : Nat, expires : Nat]
Approvals == [pc : {"delete", "pair"}, peer : cf.peers, code : Nat, expires : Nat]

(* A code delivered, or held by the drain loop that is about to deliver it.   *)
Tokens ==
  rendered \union {Challenge(loop[c]) : c \in {d \in cf.channels : loop[d] # Idle /\ loop[d].code # 0}}

(* An approval that has deleted its request; before that the store has it.    *)
Took(ap) == ap # Idle /\ ap.pc = "pair"

(* Where code n is: in the store rs, with the operator ap, or taken in ks.    *)
Kept(n, rs, ap, ks) ==
  \/ \E r \in rs : r.code = n
  \/ Took(ap) /\ ap.code = n
  \/ \E s \in ks : s.code = n

(* Token k: whoever holds its code holds its expiry, and until then somebody  *)
(* does.                                                                      *)
TokenGood(k, rs, ap, ks, now) ==
  /\ \A r \in rs : r.code = k.code => r.expires = k.expires
  /\ ap # Idle /\ ap.code = k.code => ap.expires = k.expires
  /\ Live(k, now) => Kept(k.code, rs, ap, ks)

(* A loop with a code is about to refuse; one that looked for a pending code  *)
(* of its peer found none that was live, and none has come since.             *)
LoopHonest(w, rs, now) ==
  w # Idle => /\ w.code # 0 => w.pc = "refused"
              /\ w.at <= now
              /\ w.pc \in {"prune", "count", "issue"} =>
                   \A r \in rs : r.peer = w.msg.peer => ~Live(r, w.at)

CodeInv ==
  /\ \A r \in requests : r \in Requests /\ r.code <= issued
  /\ approval # Idle => approval \in Approvals /\ approval.code <= issued
  /\ \A k \in Tokens : /\ k.code \in Nat /\ k.code <= issued /\ k.expires \in Nat
                       /\ TokenGood(k, requests, approval, consumed, clock)
  /\ \A c \in cf.channels : LoopHonest(loop[c], requests, clock)

(* Codes that disappear from the store and from the operator's hands without  *)
(* being spent have expired; then every token stays good.                     *)
LEMMA TokenStays ==
  ASSUME NEW k, k.expires \in Nat, NEW rs, NEW ss, NEW ap, NEW bp, NEW ks, NEW ls,
         NEW t \in Nat, NEW u \in Nat, t <= u, TokenGood(k, rs, ap, ks, t),
         \A r \in ss : r \in rs,
         bp # Idle => \/ ap # Idle /\ bp.code = ap.code /\ bp.expires = ap.expires
                      \/ \E r \in rs : bp.code = r.code /\ bp.expires = r.expires,
         \A r \in rs : r \in ss \/ ~Live(r, u) \/ (Took(bp) /\ bp.code = r.code),
         Took(ap) => (Took(bp) /\ bp.code = ap.code) \/ ~Live(ap, u) \/ \E s \in ls : s.code = ap.code,
         ks \subseteq ls
  PROVE  TokenGood(k, ss, bp, ls, u)
<1>1. \A r \in ss : r.code = k.code => r.expires = k.expires
  BY Zenon DEF TokenGood
<1>2. bp # Idle /\ bp.code = k.code => bp.expires = k.expires
  BY Zenon DEF TokenGood
<1>3. ASSUME Live(k, u) PROVE Kept(k.code, ss, bp, ls)
  <2>1. Live(k, t)
    BY <1>3 DEF Live
  <2>2. Kept(k.code, rs, ap, ks)
    BY Zenon, <2>1 DEF TokenGood
  <2>3. ASSUME NEW r \in rs, r.code = k.code PROVE Kept(k.code, ss, bp, ls)
    <3>1. Live(r, u)
      BY <1>3, <2>3 DEF TokenGood, Live
    <3> QED
      BY <2>3, <3>1 DEF Kept
  <2>4. ASSUME Took(ap), ap.code = k.code PROVE Kept(k.code, ss, bp, ls)
    <3>1. Live(ap, u)
      BY Zenon, <1>3, <2>4 DEF TokenGood, Live, Took
    <3> QED
      BY Zenon, <2>4, <3>1 DEF Kept
  <2>5. ASSUME NEW s \in ks, s.code = k.code PROVE Kept(k.code, ss, bp, ls)
    BY Zenon, <2>5 DEF Kept
  <2> QED
    BY <2>2, <2>3, <2>4, <2>5 DEF Kept
<1> QED
  BY <1>1, <1>2, <1>3 DEF TokenGood

(* The store after a step that inserts nothing, and loops that stay honest.   *)
LEMMA HonestStays ==
  ASSUME NEW w, NEW rs, NEW ss, NEW t \in Nat, NEW u \in Nat, t <= u, w # Idle => w.at \in Nat,
         LoopHonest(w, rs, t), \A r \in ss : r \in rs
  PROVE  LoopHonest(w, ss, u)
BY DEF LoopHonest

(* A step that issues no code: codes that go have expired or are spent.       *)
LEMMA CodesStay ==
  ASSUME LineInv, CodeInv, cf' = cf, issued' = issued, clock' \in Nat, clock <= clock',
         \A r \in requests' : r \in requests,
         approval' # Idle => approval' \in Approvals /\
           (\/ approval # Idle /\ approval'.code = approval.code /\ approval'.expires = approval.expires
            \/ \E r \in requests : approval'.code = r.code /\ approval'.expires = r.expires),
         \A r \in requests : \/ r \in requests' \/ ~Live(r, clock')
                             \/ Took(approval') /\ approval'.code = r.code,
         Took(approval) => \/ Took(approval') /\ approval'.code = approval.code
                           \/ ~Live(approval, clock') \/ \E s \in consumed' : s.code = approval.code,
         consumed \subseteq consumed',
         \A k \in Tokens' : k \in Tokens,
         \A c \in cf.channels : LoopHonest(loop'[c], requests', clock')
  PROVE  CodeInv'
<1>1. clock \in Nat
  BY Zenon DEF LineInv
<1>2. \A r \in requests' : r \in Requests /\ r.code <= issued
  BY Zenon DEF CodeInv
<1>3. approval' # Idle => approval' \in Approvals /\ approval'.code <= issued
  BY Zenon DEF CodeInv
<1>4. ASSUME NEW k \in Tokens'
      PROVE  /\ k.code \in Nat /\ k.code <= issued /\ k.expires \in Nat
             /\ TokenGood(k, requests', approval', consumed', clock')
  <2>1. /\ k.code \in Nat /\ k.code <= issued /\ k.expires \in Nat
        /\ TokenGood(k, requests, approval, consumed, clock)
    BY SMTT(30), <1>4 DEF CodeInv
  <2>2. TokenGood(k, requests', approval', consumed', clock')
    BY SMTT(30), <1>1, <2>1, TokenStays
  <2> QED
    BY SMTT(30), <2>1, <2>2
<1>5. Requests' = Requests /\ Approvals' = Approvals
  BY Zenon DEF Requests, Approvals
<1> QED
  BY <1>2, <1>3, <1>4, <1>5 DEF CodeInv

(* The tokens are where the loops and the rendered codes leave them.          *)
LEMMA TokensStay ==
  ASSUME UNCHANGED <<cf, loop, rendered>>
  PROVE  \A k \in Tokens' : k \in Tokens
BY Zenon DEF Tokens, Challenge

(* The operator and the clock: a code under approval is in the store until it *)
(* is in the operator's hands, and then taken or expired.                     *)
LEMMA OperatorCodes ==
  ASSUME LineInv, LineInv', CodeInv, AccessNext
  PROVE  CodeInv'
<1>1. /\ UNCHANGED <<cf, issued, loop, rendered>> /\ clock \in Nat /\ clock' \in Nat
      /\ clock' = clock \/ clock' = clock + 1
  BY Zenon DEF AccessNext, Operator, ApproveFinds, ApproveDeletes, ApprovePairs, ApproveFails, Revoke, Tick, gatewayVars, LineInv
<1>2. clock <= clock' /\ \A k \in Tokens' : k \in Tokens
  BY <1>1, TokensStay
<1>3. \A r \in requests' : r \in requests
  BY Zenon DEF AccessNext, Operator, ApproveFinds, ApproveDeletes, ApprovePairs, ApproveFails, Revoke, Tick
<1>4. ASSUME NEW c \in cf.channels PROVE LoopHonest(loop'[c], requests', clock')
  <2>1. LoopHonest(loop[c], requests, clock)
    BY Zenon DEF CodeInv
  <2>2. loop[c] # Idle => loop[c].at \in Nat
    BY ZenonT(30) DEF LineInv, InLine, WorkOf
  <2>3. LoopHonest(loop[c], requests', clock')
    BY <1>1, <1>2, <1>3, <2>1, <2>2, HonestStays
  <2> QED
    BY <1>1, <2>3
<1>5. consumed \subseteq consumed'
  BY Zenon DEF AccessNext, Operator, ApproveFinds, ApproveDeletes, ApprovePairs, ApproveFails, Revoke, Tick
<1>6. CASE ApproveFinds
  <2>1. PICK r \in requests :
          approval' = [pc |-> "delete", peer |-> r.peer, code |-> r.code, expires |-> r.expires]
    BY Zenon, <1>6 DEF ApproveFinds
  <2>2. approval = Idle /\ requests' = requests
    BY Zenon, <1>6 DEF ApproveFinds
  <2>3. r \in Requests
    BY Zenon DEF CodeInv
  <2>4. approval' \in Approvals /\ approval'.code = r.code /\ approval'.expires = r.expires
    BY <2>1, <2>3 DEF Requests, Approvals
  <2>5. ~Took(approval)
    BY Zenon, <2>2 DEF Took
  <2> QED
    BY <1>1, <1>2, <1>3, <1>4, <1>5, <2>2, <2>4, <2>5, CodesStay
<1>7. CASE ApproveDeletes
  <2>1. approval # Idle
    <3>1. approval.pc = "delete"
      BY Zenon, <1>7 DEF ApproveDeletes
    <3> QED
      BY <3>1 DEF Idle
  <2>2. approval \in Approvals
    BY Zenon, <2>1 DEF CodeInv
  <2>3. approval' = [approval EXCEPT !.pc = "pair"] /\ requests' = {r \in requests : r.code # approval.code}
    BY Zenon, <1>7 DEF ApproveDeletes
  <2>4. /\ approval' \in Approvals /\ approval'.pc = "pair"
        /\ approval'.code = approval.code /\ approval'.expires = approval.expires
    BY Zenon, <2>2, <2>3 DEF Approvals
  <2>5. approval' # Idle
    BY <2>4 DEF Idle
  <2>6. \A r \in requests : r \in requests' \/ approval'.code = r.code
    BY <2>3, <2>4
  <2>7. approval.pc = "delete"
    BY Zenon, <1>7 DEF ApproveDeletes
  <2>8. Took(approval') /\ ~Took(approval)
    BY <2>4, <2>5, <2>7 DEF Took
  <2> QED
    BY <1>1, <1>2, <1>3, <1>4, <1>5, <2>1, <2>4, <2>6, <2>8, CodesStay
<1>8. CASE ApprovePairs
  <2>1. approval' = Idle /\ requests' = requests /\ clock' = clock
    BY Zenon, <1>8 DEF ApprovePairs
  <2>2. ~Live(approval, clock') \/ \E s \in consumed' : s.code = approval.code
    <3>1. CASE Live(approval, clock)
      <4>1. PICK s : s = [peer |-> approval.peer, code |-> approval.code, live |-> TRUE]
        BY ZenonT(30)
      <4>2. s \in consumed' /\ s.code = approval.code
        BY <1>8, <3>1, <4>1 DEF ApprovePairs
      <4> QED
        BY Zenon, <4>2
    <3>2. CASE ~Live(approval, clock)
      BY Zenon, <2>1, <3>2
    <3> QED
      BY <3>1, <3>2
  <2> QED
    BY <1>1, <1>2, <1>3, <1>4, <1>5, <2>1, <2>2, CodesStay
<1>10. CASE ApproveFails
  <2>1. approval' = Idle /\ requests' = requests
    BY Zenon, <1>10 DEF ApproveFails
  <2>2. ASSUME Took(approval) PROVE \E s \in consumed' : s.code = approval.code
    <3>1. PICK s : s = [peer |-> approval.peer, code |-> approval.code, live |-> FALSE]
      BY ZenonT(30)
    <3>2. approval.pc # "delete"
      BY <2>2 DEF Took
    <3>3. s \in consumed' /\ s.code = approval.code
      BY Zenon, <1>10, <3>1, <3>2 DEF ApproveFails
    <3> QED
      BY Zenon, <3>3
  <2> QED
    BY <1>1, <1>2, <1>3, <1>4, <1>5, <2>1, <2>2, CodesStay
<1>9. CASE ~(ApproveFinds \/ ApproveDeletes \/ ApprovePairs \/ ApproveFails)
  <2>1. approval' = approval /\ requests' = requests
    BY Zenon, <1>9 DEF AccessNext, Operator, Revoke, Tick
  <2>2. approval # Idle => approval \in Approvals
    BY Zenon DEF CodeInv
  <2> QED
    BY <1>1, <1>2, <1>3, <1>4, <1>5, <2>1, <2>2, CodesStay
<1> QED
  BY <1>6, <1>7, <1>8, <1>9, <1>10

(* The steps of a check before it inserts a code keep its loop honest.        *)
LEMMA CheckHonest ==
  ASSUME NEW c, NEW w \in WorkOf(cf, c), w.pc \in {"isPaired", "find", "prune", "count"}, clock \in Nat,
         LoopHonest(w, requests, clock), w # Idle
  PROVE  CheckStep(w).code = 0 /\ LoopHonest(CheckStep(w), requests, clock)
<1>1. w.code = 0 /\ w.at \in Nat /\ w.at <= clock
  BY Zenon DEF LoopHonest, WorkOf
<1>2. CASE w.pc = "isPaired"
  <2>1. PICK p \in {"allowed", "find"} : CheckStep(w) = [w EXCEPT !.pc = p]
    BY Zenon, <1>2 DEF CheckStep, IsPaired
  <2>2. CheckStep(w).pc = p /\ CheckStep(w).code = 0 /\ CheckStep(w).at = w.at
    BY <1>1, <2>1 DEF WorkOf
  <2> QED
    BY <1>1, <2>1, <2>2 DEF LoopHonest
<1>3. CASE w.pc = "find"
  <2>1. PICK p : p = IF \E r \in Pending(w.msg.peer.channel, clock) : r.peer = w.msg.peer
                     THEN "refused" ELSE "prune"
    BY Zenon
  <2>2. CheckStep(w) = [w EXCEPT !.at = clock, !.pc = p]
    BY <1>3, <2>1 DEF CheckStep, FindRequest
  <2>3. CheckStep(w).pc = p /\ CheckStep(w).code = 0 /\ CheckStep(w).at = clock /\ CheckStep(w).msg = w.msg
    BY <1>1, <2>2 DEF WorkOf
  <2>4. p = "prune" => \A r \in requests : r.peer = w.msg.peer => ~Live(r, clock)
    BY <2>1 DEF Pending
  <2>5. p \in {"refused", "prune"}
    BY Zenon, <2>1
  <2> QED
    BY <2>3, <2>4, <2>5 DEF LoopHonest
<1>4. CASE w.pc = "prune"
  <2>1. CheckStep(w) = [w EXCEPT !.pc = "count"]
    BY Zenon, <1>4 DEF CheckStep
  <2>2. CheckStep(w).pc = "count" /\ CheckStep(w).code = 0 /\ CheckStep(w).at = w.at /\ CheckStep(w).msg = w.msg
    BY <1>1, <2>1 DEF WorkOf
  <2> QED
    BY <1>1, <1>4, <2>2 DEF LoopHonest
<1>5. CASE w.pc = "count"
  <2>1. PICK p \in {"refused", "issue"} : CheckStep(w) = [w EXCEPT !.pc = p]
    BY Zenon, <1>5 DEF CheckStep, CountPending
  <2>2. CheckStep(w).pc = p /\ CheckStep(w).code = 0 /\ CheckStep(w).at = w.at /\ CheckStep(w).msg = w.msg
    BY SMTT(30), <1>1, <2>1 DEF WorkOf
  <2> QED
    BY <1>1, <1>5, <2>2 DEF LoopHonest
<1> QED
  BY <1>2, <1>3, <1>4, <1>5

(* Nothing spoils a token while the operator and the clock stand still and    *)
(* what leaves the store has expired.                                         *)
LEMMA CodesQuiet ==
  ASSUME LineInv, CodeInv, UNCHANGED <<cf, clock, issued, approval, consumed>>,
         \A r \in requests' : r \in requests,
         \A r \in requests : r \in requests' \/ ~Live(r, clock'),
         \A k \in Tokens' : k \in Tokens,
         \A c \in cf.channels : LoopHonest(loop'[c], requests', clock')
  PROVE  CodeInv'
<1>1. clock \in Nat /\ clock' = clock
  BY Zenon DEF LineInv
<1>2. clock' \in Nat /\ clock <= clock' /\ consumed \subseteq consumed' /\ cf' = cf /\ issued' = issued
  BY SMTT(30), <1>1
<1>3. approval' # Idle => approval' \in Approvals /\
        (\/ approval # Idle /\ approval'.code = approval.code /\ approval'.expires = approval.expires
         \/ \E r \in requests : approval'.code = r.code /\ approval'.expires = r.expires)
  BY Zenon DEF CodeInv
<1>4. \A r \in requests : \/ r \in requests' \/ ~Live(r, clock')
                          \/ Took(approval') /\ approval'.code = r.code
  BY Zenon
<1>5. Took(approval) => \/ Took(approval') /\ approval'.code = approval.code
                        \/ ~Live(approval, clock') \/ \E s \in consumed' : s.code = approval.code
  BY Zenon
<1> QED
  BY SMTT(30), <1>2, <1>3, <1>4, <1>5, CodesStay

(* A check that has not come to its insertion only prunes what has expired.   *)
LEMMA CheckCodes ==
  ASSUME LineInv, LineInv', CodeInv, NEW c \in cf.channels, AccessCheck(c), loop[c].pc # "issue"
  PROVE  CodeInv'
<1>1. /\ loop[c].pc \in {"isPaired", "find", "prune", "count"} /\ CheckWrites(loop[c])
      /\ loop' = [loop EXCEPT ![c] = CheckStep(loop[c])] /\ UNCHANGED <<cf, clock, rendered>>
  BY Zenon DEF AccessCheck, Checking, histories
<1>2. loop[c] # Idle
  BY <1>1 DEF Idle
<1>3. PICK w \in WorkOf(cf, c) : w = loop[c]
  BY ZenonT(30), <1>2 DEF LineInv, InLine
<1>4. PICK v : v = CheckStep(w)
  BY Zenon
<1>5. clock \in Nat /\ DOMAIN loop = cf.channels /\ LoopHonest(w, requests, clock)
  BY Zenon, <1>3 DEF LineInv, Scopes, CodeInv
<1>6. v.code = 0 /\ LoopHonest(v, requests, clock)
  BY <1>1, <1>2, <1>3, <1>4, <1>5, CheckHonest
<1>7. loop'[c] = v /\ \A d \in cf.channels : d # c => loop'[d] = loop[d]
  BY <1>1, <1>3, <1>4, <1>5
<1>8. UNCHANGED <<issued, approval, consumed>>
  BY Zenon, <1>1 DEF CheckWrites
<1>9. requests' = requests \/ requests' = PruneRequests(w.at)
  BY <1>1, <1>3 DEF CheckWrites
<1>10. w.at \in Nat /\ w.at <= clock
  BY <1>2, <1>3, <1>5 DEF LoopHonest, WorkOf
<1>11. \A r \in requests' : r \in requests
  BY Zenon, <1>9 DEF PruneRequests
<1>12. \A r \in requests : r \in requests' \/ ~Live(r, clock')
  <2>1. \A r \in requests : r.expires \in Nat
    BY Zenon DEF CodeInv, Requests
  <2> QED
    BY <1>1, <1>5, <1>9, <1>10, <2>1 DEF PruneRequests, Live
<1>13. ASSUME NEW d \in cf.channels PROVE LoopHonest(loop'[d], requests', clock')
  <2>1. PICK x : x = loop'[d]
    BY Zenon
  <2>2. LoopHonest(x, requests, clock)
    BY SMTT(30), <1>6, <1>7, <2>1 DEF CodeInv
  <2>3. x # Idle => x.at \in Nat
    BY ZenonT(30), <1>1, <2>1 DEF LineInv, InLine, WorkOf
  <2>4. LoopHonest(x, requests', clock)
    BY <1>5, <1>11, <2>2, <2>3, HonestStays
  <2> QED
    BY <1>1, <2>1, <2>4
<1>14. \A k \in Tokens' : k \in Tokens
  BY <1>1, <1>6, <1>7 DEF Tokens, Challenge
<1> QED
  BY <1>1, <1>8, <1>11, <1>12, <1>13, <1>14, CodesQuiet

(* A new request, of a code above all others, spoils no token.                *)
LEMMA TokenBeside ==
  ASSUME NEW k, NEW n \in Nat, k.code \in Nat, k.code <= n, NEW x, x.code = n + 1,
         NEW rs, NEW ap, NEW ks, NEW t, TokenGood(k, rs, ap, ks, t)
  PROVE  TokenGood(k, rs \union {x}, ap, ks, t)
BY SMTT(30) DEF TokenGood, Kept

(* A check inserts its code: the requests of its peer that it replaces have   *)
(* expired, the code is new, and the loop holds what the store holds.         *)
LEMMA IssueCodes ==
  ASSUME LineInv, LineInv', CodeInv, NEW c \in cf.channels, AccessCheck(c), loop[c].pc = "issue"
  PROVE  CodeInv'
<1>1. /\ CheckWrites(loop[c]) /\ UNCHANGED <<cf, clock, rendered>>
      /\ loop' = [loop EXCEPT ![c] = CheckStep(loop[c])]
  BY Zenon DEF AccessCheck, histories
<1>2. loop[c] # Idle
  BY DEF Idle
<1>3. PICK w \in WorkOf(cf, c) : w = loop[c]
  BY ZenonT(30), <1>2 DEF LineInv, InLine
<1>4. /\ w.pc = "issue" /\ w.at \in Nat /\ w.at <= clock /\ w.msg.peer \in cf.peers /\ w.msg.peer.channel = c
      /\ \A r \in requests : r.peer = w.msg.peer => ~Live(r, w.at)
  BY <1>2, <1>3 DEF CodeInv, LoopHonest, WorkOf, Of
<1>5. /\ clock \in Nat /\ issued \in Nat /\ cf.ttl \in Nat /\ DOMAIN loop = cf.channels
  BY ZenonT(30), ScenariosAssumption DEF LineInv, Scopes
<1>6. PICK x : x = [peer |-> w.msg.peer, code |-> issued + 1, expires |-> w.at + cf.ttl]
  BY Zenon
<1>7. PICK rs : rs = {r \in requests : r.peer # w.msg.peer}
  BY ZenonT(30)
<1>8. /\ requests' = rs \union {x} /\ issued' = issued + 1 /\ UNCHANGED <<approval, consumed>>
  BY <1>1, <1>3, <1>4, <1>6, <1>7 DEF CheckWrites, UpsertRequest
<1>9. x \in Requests /\ x.code = issued + 1 /\ x.expires = w.at + cf.ttl /\ x.peer.channel = c
  BY <1>4, <1>5, <1>6 DEF Requests
<1>10. PICK v : v = [w EXCEPT !.pc = "refused", !.code = issued + 1]
  BY Zenon
<1>11. v.pc = "refused" /\ v.code = issued + 1 /\ v.at = w.at
  BY <1>10 DEF WorkOf
<1>12. loop'[c] = v /\ \A d \in cf.channels : d # c => loop'[d] = loop[d]
  <2>1. CheckStep(w) = v
    BY <1>4, <1>10 DEF CheckStep, IssueCode
  <2> QED
    BY <1>1, <1>3, <1>5, <2>1
<1>13. \A r \in requests' : r \in Requests' /\ r.code <= issued'
  <2>1. \A r \in requests : r \in Requests /\ r.code <= issued /\ r.code \in Nat
    BY Zenon DEF CodeInv, Requests
  <2>2. Requests' = Requests
    BY <1>1 DEF Requests
  <2>3. \A r \in rs : r \in requests
    BY Zenon, <1>7
  <2> QED
    BY <1>5, <1>8, <1>9, <2>1, <2>2, <2>3
<1>14. approval' # Idle => approval' \in Approvals' /\ approval'.code <= issued'
  <2>1. approval # Idle => approval \in Approvals /\ approval.code <= issued /\ approval.code \in Nat
    BY DEF CodeInv, Approvals
  <2>2. Approvals' = Approvals
    BY SMTT(30), <1>1 DEF Approvals
  <2> QED
    BY SMTT(30), <1>5, <1>8, <2>1, <2>2
<1>15. ASSUME NEW k \in Tokens
       PROVE  /\ k.code \in Nat /\ k.code <= issued' /\ k.expires \in Nat
              /\ TokenGood(k, requests', approval', consumed', clock')
  <2>1. /\ k.code \in Nat /\ k.code <= issued /\ k.expires \in Nat
        /\ TokenGood(k, requests, approval, consumed, clock)
    BY Zenon DEF CodeInv
  <2>2. \A r \in requests : r \in rs \/ ~Live(r, clock)
    <3>1. \A r \in requests : r.expires \in Nat
      BY Zenon DEF CodeInv, Requests
    <3> QED
      BY <1>4, <1>5, <1>7, <3>1 DEF Live
  <2>3. \A r \in rs : r \in requests
    BY SMTT(30), <1>7
  <2>4. TokenGood(k, rs, approval, consumed, clock)
    BY <1>5, <2>1, <2>2, <2>3, TokenStays
  <2>5. TokenGood(k, rs \union {x}, approval, consumed, clock)
    BY <1>5, <1>9, <2>1, <2>4, TokenBeside
  <2>6. k.code <= issued'
    BY SMTT(30), <1>5, <1>8, <2>1
  <2> QED
    BY <1>1, <1>8, <2>1, <2>5, <2>6
<1>16. PICK n : n = [code |-> issued + 1, expires |-> w.at + cf.ttl]
  BY ZenonT(30)
<1>17. /\ n.code \in Nat /\ n.code <= issued' /\ n.expires \in Nat
       /\ TokenGood(n, requests', approval', consumed', clock')
  <2>1. n.code = issued + 1 /\ n.expires = w.at + cf.ttl
    BY Zenon, <1>16
  <2>2. \A r \in rs : r.code # n.code
    <3>1. \A r \in rs : r.code \in Nat /\ r.code <= issued
      BY Zenon, <1>7 DEF CodeInv, Requests
    <3> QED
      BY SMTT(30), <1>5, <2>1, <3>1
  <2>3. approval # Idle => approval.code # n.code
    BY <1>5, <2>1 DEF CodeInv, Approvals
  <2>4. TokenGood(n, requests', approval', consumed', clock')
    BY Zenon, <1>8, <1>9, <2>1, <2>2, <2>3 DEF TokenGood, Kept
  <2>5. n.code \in Nat /\ n.code <= issued'
    BY SMTT(30), <1>5, <1>8, <2>1
  <2>6. n.expires \in Nat
    BY SMTT(30), <1>4, <1>5, <2>1
  <2> QED
    BY <2>4, <2>5, <2>6
<1>18. \A k \in Tokens' : k \in Tokens \/ k = n
  BY SMTT(30), <1>1, <1>11, <1>12, <1>16 DEF Tokens, Challenge
<1>19. ASSUME NEW d \in cf.channels PROVE LoopHonest(loop'[d], requests', clock')
  <2>1. CASE d = c
    BY ZenonT(30), <1>1, <1>4, <1>11, <1>12, <2>1 DEF LoopHonest
  <2>2. CASE d # c
    <3>1. PICK y : y = loop[d]
      BY Zenon
    <3>2. LoopHonest(y, requests, clock) /\ (y # Idle => y.at \in Nat /\ y.msg.peer.channel = d)
      BY ZenonT(30), <3>1 DEF CodeInv, LineInv, InLine, WorkOf, Of
    <3>3. \A r \in rs : r \in requests
      BY <1>7
    <3>4. LoopHonest(y, rs, clock)
      BY SMTT(30), <1>5, <3>2, <3>3, HonestStays
    <3>5. y # Idle => x.peer # y.msg.peer
      BY ZenonT(30), <1>9, <2>2, <3>2
    <3>6. LoopHonest(y, rs \union {x}, clock)
      BY SMTT(30), <3>4, <3>5 DEF LoopHonest
    <3> QED
      BY <1>1, <1>8, <1>12, <2>2, <3>1, <3>6
  <2> QED
    BY SMTT(30), <2>1, <2>2
<1> QED
  BY ZenonT(30), <1>1, <1>13, <1>14, <1>15, <1>17, <1>18, <1>19 DEF CodeInv

(* A step that leaves the store and the clock alone: a loop loses its code    *)
(* only by handing it over or dropping it.                                    *)
LEMMA QuietCodes ==
  ASSUME LineInv, LineInv', CodeInv, [Next]_vars, UNCHANGED <<clock, accessVars>>,
         \A d \in cf.channels : ~AccessCheck(d),
         \A k \in rendered' : k \in Tokens
  PROVE  CodeInv'
<1>1. UNCHANGED <<clock, requests, issued, approval, consumed>> /\ clock \in Nat
  BY Zenon DEF accessVars, LineInv
<1>2. cf' = cf /\ \A d \in cf.channels : LoopGoes(d)
  BY LoopsGo
<1>3. ASSUME NEW d \in cf.channels
      PROVE  /\ LoopHonest(loop'[d], requests, clock)
             /\ loop'[d] # Idle /\ loop'[d].code # 0 => loop'[d] = loop[d]
  <2>1. LoopHonest(loop[d], requests, clock)
    BY Zenon DEF CodeInv
  <2>2. CASE loop'[d] = loop[d] \/ loop'[d] = Idle
    BY <2>1, <2>2 DEF LoopHonest
  <2>3. ASSUME NEW m, loop'[d] = CheckBegins(m)
        PROVE  /\ LoopHonest(loop'[d], requests, clock)
               /\ loop'[d] # Idle /\ loop'[d].code # 0 => loop'[d] = loop[d]
    <3>1. CheckBegins(m).code = 0 /\ CheckBegins(m).at = 0 /\ CheckBegins(m).pc \notin {"prune", "count", "issue"}
      BY Zenon DEF CheckBegins
    <3> QED
      BY <1>1, <2>3, <3>1 DEF LoopHonest
  <2>4. ASSUME loop[d].pc \in {"allowed", "handling"}, NEW x \in {"handling", "reply"},
               loop'[d] = [loop[d] EXCEPT !.pc = x]
        PROVE  /\ LoopHonest(loop'[d], requests, clock)
               /\ loop'[d] # Idle /\ loop'[d].code # 0 => loop'[d] = loop[d]
    <3>1. loop[d] # Idle
      BY <2>4 DEF Idle
    <3>2. PICK w \in WorkOf(cf, d) : w = loop[d]
      BY Zenon, <3>1 DEF LineInv, InLine
    <3>3. w.code = 0 /\ w.at <= clock
      BY <2>1, <2>4, <3>1, <3>2 DEF LoopHonest
    <3>4. PICK v : v = [w EXCEPT !.pc = x]
      BY ZenonT(30)
    <3>5. v.pc = x /\ v.code = 0 /\ v.at = w.at
      BY <3>3, <3>4 DEF WorkOf
    <3>6. loop'[d] = v
      BY <2>4, <3>2, <3>4
    <3> QED
      BY <3>3, <3>5, <3>6 DEF LoopHonest
  <2> QED
    BY SMTT(30), <1>2, <2>2, <2>3, <2>4 DEF LoopGoes
<1>4. \A k \in Tokens' : k \in Tokens
  BY SMTT(30), <1>2, <1>3 DEF Tokens, Challenge
<1>5. approval # Idle => approval \in Approvals
  BY Zenon DEF CodeInv
<1>6. \A c \in cf.channels : LoopHonest(loop'[c], requests', clock')
  BY <1>1, <1>3
<1> QED
  BY <1>1, <1>2, <1>4, <1>5, <1>6, CodesStay

(* Every step keeps every token good.                                         *)
LEMMA CodeStep == LineInv /\ LineInv' /\ CodeInv /\ [Next]_vars => CodeInv'
<1> SUFFICES ASSUME LineInv, LineInv', CodeInv, [Next]_vars PROVE CodeInv'
  BY Zenon
<1>1. CASE AccessNext
  BY Zenon, <1>1, OperatorCodes
<1>2. CASE \E c \in cf.channels : AccessCheck(c)
  BY <1>2, CheckCodes, IssueCodes
<1>3. CASE ~AccessNext /\ \A c \in cf.channels : ~AccessCheck(c)
  <2>1. CASE \E c \in cf.channels : Refuse(c)
    <3>1. PICK c \in cf.channels : Refuse(c)
      BY Zenon, <2>1
    <3>2. UNCHANGED <<clock, accessVars>> /\ loop[c] # Idle
      <4>1. loop[c].pc = "refused" /\ clock' = clock /\ accessVars' = accessVars
        BY ZenonT(30), <3>1 DEF Refuse
      <4> QED
        BY SMTT(30), <4>1 DEF Idle
    <3>3. rendered' = rendered \/ (loop[c].code # 0 /\ rendered' = rendered \union {Challenge(loop[c])})
      BY Zenon, <3>1 DEF Refuse
    <3>4. \A k \in rendered' : k \in Tokens
      BY <3>2, <3>3 DEF Tokens
    <3> QED
      BY SMTT(30), <1>3, <3>2, <3>4, QuietCodes
  <2>2. CASE ~\E c \in cf.channels : Refuse(c)
    <3>1. UNCHANGED <<clock, accessVars, rendered>>
      <4>1. CASE GatewayNext
        BY ZenonT(30), <1>3, <2>2, <4>1 DEF GatewayNext, Inbound, LoopStep, AccessThrows, Handle, Handled, Replied,
             HostStep, Start, AdapterStarts, AdapterFails, Stop, AdapterStops, Stopped, histories
      <4>2. CASE ProactiveNext
        BY <4>2, ProactiveFrame DEF LineInv, doorVars, gatewayVars
      <4>3. CASE UNCHANGED vars
        BY <4>3 DEF vars, gatewayVars
      <4> QED
        BY SMTT(30), <1>3, <4>1, <4>2, <4>3 DEF Next
    <3>2. \A k \in rendered' : k \in Tokens
      BY SMTT(30), <3>1 DEF Tokens
    <3> QED
      BY SMTT(30), <1>3, <3>1, <3>2, QuietCodes
  <2> QED
    BY SMTT(30), <2>1, <2>2
<1> QED
  BY <1>1, <1>2, <1>3

(* No code exists at first.                                                   *)
LEMMA CodeInit == Init => CodeInv
<1> SUFFICES ASSUME Init PROVE CodeInv
  OBVIOUS
<1>1. requests = {} /\ approval = Idle /\ rendered = {} /\ loop = [c \in cf.channels |-> Idle]
  BY Zenon DEF Init, AccessInit, GatewayInit
<1> QED
  BY <1>1 DEF CodeInv, Tokens, LoopHonest

(* A pairing code delivered to its peer stays good until it expires: checks   *)
(* that prune, replace and issue, on any number of channels, and approvals    *)
(* under way never lose it; only an approval takes it, to pair the peer or to *)
(* fail after deleting the request.                                           *)
THEOREM RenderedSafe == Spec => []RenderedCodeGood
<1>1. CodeInv => RenderedCodeGood
  BY Zenon DEF CodeInv, RenderedCodeGood, Tokens, TokenGood, Kept, Took
<1> QED
  BY <1>1, DoorInit, DoorStep, CodeInit, CodeStep, PTL DEF Spec
====================================================================================
