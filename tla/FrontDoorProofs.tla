------------------------------ MODULE FrontDoorProofs ------------------------------
(* Safety proofs about FrontDoor, for any policy, limits, peers, channels and *)
(* bounds: messages are processed once and in order, nothing is under way     *)
(* after a stop, the pending codes stay within their cap, the heartbeat and   *)
(* the cron task never collide with themselves, and a stopped heartbeat       *)
(* begins no beat.                                                            *)
EXTENDS FrontDoor, SequenceTheorems, FiniteSetTheorems, TLAPS

(* The messages of channel c of scenario k, and what a drain loop holds.      *)
Of(k, c) == [peer : {p \in k.peers : p.channel = c}, n : Nat]
Points == {"isPaired", "find", "prune", "count", "issue", "refused", "allowed", "handling", "reply"}
WorkOf(k, c) == [pc : Points, msg : Of(k, c), at : Nat, code : Nat]

Held(w) == IF w = Idle THEN <<>> ELSE <<w.msg>>

(* Channel c in order: a accepted, f finished, w under way, q queued.         *)
InLine(k, c, a, f, w, q) ==
  /\ a \in Seq(Of(k, c)) /\ f \in Seq(Of(k, c)) /\ q \in Seq(Of(k, c))
  /\ w = Idle \/ w \in WorkOf(k, c)
  /\ a = f \o Held(w) \o q

-----------------------------------------------------------------------------
(* Facts about the sequences of a channel.                                    *)

(* Taking the head of the queue keeps the order of acceptance. *)
LEMMA HeadTaken ==
  ASSUME NEW M, NEW f \in Seq(M), NEW q \in Seq(M), q # <<>>
  PROVE  f \o <<>> \o q = f \o <<Head(q)>> \o Tail(q)
<1>1. /\ Head(q) \in M /\ Tail(q) \in Seq(M) /\ Len(Tail(q)) = Len(q) - 1
      /\ \A i \in 1..Len(Tail(q)) : Tail(q)[i] = q[i + 1]
  BY Zenon, HeadTailProperties
<1>2. <<Head(q)>> \in Seq(M) /\ Len(<<Head(q)>>) = 1 /\ <<Head(q)>>[1] = q[1]
  BY <1>1
<1>3. q = <<Head(q)>> \o Tail(q)
  <2>1. <<Head(q)>> \o Tail(q) \in Seq(M) /\ Len(<<Head(q)>> \o Tail(q)) = Len(q)
    BY <1>1, <1>2, ConcatProperties, LenProperties
  <2>2. \A i \in 1..Len(q) : q[i] = (<<Head(q)>> \o Tail(q))[i]
    BY <1>1, <1>2, ConcatProperties, LenProperties
  <2> QED
    BY Zenon, <2>1, <2>2, SeqEqual
<1>4. f \o <<>> = f
  BY Zenon, ConcatEmptySeq
<1>5. (f \o <<Head(q)>>) \o Tail(q) = f \o (<<Head(q)>> \o Tail(q))
  BY <1>1, <1>2, ConcatAssociative
<1> QED
  BY Zenon, <1>3, <1>4, <1>5

(* Ending the message a loop holds keeps the order of acceptance. *)
LEMMA HeldEnded ==
  ASSUME NEW M, NEW f \in Seq(M), NEW q \in Seq(M), NEW m \in M
  PROVE  /\ Append(f, m) \in Seq(M)
         /\ f \o <<m>> \o q = Append(f, m) \o <<>> \o q
<1>1. Append(f, m) \in Seq(M) /\ Append(f, m) = f \o <<m>>
  BY Zenon, AppendProperties, AppendIsConcat
<1>2. Append(f, m) \o <<>> = Append(f, m)
  BY Zenon, <1>1, ConcatEmptySeq
<1> QED
  BY Zenon, <1>1, <1>2

(* A message accepted at the end of the queue is last in the order. *)
LEMMA QueuedLast ==
  ASSUME NEW M, NEW b \in Seq(M), NEW q \in Seq(M), NEW m \in M
  PROVE  /\ Append(q, m) \in Seq(M) /\ Append(q, m) # <<>>
         /\ Append(b \o q, m) = b \o Append(q, m)
<1>1. /\ Append(q, m) \in Seq(M) /\ Append(q, m) # <<>> /\ Append(q, m) = q \o <<m>>
  BY AppendProperties, AppendIsConcat
<1>2. b \o q \in Seq(M) /\ <<m>> \in Seq(M)
  BY ConcatProperties
<1>3. Append(b \o q, m) = (b \o q) \o <<m>>
  BY Zenon, <1>2, AppendIsConcat
<1>4. (b \o q) \o <<m>> = b \o (q \o <<m>>)
  BY <1>2, ConcatAssociative
<1> QED
  BY Zenon, <1>1, <1>3, <1>4

-----------------------------------------------------------------------------
(* The drain loop.                                                            *)

Scopes == DOMAIN queue = cf.channels /\ DOMAIN loop = cf.channels
          /\ DOMAIN accepted = cf.channels /\ DOMAIN finished = cf.channels

(* A check that begins holds the message it is about.                         *)
LEMMA CheckBeginsHolds ==
  ASSUME NEW c, NEW m \in Of(cf, c)
  PROVE  CheckBegins(m) \in WorkOf(cf, c) /\ CheckBegins(m).msg = m /\ CheckBegins(m) # Idle
<1>1. CheckBegins(m) \in WorkOf(cf, c) /\ CheckBegins(m).msg = m
  BY Zenon DEF CheckBegins, WorkOf, Points
<1>2. CheckBegins(m).pc # "idle"
  BY Zenon DEF CheckBegins
<1> QED
  BY <1>1, <1>2 DEF Idle

(* The head of the drain loop: it takes the next message in line, or rests.   *)
LEMMA TakeInLine ==
  ASSUME NEW c \in cf.channels, NEW a \in Seq(Of(cf, c)), NEW f \in Seq(Of(cf, c)),
         NEW q \in Seq(Of(cf, c)), a = f \o <<>> \o q, Scopes, Take(c, q)
  PROVE  /\ InLine(cf, c, a, f, loop'[c], queue'[c])
         /\ \A d \in cf.channels \ {c} : loop'[d] = loop[d] /\ queue'[d] = queue[d]
         /\ DOMAIN loop' = cf.channels /\ DOMAIN queue' = cf.channels
         /\ loop'[c] # Idle => running
<1>1. CASE running /\ q # <<>>
  <2>1. loop' = [loop EXCEPT ![c] = CheckBegins(Head(q))] /\ queue' = [queue EXCEPT ![c] = Tail(q)]
    BY Zenon, <1>1 DEF Take
  <2>2. Head(q) \in Of(cf, c) /\ Tail(q) \in Seq(Of(cf, c))
    BY Zenon, <1>1, HeadTailProperties
  <2>3. /\ loop'[c] = CheckBegins(Head(q)) /\ queue'[c] = Tail(q)
        /\ DOMAIN loop' = cf.channels /\ DOMAIN queue' = cf.channels
        /\ \A d \in cf.channels \ {c} : loop'[d] = loop[d] /\ queue'[d] = queue[d]
    BY Zenon, <2>1 DEF Scopes
  <2>4. loop'[c] \in WorkOf(cf, c) /\ Held(loop'[c]) = <<Head(q)>>
    BY <2>2, <2>3, CheckBeginsHolds DEF Held
  <2>5. a = f \o <<Head(q)>> \o Tail(q)
    BY Zenon, <1>1, HeadTaken
  <2> QED
    BY Zenon, <1>1, <2>2, <2>3, <2>4, <2>5 DEF InLine
<1>2. CASE ~(running /\ q # <<>>)
  <2>1. loop' = [loop EXCEPT ![c] = Idle] /\ queue' = [queue EXCEPT ![c] = q]
    BY Zenon, <1>2 DEF Take
  <2>2. /\ loop'[c] = Idle /\ queue'[c] = q
        /\ DOMAIN loop' = cf.channels /\ DOMAIN queue' = cf.channels
        /\ \A d \in cf.channels \ {c} : loop'[d] = loop[d] /\ queue'[d] = queue[d]
    BY Zenon, <2>1 DEF Scopes
  <2> QED
    BY Zenon, <2>2 DEF InLine, Held
<1> QED
  BY Zenon, <1>1, <1>2

(* A step of a check keeps the message, and lands on another point of it.     *)
LEMMA CheckStepHolds ==
  ASSUME NEW c, NEW w \in WorkOf(cf, c), w.pc \in Checking, clock \in Nat, issued \in Nat
  PROVE  CheckStep(w) \in WorkOf(cf, c) /\ CheckStep(w).msg = w.msg
<1>1. w.pc \in {"isPaired", "find", "prune", "count", "issue"}
  BY Zenon DEF Checking
<1>2. ASSUME w.pc = "isPaired" PROVE CheckStep(w) \in WorkOf(cf, c) /\ CheckStep(w).msg = w.msg
  BY Zenon, <1>2 DEF CheckStep, IsPaired, WorkOf, Points
<1>3. ASSUME w.pc = "find" PROVE CheckStep(w) \in WorkOf(cf, c) /\ CheckStep(w).msg = w.msg
  BY Zenon, <1>3 DEF CheckStep, FindRequest, WorkOf, Points
<1>4. ASSUME w.pc = "prune" PROVE CheckStep(w) \in WorkOf(cf, c) /\ CheckStep(w).msg = w.msg
  BY Zenon, <1>4 DEF CheckStep, WorkOf, Points
<1>5. ASSUME w.pc = "count" PROVE CheckStep(w) \in WorkOf(cf, c) /\ CheckStep(w).msg = w.msg
  BY Zenon, <1>5 DEF CheckStep, CountPending, WorkOf, Points
<1>6. ASSUME w.pc = "issue" PROVE CheckStep(w) \in WorkOf(cf, c) /\ CheckStep(w).msg = w.msg
  <2>1. PICK k \in Nat : k = issued + 1
    OBVIOUS
  <2>2. CheckStep(w) = [w EXCEPT !.pc = "refused", !.code = k]
    BY Zenon, <1>6, <2>1 DEF CheckStep, IssueCode
  <2> QED
    BY Zenon, <2>1, <2>2 DEF WorkOf, Points
<1> QED
  BY Zenon, <1>1, <1>2, <1>3, <1>4, <1>5, <1>6


-----------------------------------------------------------------------------
(* The inductive invariant of the gateway: every channel is in line, and a    *)
(* gateway that is off has no adapter started and no loop draining.           *)

LineInv ==
  /\ cf \in Scenarios /\ clock \in Nat /\ issued \in Nat /\ used \in [Events -> Nat]
  /\ Scopes
  /\ \A c \in cf.channels : InLine(cf, c, accepted[c], finished[c], loop[c], queue[c])

HostInv == host = "off" => adapters = {} /\ \A c \in cf.channels : loop[c] = Idle

(* The gateway begins in line and at rest.                                    *)
LEMMA DoorInit == Init => LineInv /\ HostInv
<1> SUFFICES ASSUME Init PROVE LineInv /\ HostInv
  BY Zenon
<1>1. cf \in Scenarios /\ clock = 0 /\ issued = 0 /\ used = [e \in Events |-> 0]
  BY Zenon DEF Init, AccessInit
<1>2. /\ host = "off" /\ running = FALSE /\ adapters = {}
      /\ queue = [c \in cf.channels |-> <<>>] /\ loop = [c \in cf.channels |-> Idle]
      /\ accepted = [c \in cf.channels |-> <<>>] /\ finished = [c \in cf.channels |-> <<>>]
  BY Zenon DEF Init, GatewayInit
<1>3. ASSUME NEW c \in cf.channels
      PROVE  InLine(cf, c, accepted[c], finished[c], loop[c], queue[c])
  <2>1. accepted[c] = <<>> /\ finished[c] = <<>> /\ loop[c] = Idle /\ queue[c] = <<>>
    BY Zenon, <1>2
  <2>2. <<>> \in Seq(Of(cf, c)) /\ <<>> \o <<>> = <<>>
    BY Zenon, ConcatEmptySeq, EmptySeq
  <2> QED
    BY Zenon, <2>1, <2>2 DEF InLine, Held
<1> QED
  BY Zenon, <1>1, <1>2, <1>3 DEF LineInv, HostInv, Scopes

(* A step that touches no channel's sequences keeps LineInv.                  *)
LEMMA LineKept ==
  ASSUME LineInv, UNCHANGED <<cf, queue, loop, accepted, finished>>,
         clock' \in Nat, issued' \in Nat, used' \in [Events -> Nat]
  PROVE  LineInv'
BY Zenon DEF LineInv, Scopes

(* What the end of a message does to its channel and to the others.           *)
LEMMA FinishInLine ==
  ASSUME LineInv, NEW c \in cf.channels, loop[c] # Idle, Finish(c), UNCHANGED <<cf, accepted>>,
         clock' \in Nat, issued' \in Nat, used' \in [Events -> Nat]
  PROVE  LineInv' /\ \A d \in cf.channels : loop'[d] # Idle => loop[d] # Idle
<1> DEFINE m == loop[c].msg
           f == Append(finished[c], m)
<1>1. /\ InLine(cf, c, accepted[c], finished[c], loop[c], queue[c]) /\ Scopes
      /\ finished' = [finished EXCEPT ![c] = f] /\ Take(c, queue[c])
  BY Zenon DEF LineInv, Finish
<1>2. /\ m \in Of(cf, c) /\ accepted[c] \in Seq(Of(cf, c)) /\ finished[c] \in Seq(Of(cf, c))
      /\ queue[c] \in Seq(Of(cf, c)) /\ accepted[c] = finished[c] \o <<m>> \o queue[c]
  BY Zenon, <1>1 DEF InLine, WorkOf, Held
<1>3. f \in Seq(Of(cf, c)) /\ accepted[c] = f \o <<>> \o queue[c]
  <2> HIDE DEF m
  <2>1. /\ Append(finished[c], m) \in Seq(Of(cf, c))
        /\ finished[c] \o <<m>> \o queue[c] = Append(finished[c], m) \o <<>> \o queue[c]
    <3>1. m \in Of(cf, c) /\ finished[c] \in Seq(Of(cf, c)) /\ queue[c] \in Seq(Of(cf, c))
      BY Zenon, <1>2
    <3>2. \A M : \A fs \in Seq(M), qs \in Seq(M), x \in M :
            Append(fs, x) \in Seq(M) /\ fs \o <<x>> \o qs = Append(fs, x) \o <<>> \o qs
      BY Zenon, HeldEnded
    <3> QED
      BY ZenonT(30), <3>1, <3>2
  <2> QED
    BY <1>2, <2>1, Zenon
<1> HIDE DEF m, f
<1>4. /\ InLine(cf, c, accepted[c], f, loop'[c], queue'[c])
      /\ \A d \in cf.channels \ {c} : loop'[d] = loop[d] /\ queue'[d] = queue[d]
      /\ DOMAIN loop' = cf.channels /\ DOMAIN queue' = cf.channels
  BY Zenon, <1>1, <1>2, <1>3, TakeInLine
<1>5. /\ finished'[c] = f /\ DOMAIN finished' = cf.channels
      /\ \A d \in cf.channels \ {c} : finished'[d] = finished[d]
  BY Zenon, <1>1 DEF Scopes
<1>6. \A d \in cf.channels : InLine(cf, d, accepted[d], finished'[d], loop'[d], queue'[d])
  <2> SUFFICES ASSUME NEW d \in cf.channels
               PROVE  InLine(cf, d, accepted[d], finished'[d], loop'[d], queue'[d])
    BY Zenon
  <2>1. CASE d = c
    BY Zenon, <2>1, <1>4, <1>5
  <2>2. CASE d # c
    BY Zenon, <2>2, <1>4, <1>5 DEF LineInv
  <2> QED
    BY Zenon, <2>1, <2>2
<1>7. \A d \in cf.channels : loop'[d] # Idle => loop[d] # Idle
  BY Zenon, <1>4
<1> QED
  BY Zenon, <1>1, <1>4, <1>5, <1>6, <1>7 DEF LineInv, Scopes


(* A bound that is spent stays a number.                                      *)
LEMMA SpendTyped ==
  ASSUME used \in [Events -> Nat], NEW e \in Events, Spend(e)
  PROVE  used' \in [Events -> Nat]
BY DEF Spend

(* The events of the gateway are bounded ones.                                *)
LEMMA EventsNamed ==
  /\ "message" \in Events /\ "tick" \in Events /\ "approve" \in Events /\ "revoke" \in Events
  /\ "stop" \in Events /\ "fault" \in Events /\ "fire" \in Events /\ "manual" \in Events
  /\ "window" \in Events
BY Zenon DEF Events

(* Appending message m at the end of channel c's line.                        *)
LEMMA AppendInLine ==
  ASSUME NEW c, NEW a, NEW f, NEW w, NEW q, NEW m \in Of(cf, c), InLine(cf, c, a, f, w, q)
  PROVE  /\ InLine(cf, c, Append(a, m), f, w, Append(q, m))
<1>1. /\ a \in Seq(Of(cf, c)) /\ f \in Seq(Of(cf, c)) /\ q \in Seq(Of(cf, c))
      /\ a = f \o Held(w) \o q /\ (w = Idle \/ w \in WorkOf(cf, c))
  BY Zenon DEF InLine
<1>2. Held(w) \in Seq(Of(cf, c))
  <2>1. CASE w = Idle
    BY Zenon, <2>1, EmptySeq DEF Held
  <2>2. CASE w # Idle
    <3>1. w.msg \in Of(cf, c)
      BY Zenon, <2>2, <1>1 DEF WorkOf
    <3> QED
      BY <2>2, <3>1 DEF Held
  <2> QED
    BY Zenon, <2>1, <2>2
<1>3. f \o Held(w) \in Seq(Of(cf, c))
  BY Zenon, <1>1, <1>2, ConcatProperties
<1>4. /\ Append(q, m) \in Seq(Of(cf, c)) /\ Append(a, m) \in Seq(Of(cf, c))
      /\ Append((f \o Held(w)) \o q, m) = (f \o Held(w)) \o Append(q, m)
  <2>1. PICK b : b = f \o Held(w)
    BY Zenon
  <2>2. /\ b \in Seq(Of(cf, c)) /\ q \in Seq(Of(cf, c)) /\ a \in Seq(Of(cf, c))
    BY Zenon, <1>1, <1>3, <2>1
  <2>3. Append(q, m) \in Seq(Of(cf, c)) /\ Append(b \o q, m) = b \o Append(q, m)
    <3>1. PICK M : M = Of(cf, c)
      BY Zenon
    <3>2. b \in Seq(M) /\ q \in Seq(M) /\ m \in M
      BY Zenon, <2>2, <3>1
    <3>3. Append(q, m) \in Seq(M)
      BY Zenon, <3>2, AppendProperties
    <3>4. Append(b \o q, m) = b \o Append(q, m)
      BY <3>2, QueuedLast
    <3> QED
      BY <3>1, <3>3, <3>4, Zenon
  <2>4. Append(a, m) \in Seq(Of(cf, c))
    BY Zenon, <2>2, AppendProperties
  <2> QED
    BY Zenon, <2>1, <2>3, <2>4
<1> QED
  BY Zenon, <1>1, <1>4 DEF InLine

(* A message handed over by an adapter is refused or put at the end of its    *)
(* channel's line.                                                            *)
LEMMA InboundKeeps ==
  ASSUME LineInv, HostInv, NEW p \in cf.peers, Inbound(p)
  PROVE  LineInv' /\ HostInv'
<1> DEFINE c == p.channel
           m == [peer |-> p, n |-> used["message"] + 1]
           q == Append(queue[c], m)
<1>1. c \in cf.channels
  BY Zenon, ScenariosAssumption DEF LineInv
<1>2. m \in Of(cf, c)
  <2>1. PICK k \in Nat : k = used["message"] + 1
    BY EventsNamed DEF LineInv
  <2> QED
    BY Zenon, <2>1 DEF Of
<1>3. used' \in [Events -> Nat] /\ clock' \in Nat /\ issued' \in Nat
  <2>1. Spend("message") /\ clock' = clock /\ issued' = issued
    BY Zenon DEF Inbound, accessVars
  <2> QED
    BY Zenon, <2>1, EventsNamed, SpendTyped DEF LineInv
<1>4. c \in adapters /\ UNCHANGED <<cf, host, running, adapters, finished>>
  BY Zenon DEF Inbound
<1>5. host # "off"
  BY Zenon, <1>4 DEF HostInv
<1>6. CASE ~(running /\ Len(queue[c]) < cf.queueLimit)
  <2>1. UNCHANGED <<queue, loop, accepted>>
    BY Zenon, <1>6 DEF Inbound
  <2> QED
    BY Zenon, <2>1, <1>3, <1>4, <1>5, LineKept DEF HostInv
<1>7. CASE running /\ Len(queue[c]) < cf.queueLimit
  <2>1. Drain(c, q) /\ accepted' = [accepted EXCEPT ![c] = Append(@, m)]
    BY Zenon, <1>7 DEF Inbound
  <2> HIDE DEF m, q, c
  <2>2. /\ InLine(cf, c, accepted[c], finished[c], loop[c], queue[c]) /\ Scopes
    BY Zenon, <1>1 DEF LineInv
  <2>3. InLine(cf, c, Append(accepted[c], m), finished[c], loop[c], q)
    BY Zenon, <1>2, <2>2, AppendInLine DEF q
  <2>4. /\ accepted'[c] = Append(accepted[c], m) /\ DOMAIN accepted' = cf.channels
        /\ \A d \in cf.channels \ {c} : accepted'[d] = accepted[d]
    BY <1>1, <2>1, <2>2 DEF Scopes
  <2>5. /\ InLine(cf, c, accepted'[c], finished[c], loop'[c], queue'[c])
        /\ \A d \in cf.channels \ {c} : loop'[d] = loop[d] /\ queue'[d] = queue[d]
        /\ DOMAIN loop' = cf.channels /\ DOMAIN queue' = cf.channels
    <3>1. CASE loop[c] = Idle
      <4>1. Take(c, q)
        BY Zenon, <2>1, <3>1 DEF Drain
      <4>2. /\ accepted'[c] \in Seq(Of(cf, c)) /\ finished[c] \in Seq(Of(cf, c))
            /\ q \in Seq(Of(cf, c)) /\ accepted'[c] = finished[c] \o <<>> \o q
        BY Zenon, <2>3, <2>4, <3>1 DEF InLine, Held
      <4> QED
        BY Zenon, <1>1, <2>2, <4>1, <4>2, TakeInLine
    <3>2. CASE loop[c] # Idle
      <4>1. queue' = [queue EXCEPT ![c] = q] /\ loop' = loop
        BY Zenon, <2>1, <3>2 DEF Drain
      <4> QED
        BY Zenon, <1>1, <2>2, <2>3, <2>4, <4>1 DEF Scopes
    <3> QED
      BY Zenon, <3>1, <3>2
  <2>6. \A d \in cf.channels : InLine(cf, d, accepted'[d], finished[d], loop'[d], queue'[d])
    <3> SUFFICES ASSUME NEW d \in cf.channels
                 PROVE  InLine(cf, d, accepted'[d], finished[d], loop'[d], queue'[d])
      BY Zenon
    <3>1. CASE d = c
      BY Zenon, <3>1, <2>5
    <3>2. CASE d # c
      BY Zenon, <3>2, <2>4, <2>5 DEF LineInv
    <3> QED
      BY Zenon, <3>1, <3>2
  <2>7. LineInv'
    BY Zenon, <1>3, <1>4, <2>2, <2>4, <2>5, <2>6 DEF LineInv, Scopes
  <2> QED
    BY Zenon, <1>4, <1>5, <2>7 DEF HostInv
<1> QED
  BY Zenon, <1>6, <1>7


(* A step that changes the record of one loop, and not the message it holds.  *)
LEMMA LoopMoves ==
  ASSUME LineInv, HostInv, NEW c \in cf.channels, loop[c] # Idle, NEW w \in WorkOf(cf, c),
         w.msg = loop[c].msg, loop' = [loop EXCEPT ![c] = w],
         UNCHANGED <<cf, host, running, adapters, queue, accepted, finished>>,
         clock' \in Nat, issued' \in Nat, used' \in [Events -> Nat]
  PROVE  LineInv' /\ HostInv'
<1>1. /\ loop'[c] = w /\ DOMAIN loop' = cf.channels
      /\ \A d \in cf.channels \ {c} : loop'[d] = loop[d]
  BY Zenon DEF LineInv, Scopes
<1>2. w.pc \in Points
  BY Zenon DEF WorkOf
<1>3. w # Idle
  BY <1>2 DEF Points, Idle
<1>4. Held(w) = Held(loop[c])
  BY Zenon, <1>3 DEF Held
<1>5. ASSUME NEW d \in cf.channels
      PROVE  InLine(cf, d, accepted[d], finished[d], loop'[d], queue[d])
  <2>1. InLine(cf, d, accepted[d], finished[d], loop[d], queue[d])
    BY Zenon DEF LineInv
  <2>2. CASE d = c
    BY Zenon, <2>1, <2>2, <1>1, <1>4 DEF InLine
  <2>3. CASE d # c
    BY Zenon, <2>1, <2>3, <1>1
  <2> QED
    BY Zenon, <2>2, <2>3
<1>6. LineInv'
  BY Zenon, <1>1, <1>5 DEF LineInv, Scopes
<1>7. HostInv'
  BY Zenon DEF HostInv
<1> QED
  BY Zenon, <1>6, <1>7

(* A step that ends the message of a loop keeps the invariant.                *)
LEMMA LoopEnds ==
  ASSUME LineInv, HostInv, NEW c \in cf.channels, loop[c] # Idle, Finish(c),
         UNCHANGED <<cf, host, running, adapters, accepted>>,
         clock' \in Nat, issued' \in Nat, used' \in [Events -> Nat]
  PROVE  LineInv' /\ HostInv'
<1>1. LineInv' /\ \A d \in cf.channels : loop'[d] # Idle => loop[d] # Idle
  BY Zenon, FinishInLine
<1> QED
  BY Zenon, <1>1 DEF HostInv

(* Every step of a drain loop keeps the invariant.                            *)
LEMMA LoopKeeps ==
  ASSUME LineInv, HostInv, NEW c \in cf.channels, LoopStep(c)
  PROVE  LineInv' /\ HostInv'
<1>1. /\ clock \in Nat /\ issued \in Nat /\ used \in [Events -> Nat]
      /\ loop[c] = Idle \/ loop[c] \in WorkOf(cf, c)
  BY Zenon DEF LineInv, InLine
<1>2. ASSUME loop[c].pc # "idle" PROVE loop[c] # Idle /\ loop[c] \in WorkOf(cf, c)
  BY <1>1, <1>2 DEF Idle
<1>3. CASE AccessCheck(c)
  <2>1. /\ loop[c].pc \in Checking /\ loop' = [loop EXCEPT ![c] = CheckStep(loop[c])]
        /\ UNCHANGED <<cf, used, clock, host, running, adapters, queue, accepted, finished>>
        /\ CheckWrites(loop[c])
    BY Zenon, <1>3 DEF AccessCheck, histories
  <2>2. loop[c] # Idle /\ loop[c] \in WorkOf(cf, c)
    BY Zenon, <1>2, <2>1 DEF Checking
  <2>3. CheckStep(loop[c]) \in WorkOf(cf, c) /\ CheckStep(loop[c]).msg = loop[c].msg
    BY Zenon, <1>1, <2>1, <2>2, CheckStepHolds
  <2>4. issued' \in Nat
    BY <1>1, <2>1 DEF CheckWrites
  <2> QED
    BY Zenon, <1>1, <2>1, <2>2, <2>3, <2>4, LoopMoves
<1>4. CASE AccessThrows(c) \/ Refuse(c)
  <2>1. /\ loop[c].pc # "idle" /\ Finish(c)
        /\ UNCHANGED <<cf, clock, issued, host, running, adapters, accepted>>
        /\ used' = used \/ Spend("fault")
    BY Zenon, <1>4 DEF AccessThrows, Refuse, accessVars, Checking
  <2>2. used' \in [Events -> Nat]
    BY Zenon, <1>1, <2>1, EventsNamed, SpendTyped
  <2> QED
    BY Zenon, <1>1, <1>2, <2>1, <2>2, LoopEnds
<1>5. CASE Handle(c)
  <2>1. /\ loop[c].pc = "allowed"
        /\ UNCHANGED <<cf, clock, issued, host, running, adapters, accepted>>
        /\ \/ Finish(c) /\ (used' = used \/ Spend("fault"))
           \/ /\ loop' = [loop EXCEPT ![c].pc = "handling"]
              /\ UNCHANGED <<queue, finished, used>>
    BY Zenon, <1>5 DEF Handle, accessVars
  <2>2. used' \in [Events -> Nat]
    BY Zenon, <1>1, <2>1, EventsNamed, SpendTyped
  <2>3. CASE Finish(c)
    BY Zenon, <1>1, <1>2, <2>1, <2>2, <2>3, LoopEnds
  <2>4. CASE loop' = [loop EXCEPT ![c].pc = "handling"] /\ UNCHANGED <<queue, finished, used>>
    <3>1. PICK w : w = [loop[c] EXCEPT !.pc = "handling"]
      BY Zenon
    <3>2. w \in WorkOf(cf, c) /\ w.msg = loop[c].msg
      BY Zenon, <1>2, <2>1, <3>1 DEF WorkOf, Points
    <3>3. loop' = [loop EXCEPT ![c] = w]
      BY Zenon, <2>4, <3>1
    <3> QED
      BY Zenon, <1>1, <1>2, <2>1, <2>2, <2>4, <3>2, <3>3, LoopMoves
  <2> QED
    BY Zenon, <2>1, <2>3, <2>4
<1>6. CASE Handled(c)
  <2>1. /\ loop[c].pc = "handling"
        /\ UNCHANGED <<cf, used, clock, issued, host, running, adapters, accepted>>
        /\ \/ Finish(c)
           \/ loop' = [loop EXCEPT ![c].pc = "reply"] /\ UNCHANGED <<queue, finished>>
    BY Zenon, <1>6 DEF Handled, accessVars
  <2>2. CASE Finish(c)
    BY Zenon, <1>1, <1>2, <2>1, <2>2, LoopEnds
  <2>3. CASE loop' = [loop EXCEPT ![c].pc = "reply"] /\ UNCHANGED <<queue, finished>>
    <3>1. PICK w : w = [loop[c] EXCEPT !.pc = "reply"]
      BY ZenonT(30)
    <3>2. w \in WorkOf(cf, c) /\ w.msg = loop[c].msg
      BY Zenon, <1>2, <2>1, <3>1 DEF WorkOf, Points
    <3>3. loop' = [loop EXCEPT ![c] = w]
      BY Zenon, <2>3, <3>1
    <3> QED
      BY Zenon, <1>1, <1>2, <2>1, <2>3, <3>2, <3>3, LoopMoves
  <2> QED
    BY Zenon, <2>1, <2>2, <2>3
<1>7. CASE Replied(c)
  <2>1. /\ loop[c].pc = "reply" /\ Finish(c)
        /\ UNCHANGED <<cf, used, clock, issued, host, running, adapters, accepted>>
    BY Zenon, <1>7 DEF Replied, accessVars
  <2> QED
    BY Zenon, <1>1, <1>2, <2>1, LoopEnds
<1> QED
  BY Zenon, <1>3, <1>4, <1>5, <1>6, <1>7 DEF LoopStep


(* The steps of start() and stop() keep the invariant.                        *)
LEMMA HostKeeps ==
  ASSUME LineInv, HostInv, HostStep
  PROVE  LineInv' /\ HostInv'
<1>1. /\ UNCHANGED <<cf, clock, issued, queue, loop, accepted, finished>>
      /\ used' = used \/ Spend("stop") \/ Spend("fault")
  BY Zenon DEF HostStep, Start, AdapterStarts, AdapterFails, Stop, AdapterStops, Stopped, accessVars, histories
<1>2. clock' \in Nat /\ issued' \in Nat /\ used' \in [Events -> Nat]
  BY Zenon, <1>1, EventsNamed, SpendTyped DEF LineInv
<1>3. LineInv'
  BY Zenon, <1>1, <1>2, LineKept
<1>4. CASE Start
  BY Zenon, <1>1, <1>3, <1>4 DEF HostInv, Start
<1>5. CASE AdapterStarts
  BY Zenon, <1>1, <1>3, <1>5 DEF HostInv, AdapterStarts
<1>9. CASE AdapterFails
  BY Zenon, <1>1, <1>3, <1>9 DEF HostInv, AdapterFails
<1>6. CASE Stop
  BY Zenon, <1>1, <1>3, <1>6 DEF HostInv, Stop
<1>7. CASE AdapterStops
  BY Zenon, <1>1, <1>3, <1>7 DEF HostInv, AdapterStops
<1>8. CASE Stopped
  BY Zenon, <1>1, <1>3, <1>8 DEF HostInv, Stopped
<1> QED
  BY Zenon, <1>3, <1>4, <1>5, <1>6, <1>7, <1>8, <1>9 DEF HostStep

(* The operator and the clock leave the gateway alone.                        *)
LEMMA AccessKeeps ==
  ASSUME LineInv, HostInv, AccessNext
  PROVE  LineInv' /\ HostInv'
<1>1. /\ UNCHANGED <<cf, issued>> /\ UNCHANGED gatewayVars
      /\ \/ used' = used \/ Spend("approve") \/ Spend("revoke") \/ Spend("tick") \/ Spend("fault")
      /\ clock' = clock \/ clock' = clock + 1
  BY Zenon DEF AccessNext, Operator, ApproveFinds, ApproveDeletes, ApprovePairs, ApproveFails, Revoke, Tick
<1>2. clock' \in Nat /\ issued' \in Nat /\ used' \in [Events -> Nat]
  BY <1>1, EventsNamed, SpendTyped DEF LineInv
<1>3. UNCHANGED <<queue, loop, accepted, finished, host, running, adapters>>
  BY Zenon, <1>1 DEF gatewayVars
<1>4. LineInv'
  BY Zenon, <1>1, <1>2, <1>3, LineKept
<1>5. HostInv'
  BY Zenon, <1>1, <1>3 DEF HostInv
<1> QED
  BY Zenon, <1>4, <1>5

(* The proactive runners leave the gateway alone.                             *)
LEMMA ProactiveFrame ==
  ASSUME ProactiveNext, used \in [Events -> Nat]
  PROVE  UNCHANGED doorVars /\ used' \in [Events -> Nat]
<1>1. UNCHANGED doorVars
  BY Zenon DEF ProactiveNext, ProactiveCalls, HeartFires, HeartBeaten, HeartStarts, HeartStops, TaskFires,
         TaskFired, TaskStarts, TaskStops, DeferralFires, HeartStep, TaskStep, Checklist, BeatRuns, BeatRan,
         BeatDelivers, TaskRuns, TaskRan, TaskDenied, TaskDelivers
<1>2. \/ used' = used \/ Spend("stop") \/ Spend("window")
      \/ \E e \in {"fire", "manual"}, within \in BOOLEAN : Spends(e, within)
  BY Zenon DEF BeatBegins, FireBegins, ProactiveNext, ProactiveCalls, HeartFires, HeartBeaten, HeartStarts, HeartStops, TaskFires,
         TaskFired, TaskStarts, TaskStops, DeferralFires, HeartStep, TaskStep, Checklist, BeatRuns, BeatRan,
         BeatDelivers, TaskRuns, TaskRan, TaskDenied, TaskDelivers
<1>3. ASSUME NEW e \in {"fire", "manual"}, NEW within \in BOOLEAN, Spends(e, within)
      PROVE  used' \in [Events -> Nat]
  <2>1. \/ used' = [used EXCEPT ![e] = @ + 1]
        \/ used' = [used EXCEPT ![e] = @ + 1, !["window"] = @ + 1]
    BY Zenon, <1>3 DEF Spends, Spend
  <2>2. CASE used' = [used EXCEPT ![e] = @ + 1]
    BY <2>2, EventsNamed
  <2>3. CASE used' = [used EXCEPT ![e] = @ + 1, !["window"] = @ + 1]
    <3>1. PICK u : u = [used EXCEPT ![e] = @ + 1]
      BY Zenon
    <3>2. u \in [Events -> Nat]
      BY <3>1, EventsNamed
    <3>3. used' = [u EXCEPT !["window"] = u["window"] + 1]
      BY Zenon, <2>3, <3>1
    <3> QED
      BY <3>2, <3>3, EventsNamed
  <2> QED
    BY Zenon, <2>1, <2>2, <2>3
<1>4. used' \in [Events -> Nat]
  BY Zenon, <1>2, <1>3, EventsNamed, SpendTyped
<1> QED
  BY Zenon, <1>1, <1>4

(* Every step keeps every channel in line and the gateway at rest when off.   *)
LEMMA DoorStep == LineInv /\ HostInv /\ [Next]_vars => LineInv' /\ HostInv'
<1> SUFFICES ASSUME LineInv, HostInv, [Next]_vars PROVE LineInv' /\ HostInv'
  BY Zenon
<1>1. CASE AccessNext
  BY Zenon, <1>1, AccessKeeps
<1>2. CASE GatewayNext
  <2>1. CASE \E p \in cf.peers : Inbound(p)
    BY Zenon, <2>1, InboundKeeps
  <2>2. CASE \E c \in cf.channels : LoopStep(c)
    BY Zenon, <2>2, LoopKeeps
  <2>3. CASE HostStep
    BY Zenon, <2>3, HostKeeps
  <2> QED
    BY Zenon, <1>2, <2>1, <2>2, <2>3 DEF GatewayNext
<1>3. CASE ProactiveNext
  <2>1. UNCHANGED doorVars /\ used' \in [Events -> Nat]
    BY Zenon, <1>3, ProactiveFrame DEF LineInv
  <2>2. /\ UNCHANGED <<cf, clock, issued, queue, loop, accepted, finished, host, running, adapters>>
    BY Zenon, <2>1 DEF doorVars, accessVars, gatewayVars
  <2>3. LineInv'
    BY Zenon, <2>1, <2>2, LineKept DEF LineInv
  <2> QED
    BY Zenon, <2>2, <2>3 DEF HostInv
<1>4. CASE UNCHANGED vars
  <2>1. /\ UNCHANGED <<cf, used, clock, issued, queue, loop, accepted, finished, host, running, adapters>>
    BY Zenon, <1>4 DEF vars, accessVars, gatewayVars
  <2>2. LineInv'
    BY Zenon, <2>1, LineKept DEF LineInv
  <2> QED
    BY Zenon, <2>1, <2>2 DEF HostInv
<1> QED
  BY Zenon, <1>1, <1>2, <1>3, <1>4 DEF Next

(* The drain loop of the gateway processes every message it accepts once and  *)
(* in the order of acceptance, across stops and restarts.                     *)
THEOREM InOrderSafe == Spec => []AcceptedInOrder
<1>1. LineInv => AcceptedInOrder
  BY Zenon DEF LineInv, InLine, AcceptedInOrder, UnderWay, Held
<1> QED
  BY <1>1, DoorInit, DoorStep, PTL DEF Spec

(* Once the gateway's stop() has returned no message is under way.            *)
THEOREM QuietSafe == Spec => []QuietAfterStop
<1>1. HostInv => QuietAfterStop
  BY Zenon DEF HostInv, QuietAfterStop
<1> QED
  BY <1>1, DoorInit, DoorStep, PTL DEF Spec


-----------------------------------------------------------------------------
(* The pending codes.                                                         *)

PendingIn(rs, c, now) == {r \in rs : r.peer.channel = c /\ Live(r, now)}

(* A loop about to insert a code has counted fewer than the limit, at the     *)
(* time it read; since then codes of its channel have only gone.              *)
CapInv ==
  /\ IsFiniteSet(requests) /\ \A r \in requests : r.expires \in Nat
  /\ \A c \in cf.channels : loop[c] # Idle => loop[c].at <= clock
  /\ \A c \in cf.channels : Cardinality(PendingIn(requests, c, clock)) <= cf.maxPending
  /\ \A c \in cf.channels : loop[c].pc = "issue" =>
       Cardinality(PendingIn(requests, c, loop[c].at)) < cf.maxPending

(* Requests that go and time that passes leave no more codes pending.         *)
LEMMA PendingShrinks ==
  ASSUME NEW rs, IsFiniteSet(rs), \A r \in rs : r.expires \in Nat, NEW ss \in SUBSET rs,
         NEW c, NEW t \in Nat, NEW u \in Nat, t <= u
  PROVE  /\ IsFiniteSet(PendingIn(ss, c, u))
         /\ Cardinality(PendingIn(ss, c, u)) \in Nat /\ Cardinality(PendingIn(rs, c, t)) \in Nat
         /\ Cardinality(PendingIn(ss, c, u)) <= Cardinality(PendingIn(rs, c, t))
<1>1. PendingIn(rs, c, t) \in SUBSET rs
  BY Zenon DEF PendingIn
<1>2. PendingIn(ss, c, u) \in SUBSET PendingIn(rs, c, t)
  BY DEF PendingIn, Live
<1>3. IsFiniteSet(PendingIn(rs, c, t))
  BY Zenon, <1>1, FS_Subset
<1>4. /\ IsFiniteSet(PendingIn(ss, c, u))
      /\ Cardinality(PendingIn(ss, c, u)) <= Cardinality(PendingIn(rs, c, t))
  BY Zenon, <1>2, <1>3, FS_Subset
<1> QED
  BY Zenon, <1>3, <1>4, FS_CardinalityType

(* One request inserted is at most one more code pending on its channel.      *)
LEMMA PendingGrows ==
  ASSUME NEW rs, IsFiniteSet(rs), \A r \in rs : r.expires \in Nat, NEW ss \in SUBSET rs, NEW x,
         NEW c, NEW t \in Nat, NEW u \in Nat, t <= u
  PROVE  Cardinality(PendingIn(ss \union {x}, c, u)) <= Cardinality(PendingIn(rs, c, t)) + 1
<1> DEFINE P == PendingIn(ss, c, u)
<1>1. /\ IsFiniteSet(P) /\ Cardinality(P) \in Nat /\ Cardinality(PendingIn(rs, c, t)) \in Nat
      /\ Cardinality(P) <= Cardinality(PendingIn(rs, c, t))
  BY Zenon, PendingShrinks
<1>2. PendingIn(ss \union {x}, c, u) \in SUBSET (P \union {x})
  BY Zenon DEF PendingIn
<1> HIDE DEF P
<1>3. IsFiniteSet(P \union {x}) /\ Cardinality(P \union {x}) <= Cardinality(P) + 1
  <2>1. /\ IsFiniteSet(P \union {x})
        /\ Cardinality(P \union {x}) = IF x \in P THEN Cardinality(P) ELSE Cardinality(P) + 1
    BY Zenon, <1>1, FS_AddElement
  <2> QED
    BY <1>1, <2>1
<1>4. /\ IsFiniteSet(PendingIn(ss \union {x}, c, u))
      /\ Cardinality(PendingIn(ss \union {x}, c, u)) <= Cardinality(P \union {x})
  BY ZenonT(30), <1>2, <1>3, FS_Subset
<1>5. Cardinality(PendingIn(ss \union {x}, c, u)) \in Nat /\ Cardinality(P \union {x}) \in Nat
  BY Zenon, <1>3, <1>4, FS_CardinalityType
<1> QED
  BY <1>1, <1>3, <1>4, <1>5

(* A loop that stays, rests, or goes to a point other than the insertion.     *)
LoopTame(d) ==
  \/ loop'[d] = loop[d]
  \/ loop'[d] = Idle
  \/ loop'[d].pc # "issue" /\ loop'[d].at \in Nat /\ loop'[d].at <= clock'

(* A step that inserts no request and brings no loop to an insertion.         *)
LEMMA CapKept ==
  ASSUME LineInv, LineInv', CapInv, UNCHANGED cf, requests' \subseteq requests, clock <= clock',
         \A d \in cf.channels : LoopTame(d)
  PROVE  CapInv'
<1>1. clock \in Nat /\ clock' \in Nat /\ cf.maxPending \in Nat
  BY Zenon, ScenariosAssumption DEF LineInv
<1>2. IsFiniteSet(requests') /\ \A r \in requests' : r.expires \in Nat
  <2>1. IsFiniteSet(requests) /\ \A r \in requests : r.expires \in Nat
    BY Zenon DEF CapInv
  <2>2. requests' \in SUBSET requests
    BY Zenon
  <2> QED
    BY Zenon, <2>1, <2>2, FS_Subset
<1>3. ASSUME NEW d \in cf.channels, loop'[d] # Idle PROVE loop'[d].at <= clock'
  <2>1. CASE loop'[d] = loop[d]
    <3>1. loop[d].at \in Nat
      BY ZenonT(30), <1>3, <2>1 DEF LineInv, InLine, WorkOf
    <3> QED
      BY <1>1, <1>3, <2>1, <3>1 DEF CapInv
  <2>2. CASE loop'[d] # loop[d]
    BY Zenon, <1>3, <2>2 DEF LoopTame
  <2> QED
    BY Zenon, <2>1, <2>2
<1>4. ASSUME NEW d \in cf.channels
      PROVE  Cardinality(PendingIn(requests', d, clock')) <= cf.maxPending
  <2>1. /\ Cardinality(PendingIn(requests', d, clock')) \in Nat
        /\ Cardinality(PendingIn(requests, d, clock)) \in Nat
        /\ Cardinality(PendingIn(requests', d, clock')) <= Cardinality(PendingIn(requests, d, clock))
    BY Zenon, <1>1, PendingShrinks DEF CapInv
  <2> QED
    BY <1>1, <2>1 DEF CapInv
<1>5. ASSUME NEW d \in cf.channels, loop'[d].pc = "issue"
      PROVE  Cardinality(PendingIn(requests', d, loop'[d].at)) < cf.maxPending
  <2>1. loop'[d] = loop[d] /\ loop[d].pc = "issue"
    BY <1>5 DEF LoopTame, Idle
  <2>2. loop[d].at \in Nat
    <3>1. loop[d] # Idle
      BY <2>1 DEF Idle
    <3> QED
      BY ZenonT(30), <3>1 DEF LineInv, InLine, WorkOf
  <2>3. PICK t \in Nat : t = loop[d].at
    BY Zenon, <2>2
  <2>4. /\ Cardinality(PendingIn(requests', d, t)) \in Nat
        /\ Cardinality(PendingIn(requests, d, t)) \in Nat
        /\ Cardinality(PendingIn(requests', d, t)) <= Cardinality(PendingIn(requests, d, t))
    <3>1. IsFiniteSet(requests) /\ \A r \in requests : r.expires \in Nat
      BY Zenon DEF CapInv
    <3>2. requests' \in SUBSET requests /\ t <= t
      OBVIOUS
    <3> QED
      BY Zenon, <3>1, <3>2, PendingShrinks
  <2> QED
    BY <1>1, <2>1, <2>3, <2>4 DEF CapInv
<1> QED
  BY Zenon, <1>2, <1>3, <1>4, <1>5 DEF CapInv


(* A message taken from the queue is not about to insert a code.              *)
LEMMA TakeTame ==
  ASSUME Scopes, NEW c \in cf.channels, NEW q, Take(c, q), clock' \in Nat
  PROVE  \A d \in cf.channels : LoopTame(d)
<1>1. PICK m : loop' = [loop EXCEPT ![c] = CheckBegins(m)] \/ loop' = [loop EXCEPT ![c] = Idle]
  BY Zenon DEF Take
<1>2. CheckBegins(m).pc # "issue" /\ CheckBegins(m).at = 0
  BY Zenon DEF CheckBegins
<1>3. \A d \in cf.channels : loop'[d] = loop[d] \/ loop'[d] = Idle \/ loop'[d] = CheckBegins(m)
  BY Zenon, <1>1 DEF Scopes
<1> QED
  BY <1>2, <1>3 DEF LoopTame

(* The steps of a check that insert nothing and do not count.                 *)
LEMMA CheckTame ==
  ASSUME NEW c, NEW w \in WorkOf(cf, c), w.pc \in {"isPaired", "find", "prune"}, w.at <= clock,
         clock \in Nat
  PROVE  CheckStep(w).pc # "issue" /\ CheckStep(w).at \in Nat /\ CheckStep(w).at <= clock
<1>1. w.at \in Nat
  BY Zenon DEF WorkOf
<1>2. CASE w.pc = "isPaired"
  BY Zenon, <1>1, <1>2 DEF CheckStep, IsPaired, WorkOf
<1>3. CASE w.pc = "find"
  <2>1. PICK p \in {"refused", "prune"} : FindRequest(w) = [w EXCEPT !.at = clock, !.pc = p]
    BY Zenon DEF FindRequest
  <2>2. CheckStep(w) = [w EXCEPT !.at = clock, !.pc = p]
    BY Zenon, <1>3, <2>1 DEF CheckStep
  <2>3. CheckStep(w).pc = p /\ CheckStep(w).at = clock
    BY Zenon, <2>2 DEF WorkOf
  <2> QED
    BY <2>1, <2>3
<1>4. CASE w.pc = "prune"
  BY Zenon, <1>1, <1>4 DEF CheckStep, WorkOf
<1> QED
  BY Zenon, <1>2, <1>3, <1>4

(* Every step of a check keeps the codes of its channel within the limit.     *)
LEMMA CheckCapped ==
  ASSUME LineInv, LineInv', CapInv, NEW c \in cf.channels, AccessCheck(c)
  PROVE  CapInv'
<1> DEFINE w == loop[c]
<1>1. /\ w.pc \in Checking /\ loop' = [loop EXCEPT ![c] = CheckStep(w)] /\ CheckWrites(w)
      /\ UNCHANGED <<cf, clock>>
  BY Zenon DEF AccessCheck
<1>2. w # Idle /\ w \in WorkOf(cf, c)
  <2>1. w.pc # "idle"
    BY Zenon, <1>1 DEF Checking
  <2>2. w # Idle
    BY <2>1 DEF Idle
  <2> QED
    BY ZenonT(30), <2>2 DEF LineInv, InLine
<1>3. w.at \in Nat /\ w.at <= clock /\ clock \in Nat /\ issued \in Nat
  BY Zenon, <1>2 DEF WorkOf, LineInv, CapInv
<1>4. /\ loop'[c] = CheckStep(w) /\ \A d \in cf.channels \ {c} : loop'[d] = loop[d]
  BY Zenon, <1>1 DEF LineInv, Scopes
<1>5. w.pc \in {"isPaired", "find", "prune", "count", "issue"}
  BY Zenon, <1>1 DEF Checking
<1>6. w.msg.peer.channel = c
  BY Zenon, <1>2 DEF WorkOf, Of
<1> HIDE DEF w
<1>7. CASE w.pc \in {"isPaired", "find", "prune"}
  <2>1. requests' \subseteq requests
    BY Zenon, <1>1, <1>7 DEF CheckWrites, PruneRequests
  <2>2. CheckStep(w).pc # "issue" /\ CheckStep(w).at \in Nat /\ CheckStep(w).at <= clock
    BY Zenon, <1>2, <1>3, <1>7, CheckTame
  <2>3. \A d \in cf.channels : LoopTame(d)
    BY Zenon, <1>1, <1>4, <2>2 DEF LoopTame
  <2> QED
    BY <1>1, <1>3, <2>1, <2>3, CapKept
<1>8. CASE w.pc = "count"
  <2>1. requests' = requests
    BY Zenon, <1>1, <1>8 DEF CheckWrites
  <2>2. CheckStep(w) = CountPending(w)
    BY Zenon, <1>8 DEF CheckStep
  <2>3. CheckStep(w).at = w.at
    BY Zenon, <1>2, <2>2 DEF CountPending, WorkOf
  <2>4. CheckStep(w).pc = "issue" => Cardinality(PendingIn(requests, c, w.at)) < cf.maxPending
    <3>1. Cardinality(PendingIn(requests, c, w.at)) \in Nat /\ cf.maxPending \in Nat
      BY ZenonT(30), <1>3, PendingShrinks, ScenariosAssumption DEF CapInv, LineInv
    <3>2. Pending(c, w.at) = PendingIn(requests, c, w.at)
      BY Zenon DEF Pending, PendingIn
    <3> QED
      BY SMTT(30), <1>2, <1>6, <2>2, <3>1, <3>2 DEF CountPending, WorkOf
  <2>5. \A d \in cf.channels : loop'[d] # Idle => loop'[d].at <= clock
    BY Zenon, <1>3, <1>4, <2>3 DEF CapInv
  <2>6. \A d \in cf.channels : loop'[d].pc = "issue" =>
          Cardinality(PendingIn(requests, d, loop'[d].at)) < cf.maxPending
    BY Zenon, <1>4, <2>3, <2>4 DEF CapInv
  <2> QED
    BY Zenon, <1>1, <2>1, <2>5, <2>6 DEF CapInv
<1>9. CASE w.pc = "issue"
  <2>1. PICK x : x = [peer |-> w.msg.peer, code |-> issued + 1, expires |-> w.at + cf.ttl]
    BY Zenon
  <2>2. PICK rs : rs = {r \in requests : r.peer # w.msg.peer}
    BY ZenonT(30)
  <2>3. requests' = rs \union {x}
    BY Zenon, <1>1, <1>9, <2>1, <2>2 DEF CheckWrites, UpsertRequest
  <2>4. x.expires \in Nat /\ x.peer.channel = c
    BY <1>3, <1>6, <2>1, ScenariosAssumption DEF LineInv
  <2>5. rs \in SUBSET requests /\ IsFiniteSet(requests) /\ \A r \in requests : r.expires \in Nat
    BY Zenon, <2>2 DEF CapInv
  <2>6. IsFiniteSet(requests') /\ \A r \in requests' : r.expires \in Nat
    <3>1. IsFiniteSet(rs)
      BY Zenon, <2>5, FS_Subset
    <3>2. IsFiniteSet(rs \union {x})
      BY Zenon, <3>1, FS_AddElement
    <3> QED
      BY Zenon, <2>3, <2>4, <2>5, <3>2
  <2>7. CheckStep(w).pc = "refused" /\ CheckStep(w).at = w.at
    BY ZenonT(30), <1>2, <1>9 DEF CheckStep, IssueCode, WorkOf
  <2>8. cf.maxPending \in Nat
    BY Zenon, ScenariosAssumption DEF LineInv
  <2>9. Cardinality(PendingIn(requests', c, clock)) <= cf.maxPending
    <3>1. Cardinality(PendingIn(requests, c, w.at)) < cf.maxPending
      BY Zenon, <1>9 DEF CapInv, w
    <3>2. Cardinality(PendingIn(rs \union {x}, c, clock)) <= Cardinality(PendingIn(requests, c, w.at)) + 1
      BY ZenonT(30), <1>3, <2>5, PendingGrows
    <3>3. Cardinality(PendingIn(requests, c, w.at)) \in Nat
      BY Zenon, <1>3, <2>5, PendingShrinks
    <3>4. Cardinality(PendingIn(requests', c, clock)) \in Nat
      <4>1. PendingIn(requests', c, clock) \in SUBSET requests'
        BY Zenon DEF PendingIn
      <4> QED
        BY Zenon, <2>6, <4>1, FS_Subset, FS_CardinalityType
    <3> QED
      BY SMTT(30), <2>3, <2>8, <3>1, <3>2, <3>3, <3>4
  <2>10. ASSUME NEW d \in cf.channels \ {c}, NEW t \in Nat
         PROVE  /\ Cardinality(PendingIn(requests', d, t)) <= Cardinality(PendingIn(requests, d, t))
                /\ Cardinality(PendingIn(requests', d, t)) \in Nat
                /\ Cardinality(PendingIn(requests, d, t)) \in Nat
    <3>1. PendingIn(requests', d, t) = PendingIn(rs, d, t)
      BY Zenon, <2>3, <2>4 DEF PendingIn
    <3>2. t <= t
      OBVIOUS
    <3> QED
      BY Zenon, <2>5, <3>1, <3>2, PendingShrinks
  <2>11. ASSUME NEW d \in cf.channels
         PROVE  Cardinality(PendingIn(requests', d, clock)) <= cf.maxPending
    <3>1. CASE d = c
      BY Zenon, <2>9, <3>1
    <3>2. CASE d # c
      BY SMTT(30), <1>3, <2>8, <2>10, <3>2 DEF CapInv
    <3> QED
      BY Zenon, <3>1, <3>2
  <2>12. ASSUME NEW d \in cf.channels, loop'[d].pc = "issue"
         PROVE  Cardinality(PendingIn(requests', d, loop'[d].at)) < cf.maxPending
    <3>1. d # c /\ loop'[d] = loop[d]
      BY Zenon, <1>4, <2>7, <2>12
    <3>2. loop[d] # Idle
      BY <2>12, <3>1 DEF Idle
    <3>3. loop[d].at \in Nat
      BY Zenon, <3>2 DEF LineInv, InLine, WorkOf
    <3> QED
      BY <2>8, <2>10, <2>12, <3>1, <3>3 DEF CapInv
  <2>13. \A d \in cf.channels : loop'[d] # Idle => loop'[d].at <= clock
    BY Zenon, <1>3, <1>4, <2>7 DEF CapInv
  <2> QED
    BY ZenonT(30), <1>1, <2>6, <2>11, <2>12, <2>13 DEF CapInv
<1> QED
  BY Zenon, <1>5, <1>7, <1>8, <1>9


(* The steps of a drain loop other than its check insert nothing.             *)
LEMMA LoopCapped ==
  ASSUME LineInv, LineInv', CapInv, NEW c \in cf.channels,
         AccessThrows(c) \/ Refuse(c) \/ Handle(c) \/ Handled(c) \/ Replied(c)
  PROVE  CapInv'
<1>1. loop[c].pc # "idle" /\ UNCHANGED <<cf, clock, requests>>
  BY Zenon DEF AccessThrows, Refuse, Handle, Handled, Replied, accessVars, Checking
<1>2. loop[c] # Idle
  BY <1>1 DEF Idle
<1>3. loop[c] \in WorkOf(cf, c) /\ loop[c].at <= clock /\ clock \in Nat /\ DOMAIN loop = cf.channels
  BY ZenonT(30), <1>2 DEF LineInv, InLine, CapInv, Scopes
<1>4. \/ Take(c, queue[c])
      \/ \E x \in {"handling", "reply"} : loop' = [loop EXCEPT ![c] = [loop[c] EXCEPT !.pc = x]]
  BY Zenon, <1>3 DEF AccessThrows, Refuse, Handle, Handled, Replied, Finish
<1>0. cf' = cf /\ requests' \subseteq requests /\ clock <= clock'
  BY SMTT(30), <1>1, <1>3
<1>5. CASE Take(c, queue[c])
  <2>1. \A d \in cf.channels : LoopTame(d)
    BY Zenon, <1>1, <1>3, <1>5, TakeTame DEF LineInv
  <2> QED
    BY ZenonT(30), <1>0, <2>1, CapKept
<1>6. CASE \E x \in {"handling", "reply"} : loop' = [loop EXCEPT ![c] = [loop[c] EXCEPT !.pc = x]]
  <2>1. PICK x \in {"handling", "reply"} : loop' = [loop EXCEPT ![c] = [loop[c] EXCEPT !.pc = x]]
    BY Zenon, <1>6
  <2>2. PICK w : w = [loop[c] EXCEPT !.pc = x]
    BY Zenon
  <2>3. w.pc # "issue" /\ w.at \in Nat /\ w.at <= clock
    BY Zenon, <1>3, <2>1, <2>2 DEF WorkOf
  <2>4. \A d \in cf.channels : loop'[d] = loop[d] \/ loop'[d] = w
    BY Zenon, <1>3, <2>1, <2>2
  <2>5. \A d \in cf.channels : LoopTame(d)
    BY Zenon, <1>1, <2>3, <2>4 DEF LoopTame
  <2> QED
    BY Zenon, <1>0, <2>5, CapKept
<1> QED
  BY Zenon, <1>4, <1>5, <1>6

(* A message handed over begins at most a check.                              *)
LEMMA InboundCapped ==
  ASSUME LineInv, LineInv', CapInv, NEW p \in cf.peers, Inbound(p)
  PROVE  CapInv'
<1>1. UNCHANGED <<cf, clock, requests>> /\ clock \in Nat /\ p.channel \in cf.channels
  BY ZenonT(30), ScenariosAssumption DEF Inbound, accessVars, LineInv
<1>2. loop' = loop \/ \E q : Take(p.channel, q)
  BY Zenon DEF Inbound, Drain
<1>3. \A d \in cf.channels : LoopTame(d)
  <2>1. CASE loop' = loop
    BY Zenon, <2>1 DEF LoopTame
  <2>2. CASE \E q : Take(p.channel, q)
    BY Zenon, <1>1, <2>2, TakeTame DEF LineInv
  <2> QED
    BY Zenon, <1>2, <2>1, <2>2
<1> QED
  BY SMTT(30), <1>1, <1>3, CapKept

(* Every step keeps the codes pending on a channel within maxPending.         *)
LEMMA CapStep == LineInv /\ LineInv' /\ CapInv /\ [Next]_vars => CapInv'
<1> SUFFICES ASSUME LineInv, LineInv', CapInv, [Next]_vars PROVE CapInv'
  BY Zenon
<1>1. ASSUME UNCHANGED <<cf, loop>>, requests' \subseteq requests, clock <= clock' PROVE CapInv'
  <2>1. \A d \in cf.channels : LoopTame(d)
    BY Zenon, <1>1 DEF LoopTame
  <2> QED
    BY Zenon, <1>1, <2>1, CapKept
<1>2. clock \in Nat
  BY Zenon DEF LineInv
<1>3. CASE AccessNext
  <2>1. UNCHANGED <<cf, loop>> /\ (clock' = clock \/ clock' = clock + 1)
    BY Zenon, <1>3 DEF AccessNext, Operator, ApproveFinds, ApproveDeletes, ApprovePairs, ApproveFails, Revoke, Tick, gatewayVars
  <2>2. requests' \subseteq requests
    BY Zenon, <1>3 DEF AccessNext, Operator, ApproveFinds, ApproveDeletes, ApprovePairs, ApproveFails, Revoke, Tick, accessVars
  <2> QED
    BY <1>1, <1>2, <2>1, <2>2
<1>4. CASE GatewayNext
  <2>1. CASE \E p \in cf.peers : Inbound(p)
    BY Zenon, <2>1, InboundCapped
  <2>2. CASE \E c \in cf.channels : LoopStep(c)
    BY Zenon, <2>2, CheckCapped, LoopCapped DEF LoopStep
  <2>3. CASE HostStep
    <3>1. UNCHANGED <<cf, loop, clock, requests>>
      BY ZenonT(30), <2>3 DEF HostStep, Start, AdapterStarts, AdapterFails, Stop, AdapterStops, Stopped, accessVars
    <3> QED
      BY SMTT(30), <1>1, <1>2, <3>1
  <2> QED
    BY Zenon, <1>4, <2>1, <2>2, <2>3 DEF GatewayNext
<1>5. CASE ProactiveNext
  <2>1. UNCHANGED doorVars
    BY Zenon, <1>5, ProactiveFrame DEF LineInv
  <2>2. UNCHANGED <<cf, loop, clock, requests>>
    BY <2>1 DEF doorVars, accessVars, gatewayVars
  <2> QED
    BY <1>1, <1>2, <2>2
<1>6. CASE UNCHANGED vars
  <2>1. UNCHANGED <<cf, loop, clock, requests>>
    BY Zenon, <1>6 DEF vars, accessVars, gatewayVars
  <2> QED
    BY <1>1, <1>2, <2>1
<1> QED
  BY Zenon, <1>3, <1>4, <1>5, <1>6 DEF Next

(* No code is pending at first.                                               *)
LEMMA CapInit == Init => CapInv
<1> SUFFICES ASSUME Init PROVE CapInv
  BY Zenon
<1>1. /\ cf \in Scenarios /\ requests = {} /\ clock = 0
      /\ loop = [c \in cf.channels |-> Idle]
  BY Zenon DEF Init, AccessInit, GatewayInit
<1>2. \A c : PendingIn({}, c, clock) = {}
  BY Zenon DEF PendingIn
<1>3. IsFiniteSet({}) /\ Cardinality({}) = 0
  BY Zenon, FS_EmptySet
<1>4. cf.maxPending \in Nat
  BY Zenon, <1>1, ScenariosAssumption
<1>5. Idle.pc # "issue"
  BY Zenon DEF Idle
<1> QED
  BY <1>1, <1>2, <1>3, <1>4, <1>5 DEF CapInv

(* The pairing codes pending on a channel never exceed its maxPending, though *)
(* check() counts and inserts in separate store calls: one drain loop serves  *)
(* a channel, and codes only disappear in between.                            *)
THEOREM CappedSafe == Spec => []PendingCapped
<1>1. CapInv => PendingCapped
  BY Zenon DEF CapInv, PendingCapped, Pending, PendingIn
<1> QED
  BY <1>1, DoorInit, DoorStep, CapInit, CapStep, PTL DEF Spec

-----------------------------------------------------------------------------
(* The proactive runners: a runner in flight occupies one slot, a runner that *)
(* is not occupies none, and its agent is busy only for that slot's run.      *)

SlotStates == [pc : {"idle", "checklist", "session", "run", "deny", "deliver"},
               kind : {"none", "notify", "question", "review", "act"}]

HeartStates == [running : BOOLEAN, inFlight : BOOLEAN, armed : BOOLEAN, defers : Int,
                slot : [Slots -> SlotStates]]
TaskStates == [running : BOOLEAN, inFlight : BOOLEAN, slot : [Slots -> SlotStates]]

Alone(name, slot, flight, b) ==
  /\ \A i, j \in Slots : slot[i] # Ended /\ slot[j] # Ended => i = j
  /\ name \in b => \E i \in Slots : slot[i].pc \in {"run", "deny"}
  /\ flight = FALSE => \A i \in Slots : slot[i] = Ended

RunnerInv ==
  /\ heart \in HeartStates /\ task \in TaskStates
  /\ Alone("heart", heart.slot, heart.inFlight, busy)
  /\ Alone("task", task.slot, task.inFlight, busy)
  /\ collided = {}

(* The end of a beat or of a fire empties its slot.                           *)
LEMMA SlotOver ==
  ASSUME NEW n, NEW s \in [Slots -> SlotStates], NEW f, NEW b, NEW b2, NEW i \in Slots,
         Alone(n, s, f, b), s[i] # Ended, n \notin b2
  PROVE  /\ [s EXCEPT ![i] = Ended] \in [Slots -> SlotStates]
         /\ Alone(n, [s EXCEPT ![i] = Ended], FALSE, b2)
<1>1. Ended \in SlotStates
  BY Zenon DEF Ended, SlotStates
<1> HIDE DEF Ended
<1>2. \A j \in Slots : [s EXCEPT ![i] = Ended][j] = Ended
  BY Zenon DEF Alone
<1> QED
  BY Zenon, <1>1, <1>2 DEF Alone

(* A beat or a fire under way moves on in its slot.                           *)
LEMMA SlotMoves ==
  ASSUME NEW n, NEW s \in [Slots -> SlotStates], NEW f, NEW b, NEW b2, NEW i \in Slots,
         NEW x \in SlotStates, Alone(n, s, f, b), s[i] # Ended, x # Ended,
         n \in b2 => x.pc \in {"run", "deny"}
  PROVE  /\ [s EXCEPT ![i] = x] \in [Slots -> SlotStates]
         /\ Alone(n, [s EXCEPT ![i] = x], f, b2)
<1>1. [s EXCEPT ![i] = x] \in [Slots -> SlotStates]
  BY Zenon
<1>2. \A j \in Slots : [s EXCEPT ![i] = x][j] = IF j = i THEN x ELSE s[j]
  BY Zenon
<1>3. \A j \in Slots : j # i => s[j] = Ended
  BY Zenon DEF Alone
<1>4. f # FALSE
  BY Zenon DEF Alone
<1> QED
  BY Zenon, <1>1, <1>2, <1>3, <1>4 DEF Alone

(* A beat or a fire begins in a free slot of a runner that is not in flight.  *)
LEMMA SlotBegins ==
  ASSUME NEW n, NEW s \in [Slots -> SlotStates], NEW b, NEW i \in Slots, NEW x \in SlotStates,
         Alone(n, s, FALSE, b)
  PROVE  /\ [s EXCEPT ![i] = x] \in [Slots -> SlotStates]
         /\ Alone(n, [s EXCEPT ![i] = x], TRUE, b)
<1>1. [s EXCEPT ![i] = x] \in [Slots -> SlotStates]
  BY Zenon
<1>2. \A j \in Slots : [s EXCEPT ![i] = x][j] = IF j = i THEN x ELSE s[j]
  BY Zenon
<1>3. \A j \in Slots : s[j] = Ended
  BY Zenon DEF Alone
<1>4. n \notin b
  <2>1. \A j \in Slots : s[j].pc = "idle"
    BY <1>3 DEF Ended
  <2> QED
    BY Zenon, <2>1 DEF Alone
<1> QED
  BY Zenon, <1>1, <1>2, <1>3, <1>4 DEF Alone

(* The agent of a runner is idle unless the slot under way is in its run.     *)
LEMMA AgentIdle ==
  ASSUME NEW n, NEW s \in [Slots -> SlotStates], NEW f, NEW b, NEW i \in Slots,
         Alone(n, s, f, b), s[i].pc \notin {"idle", "run", "deny"}
  PROVE  n \notin b
<1>1. \A j \in Slots : s[j].pc # "idle" => s[j] # Ended
  BY DEF Ended
<1> QED
  BY Zenon, <1>1 DEF Alone

(* What the other runner does with its own agent is no concern of this one.   *)
LEMMA AloneKept ==
  ASSUME NEW n, NEW s, NEW f, NEW b, NEW b2, Alone(n, s, f, b), n \in b2 => n \in b
  PROVE  Alone(n, s, f, b2)
BY Zenon DEF Alone


(* The beat ends: its slot is empty and it is no longer in flight.         *)
LEMMA HeartOver ==
  ASSUME RunnerInv, NEW i \in Slots, heart.slot[i].pc # "idle", heart' = Over(heart, i),
         "heart" \notin busy', "task" \in busy' => "task" \in busy, UNCHANGED <<task, collided>>
  PROVE  RunnerInv'
<1>1. heart \in HeartStates /\ Alone("heart", heart.slot, heart.inFlight, busy) /\ heart.slot \in [Slots -> SlotStates]
  BY Zenon DEF RunnerInv, HeartStates
<1>2. heart.slot[i] # Ended
  BY DEF Ended
<1>3. PICK s : s = [heart.slot EXCEPT ![i] = Ended]
  BY Zenon
<1>4. heart' = [heart EXCEPT !.slot = s, !.inFlight = FALSE]
  BY Zenon, <1>1, <1>3 DEF Over, HeartStates
<1>5. s \in [Slots -> SlotStates] /\ Alone("heart", s, FALSE, busy')
  BY Zenon, <1>1, <1>2, <1>3, SlotOver
<1>6. heart' \in HeartStates /\ heart'.slot = s /\ heart'.inFlight = FALSE
  BY ZenonT(30), <1>1, <1>4, <1>5 DEF HeartStates
<1>7. Alone("heart", heart'.slot, heart'.inFlight, busy')
  BY Zenon, <1>5, <1>6
<1>8. Alone("task", task'.slot, task'.inFlight, busy')
  BY Zenon, AloneKept DEF RunnerInv
<1> QED
  BY Zenon, <1>6, <1>7, <1>8 DEF RunnerInv

(* The beat under way moves on.                                            *)
LEMMA HeartMoves ==
  ASSUME RunnerInv, NEW i \in Slots, heart.slot[i].pc # "idle", NEW x \in SlotStates, x.pc # "idle",
         heart' = [heart EXCEPT !.slot[i] = x], "heart" \in busy' => x.pc \in {"run", "deny"},
         "task" \in busy' => "task" \in busy, UNCHANGED <<task, collided>>
  PROVE  RunnerInv'
<1>1. heart \in HeartStates /\ Alone("heart", heart.slot, heart.inFlight, busy) /\ heart.slot \in [Slots -> SlotStates]
  BY Zenon DEF RunnerInv, HeartStates
<1>2. heart.slot[i] # Ended /\ x # Ended
  BY DEF Ended
<1>3. PICK s : s = [heart.slot EXCEPT ![i] = x]
  BY Zenon
<1>4. heart' = [heart EXCEPT !.slot = s]
  BY Zenon, <1>1, <1>3 DEF HeartStates
<1>5. s \in [Slots -> SlotStates] /\ Alone("heart", s, heart.inFlight, busy')
  BY Zenon, <1>1, <1>2, <1>3, SlotMoves
<1>6. heart' \in HeartStates /\ heart'.slot = s /\ heart'.inFlight = heart.inFlight
  BY Zenon, <1>1, <1>4, <1>5 DEF HeartStates
<1>7. Alone("heart", heart'.slot, heart'.inFlight, busy')
  BY Zenon, <1>5, <1>6
<1>8. Alone("task", task'.slot, task'.inFlight, busy')
  BY Zenon, AloneKept DEF RunnerInv
<1> QED
  BY Zenon, <1>6, <1>7, <1>8 DEF RunnerInv

(* The fire ends: its slot is empty and it is no longer in flight.         *)
LEMMA TaskOver ==
  ASSUME RunnerInv, NEW i \in Slots, task.slot[i].pc # "idle", task' = Over(task, i),
         "task" \notin busy', "heart" \in busy' => "heart" \in busy, UNCHANGED <<heart, collided>>
  PROVE  RunnerInv'
<1>1. task \in TaskStates /\ Alone("task", task.slot, task.inFlight, busy) /\ task.slot \in [Slots -> SlotStates]
  BY Zenon DEF RunnerInv, TaskStates
<1>2. task.slot[i] # Ended
  BY DEF Ended
<1>3. PICK s : s = [task.slot EXCEPT ![i] = Ended]
  BY Zenon
<1>4. task' = [task EXCEPT !.slot = s, !.inFlight = FALSE]
  BY Zenon, <1>1, <1>3 DEF Over, TaskStates
<1>5. s \in [Slots -> SlotStates] /\ Alone("task", s, FALSE, busy')
  BY Zenon, <1>1, <1>2, <1>3, SlotOver
<1>6. task' \in TaskStates /\ task'.slot = s /\ task'.inFlight = FALSE
  BY Zenon, <1>1, <1>4, <1>5 DEF TaskStates
<1>7. Alone("task", task'.slot, task'.inFlight, busy')
  BY Zenon, <1>5, <1>6
<1>8. Alone("heart", heart'.slot, heart'.inFlight, busy')
  BY Zenon, AloneKept DEF RunnerInv
<1> QED
  BY Zenon, <1>6, <1>7, <1>8 DEF RunnerInv

(* The fire under way moves on.                                            *)
LEMMA TaskMoves ==
  ASSUME RunnerInv, NEW i \in Slots, task.slot[i].pc # "idle", NEW x \in SlotStates, x.pc # "idle",
         task' = [task EXCEPT !.slot[i] = x], "task" \in busy' => x.pc \in {"run", "deny"},
         "heart" \in busy' => "heart" \in busy, UNCHANGED <<heart, collided>>
  PROVE  RunnerInv'
<1>1. task \in TaskStates /\ Alone("task", task.slot, task.inFlight, busy) /\ task.slot \in [Slots -> SlotStates]
  BY Zenon DEF RunnerInv, TaskStates
<1>2. task.slot[i] # Ended /\ x # Ended
  BY DEF Ended
<1>3. PICK s : s = [task.slot EXCEPT ![i] = x]
  BY Zenon
<1>4. task' = [task EXCEPT !.slot = s]
  BY Zenon, <1>1, <1>3 DEF TaskStates
<1>5. s \in [Slots -> SlotStates] /\ Alone("task", s, task.inFlight, busy')
  BY <1>1, <1>2, <1>3, SlotMoves
<1>6. task' \in TaskStates /\ task'.slot = s /\ task'.inFlight = task.inFlight
  BY Zenon, <1>1, <1>4, <1>5 DEF TaskStates
<1>7. Alone("task", task'.slot, task'.inFlight, busy')
  BY Zenon, <1>5, <1>6
<1>8. Alone("heart", heart'.slot, heart'.inFlight, busy')
  BY Zenon, AloneKept DEF RunnerInv
<1> QED
  BY Zenon, <1>6, <1>7, <1>8 DEF RunnerInv


(* beat(), up to its first await, notes the beat it begins.                   *)
LEMMA BeatKeeps ==
  ASSUME NEW h \in HeartStates, Alone("heart", h.slot, h.inFlight, busy), NEW within
  PROVE  Beat(h, within) \in HeartStates /\ Alone("heart", Beat(h, within).slot, Beat(h, within).inFlight, busy)
<1>1. CASE h.inFlight
  BY Zenon, <1>1 DEF Beat
<1>2. CASE ~h.inFlight /\ ~within
  <2>1. Beat(h, within) = [h EXCEPT !.defers = 0]
    BY Zenon, <1>2 DEF Beat
  <2>2. Beat(h, within) \in HeartStates /\ Beat(h, within).slot = h.slot /\ Beat(h, within).inFlight = h.inFlight
    BY <2>1 DEF HeartStates
  <2> QED
    BY Zenon, <2>2
<1>3. CASE ~h.inFlight /\ within /\ Gate
  <2>1. Beat(h, within) = ArmDefer(h)
    BY Zenon, <1>3 DEF Beat
  <2>2. PICK k \in Int : k = h.defers + 1
    BY DEF HeartStates
  <2>3. Beat(h, within) = [h EXCEPT !.defers = 0] \/ Beat(h, within) = [h EXCEPT !.defers = k, !.armed = TRUE]
    BY Zenon, <2>1, <2>2 DEF ArmDefer
  <2>4. PICK g : g = [h EXCEPT !.defers = k]
    BY Zenon
  <2>5. g \in HeartStates /\ g.slot = h.slot /\ g.inFlight = h.inFlight
    BY Zenon, <2>2, <2>4 DEF HeartStates
  <2>6. [h EXCEPT !.defers = k, !.armed = TRUE] = [g EXCEPT !.armed = TRUE]
    BY Zenon, <2>4
  <2>7. [g EXCEPT !.armed = TRUE] \in HeartStates
    BY Zenon, <2>5 DEF HeartStates
  <2>8. [g EXCEPT !.armed = TRUE].slot = g.slot /\ [g EXCEPT !.armed = TRUE].inFlight = g.inFlight
    BY Zenon, <2>5 DEF HeartStates
  <2>9. /\ [h EXCEPT !.defers = 0] \in HeartStates
        /\ [h EXCEPT !.defers = 0].slot = h.slot /\ [h EXCEPT !.defers = 0].inFlight = h.inFlight
    BY SMTT(30) DEF HeartStates
  <2> QED
    BY Zenon, <2>3, <2>5, <2>6, <2>7, <2>8, <2>9
<1>4. CASE ~h.inFlight /\ within /\ ~Gate
  <2>1. PICK g : g = [h EXCEPT !.defers = 0, !.inFlight = TRUE]
    BY Zenon
  <2>2. g \in HeartStates /\ g.slot = h.slot /\ g.inFlight = TRUE /\ h.slot \in [Slots -> SlotStates]
    <3>1. PICK h0 : h0 = [h EXCEPT !.defers = 0]
      BY Zenon
    <3>2. h0 \in HeartStates /\ h0.slot = h.slot
      BY <3>1 DEF HeartStates
    <3>3. g = [h0 EXCEPT !.inFlight = TRUE]
      BY Zenon, <2>1, <3>1
    <3> QED
      BY Zenon, <3>2, <3>3 DEF HeartStates
  <2>3. h.inFlight = FALSE
    BY Zenon, <1>4 DEF HeartStates
  <2>4. Alone("heart", h.slot, FALSE, busy)
    BY ZenonT(30), <2>3
  <2>5. FreeSlot(h) \in Slots
    <3>1. \A i \in Slots : h.slot[i] = Ended
      BY Zenon, <2>4 DEF Alone
    <3>2. 1 \in Slots
      BY DEF Slots
    <3>3. \E i \in Slots : h.slot[i] = Ended
      BY Zenon, <3>1, <3>2
    <3> QED
      BY Zenon, <3>3 DEF FreeSlot
  <2>6. PICK i \in Slots : i = FreeSlot(h)
    BY Zenon, <2>5
  <2>7. PICK x : x = [h.slot[i] EXCEPT !.pc = "checklist"]
    BY Zenon
  <2>8. x \in SlotStates
    BY <2>2, <2>7 DEF SlotStates
  <2>9. PICK s : s = [h.slot EXCEPT ![i] = x]
    BY Zenon
  <2>10. s \in [Slots -> SlotStates] /\ Alone("heart", s, TRUE, busy)
    BY Zenon, <2>2, <2>4, <2>8, <2>9, SlotBegins
  <2>11. Beat(h, within) = At(g, i, "checklist")
    BY Zenon, <1>4, <2>1, <2>6 DEF Beat
  <2>12. At(g, i, "checklist") = [g EXCEPT !.slot = s]
    BY <2>2, <2>7, <2>9 DEF At, HeartStates
  <2>13. Beat(h, within) \in HeartStates /\ Beat(h, within).slot = s /\ Beat(h, within).inFlight = TRUE
    BY SMTT(30), <2>2, <2>10, <2>11, <2>12 DEF HeartStates
  <2> QED
    BY ZenonT(30), <2>10, <2>13
<1> QED
  BY <1>1, <1>2, <1>3, <1>4

(* A change of the heartbeat alone that keeps its slot.                       *)
LEMMA HeartKept ==
  ASSUME RunnerInv, heart' \in HeartStates, Alone("heart", heart'.slot, heart'.inFlight, busy),
         UNCHANGED <<task, busy, collided>>
  PROVE  RunnerInv'
BY Zenon DEF RunnerInv

(* A change of the task alone that keeps its slot.                            *)
LEMMA TaskKept ==
  ASSUME RunnerInv, task' \in TaskStates, Alone("task", task'.slot, task'.inFlight, busy),
         UNCHANGED <<heart, busy, collided>>
  PROVE  RunnerInv'
BY Zenon DEF RunnerInv

(* fire(), up to its first await, notes the fire it begins.                   *)
LEMMA FireKeeps ==
  ASSUME RunnerInv, NEW within \in BOOLEAN, task' = Fire(within), UNCHANGED <<heart, busy, collided>>
  PROVE  RunnerInv'
<1>1. /\ task \in TaskStates /\ Alone("task", task.slot, task.inFlight, busy)
      /\ UNCHANGED <<heart, busy, collided>>
  BY Zenon DEF RunnerInv
<1>2. CASE task.inFlight \/ ~within
  <2>1. task' = task
    BY Zenon, <1>2 DEF Fire
  <2> QED
    BY Zenon, <1>1, <2>1, TaskKept
<1>3. CASE ~task.inFlight /\ within
  <2>1. PICK g : g = [task EXCEPT !.inFlight = TRUE]
    BY Zenon
  <2>2. g \in TaskStates /\ g.slot = task.slot /\ g.inFlight = TRUE /\ task.slot \in [Slots -> SlotStates]
    BY Zenon, <1>1, <2>1 DEF TaskStates
  <2>3. task.inFlight = FALSE
    BY Zenon, <1>1, <1>3 DEF TaskStates
  <2>4. Alone("task", task.slot, FALSE, busy)
    BY Zenon, <1>1, <2>3
  <2>5. FreeSlot(task) \in Slots
    <3>1. \A i \in Slots : task.slot[i] = Ended
      BY Zenon, <2>4 DEF Alone
    <3>2. 1 \in Slots
      BY DEF Slots
    <3>3. \E i \in Slots : task.slot[i] = Ended
      BY <3>1, <3>2
    <3> QED
      BY Zenon, <3>3 DEF FreeSlot
  <2>6. PICK i \in Slots : i = FreeSlot(task)
    BY Zenon, <2>5
  <2>7. PICK x : x = [task.slot[i] EXCEPT !.pc = "session"]
    BY Zenon
  <2>8. x \in SlotStates
    BY <2>2, <2>7 DEF SlotStates
  <2>9. PICK s : s = [task.slot EXCEPT ![i] = x]
    BY Zenon
  <2>10. s \in [Slots -> SlotStates] /\ Alone("task", s, TRUE, busy)
    BY Zenon, <2>2, <2>4, <2>8, <2>9, SlotBegins
  <2>11. task' = At(g, i, "session")
    BY <1>3, <2>1, <2>6 DEF Fire
  <2>12. At(g, i, "session") = [g EXCEPT !.slot = s]
    BY Zenon, <2>2, <2>7, <2>9 DEF At, TaskStates
  <2>13. task' \in TaskStates /\ task'.slot = s /\ task'.inFlight = TRUE
    BY <2>2, <2>10, <2>11, <2>12 DEF TaskStates
  <2>14. Alone("task", task'.slot, task'.inFlight, busy)
    BY Zenon, <2>10, <2>13
  <2> QED
    BY <1>1, <2>13, <2>14, TaskKept
<1> QED
  BY Zenon, <1>2, <1>3


(* A slot of the heartbeat that moves to pc p.                                *)
LEMMA HeartAt ==
  ASSUME RunnerInv, NEW i \in Slots, heart.slot[i].pc # "idle",
         NEW p \in {"session", "run", "deliver"}, heart' = At(heart, i, p),
         "heart" \in busy' => p = "run", "task" \in busy' => "task" \in busy, UNCHANGED <<task, collided>>
  PROVE  RunnerInv'
<1>1. heart.slot[i] \in SlotStates
  BY Zenon DEF RunnerInv, HeartStates
<1>2. PICK x : x = [heart.slot[i] EXCEPT !.pc = p]
  BY Zenon
<1>3. x \in SlotStates /\ x.pc = p
  BY Zenon, <1>1, <1>2 DEF SlotStates
<1>4. heart' = [heart EXCEPT !.slot[i] = x]
  BY Zenon, <1>2 DEF At, RunnerInv, HeartStates
<1> QED
  BY Zenon, <1>3, <1>4, HeartMoves

(* A slot of the task that moves to pc p.                                     *)
LEMMA TaskAt ==
  ASSUME RunnerInv, NEW i \in Slots, task.slot[i].pc # "idle",
         NEW p \in {"run", "deny"}, task' = At(task, i, p),
         "heart" \in busy' => "heart" \in busy, UNCHANGED <<heart, collided>>
  PROVE  RunnerInv'
<1>1. task.slot[i] \in SlotStates
  BY Zenon DEF RunnerInv, TaskStates
<1>2. PICK x : x = [task.slot[i] EXCEPT !.pc = p]
  BY ZenonT(30)
<1>3. x \in SlotStates /\ x.pc = p
  BY <1>1, <1>2 DEF SlotStates
<1>4. task' = [task EXCEPT !.slot[i] = x]
  BY <1>2 DEF At, RunnerInv, TaskStates
<1> QED
  BY <1>3, <1>4, TaskMoves

(* Every step of a beat under way.                                            *)
LEMMA HeartStepKeeps ==
  ASSUME RunnerInv, NEW i \in Slots, HeartStep(i)
  PROVE  RunnerInv'
<1>1. ASSUME heart.slot[i].pc \in {"checklist", "session", "deliver"} PROVE "heart" \notin busy
  <2>1. heart.slot \in [Slots -> SlotStates] /\ Alone("heart", heart.slot, heart.inFlight, busy)
    BY Zenon DEF RunnerInv, HeartStates
  <2>2. heart.slot[i].pc \notin {"idle", "run", "deny"}
    BY Zenon, <1>1
  <2> QED
    BY <2>1, <2>2, AgentIdle
<1>2. CASE Checklist(i)
  <2>1. heart.slot[i].pc = "checklist" /\ UNCHANGED <<task, busy, collided>> /\ "heart" \notin busy
    BY Zenon, <1>1, <1>2 DEF Checklist
  <2>2. CASE heart' = Over(heart, i)
    BY <2>1, <2>2, HeartOver
  <2>3. CASE heart' = At(heart, i, "session")
    BY Zenon, <2>1, <2>3, HeartAt
  <2> QED
    BY <1>2, <2>2, <2>3 DEF Checklist
<1>3. CASE BeatRuns(i)
  <2>1. heart.slot[i].pc = "session" /\ "heart" \notin busy /\ UNCHANGED task
    BY Zenon, <1>1, <1>3 DEF BeatRuns
  <2>2. \/ heart' = At(heart, i, "run") /\ busy' = busy \union {"heart"} /\ UNCHANGED collided
        \/ heart' = Over(heart, i) /\ UNCHANGED <<busy, collided>>
    BY Zenon, <1>3, <2>1 DEF BeatRuns, RunBegins, AgentTaken
  <2>3. CASE heart' = At(heart, i, "run") /\ busy' = busy \union {"heart"} /\ UNCHANGED collided
    BY Zenon, <2>1, <2>3, HeartAt
  <2>4. CASE heart' = Over(heart, i) /\ UNCHANGED <<busy, collided>>
    BY Zenon, <2>1, <2>4, HeartOver
  <2> QED
    BY Zenon, <2>2, <2>3, <2>4
<1>4. CASE BeatRan(i)
  <2>1. heart.slot[i].pc = "run" /\ busy' = busy \ {"heart"} /\ UNCHANGED <<task, collided>>
    BY Zenon, <1>4 DEF BeatRan
  <2>2. CASE heart' = Over(heart, i)
    BY Zenon, <2>1, <2>2, HeartOver
  <2>3. CASE heart' = At(heart, i, "deliver")
    BY Zenon, <2>1, <2>3, HeartAt
  <2> QED
    BY Zenon, <1>4, <2>2, <2>3 DEF BeatRan
<1>5. CASE BeatDelivers(i)
  BY SMTT(30), <1>1, <1>5, HeartOver DEF BeatDelivers
<1> QED
  BY <1>2, <1>3, <1>4, <1>5 DEF HeartStep

(* Every step of a fire under way.                                            *)
LEMMA TaskStepKeeps ==
  ASSUME RunnerInv, NEW i \in Slots, TaskStep(i)
  PROVE  RunnerInv'
<1>1. ASSUME task.slot[i].pc \in {"session", "deliver"} PROVE "task" \notin busy
  <2>1. task.slot \in [Slots -> SlotStates] /\ Alone("task", task.slot, task.inFlight, busy)
    BY Zenon DEF RunnerInv, TaskStates
  <2>2. task.slot[i].pc \notin {"idle", "run", "deny"}
    BY Zenon, <1>1
  <2> QED
    BY <2>1, <2>2, AgentIdle
<1>2. CASE TaskRuns(i)
  <2>1. task.slot[i].pc = "session" /\ "task" \notin busy /\ UNCHANGED heart
    BY Zenon, <1>1, <1>2 DEF TaskRuns
  <2>2. \/ task' = At(task, i, "run") /\ busy' = busy \union {"task"} /\ UNCHANGED collided
        \/ task' = Over(task, i) /\ UNCHANGED <<busy, collided>>
    BY <1>2, <2>1 DEF TaskRuns, RunBegins, AgentTaken
  <2>3. CASE task' = At(task, i, "run") /\ busy' = busy \union {"task"} /\ UNCHANGED collided
    BY Zenon, <2>1, <2>3, TaskAt
  <2>4. CASE task' = Over(task, i) /\ UNCHANGED <<busy, collided>>
    BY Zenon, <2>1, <2>4, TaskOver
  <2> QED
    BY Zenon, <2>2, <2>3, <2>4
<1>3. CASE TaskRan(i)
  <2>1. task.slot[i].pc = "run" /\ UNCHANGED <<heart, collided>>
    BY Zenon, <1>3 DEF TaskRan
  <2>2. \/ task' = Over(task, i) /\ busy' = busy \ {"task"}
        \/ \E kind \in {"notify", "question", "review", "act"} :
             /\ task' = [task EXCEPT !.slot[i] = [pc |-> "deliver", kind |-> kind]]
             /\ busy' = busy \ {"task"}
        \/ task' = At(task, i, "deny") /\ UNCHANGED busy
    BY Zenon, <1>3 DEF TaskRan
  <2>3. CASE task' = Over(task, i) /\ busy' = busy \ {"task"}
    BY Zenon, <2>1, <2>3, TaskOver
  <2>4. CASE \E kind \in {"notify", "question", "review", "act"} :
               /\ task' = [task EXCEPT !.slot[i] = [pc |-> "deliver", kind |-> kind]]
               /\ busy' = busy \ {"task"}
    <3>1. PICK kind \in {"notify", "question", "review", "act"} :
            /\ task' = [task EXCEPT !.slot[i] = [pc |-> "deliver", kind |-> kind]]
            /\ busy' = busy \ {"task"}
      BY <2>4
    <3>2. PICK x : x = [pc |-> "deliver", kind |-> kind]
      BY ZenonT(30)
    <3>3. x \in SlotStates /\ x.pc # "idle" /\ task' = [task EXCEPT !.slot[i] = x]
      BY Zenon, <3>1, <3>2 DEF SlotStates
    <3>4. "task" \notin busy' /\ ("heart" \in busy' => "heart" \in busy)
      BY Zenon, <3>1
    <3> QED
      BY <2>1, <3>3, <3>4, TaskMoves
  <2>5. CASE task' = At(task, i, "deny") /\ UNCHANGED busy
    BY <2>1, <2>5, TaskAt
  <2> QED
    BY <2>2, <2>3, <2>4, <2>5
<1>4. CASE TaskDenied(i)
  BY Zenon, <1>4, TaskOver DEF TaskDenied
<1>5. CASE TaskDelivers(i)
  BY <1>1, <1>5, TaskOver DEF TaskDelivers
<1> QED
  BY <1>2, <1>3, <1>4, <1>5 DEF TaskStep


(* Every step keeps each runner alone on its agent.                           *)
LEMMA RunnerStep == RunnerInv /\ [Next]_vars => RunnerInv'
<1> SUFFICES ASSUME RunnerInv, [Next]_vars PROVE RunnerInv'
  BY Zenon
<1>1. ASSUME UNCHANGED proactiveVars PROVE RunnerInv'
  BY Zenon, <1>1 DEF proactiveVars, RunnerInv
<1>2. heart \in HeartStates /\ Alone("heart", heart.slot, heart.inFlight, busy)
  BY Zenon DEF RunnerInv
<1>3. task \in TaskStates /\ Alone("task", task.slot, task.inFlight, busy)
  BY Zenon DEF RunnerInv
<1>4. CASE HeartFires \/ HeartBeaten
  <2>1. heart' = Beat(heart, TRUE) \/ heart' = Beat(heart, FALSE)
    BY Zenon, <1>4 DEF HeartFires, HeartBeaten, BeatBegins
  <2>2. UNCHANGED <<task, busy, collided>>
    BY <1>4 DEF HeartFires, HeartBeaten
  <2>3. heart' \in HeartStates /\ Alone("heart", heart'.slot, heart'.inFlight, busy)
    <3>1. CASE heart' = Beat(heart, TRUE)
      BY Zenon, <1>2, <3>1, BeatKeeps
    <3>2. CASE heart' = Beat(heart, FALSE)
      BY Zenon, <1>2, <3>2, BeatKeeps
    <3> QED
      BY Zenon, <2>1, <3>1, <3>2
  <2> QED
    BY Zenon, <2>2, <2>3, HeartKept
<1>5. CASE DeferralFires
  <2>1. PICK h : h = [heart EXCEPT !.armed = FALSE]
    BY Zenon
  <2>2. h \in HeartStates /\ h.slot = heart.slot /\ h.inFlight = heart.inFlight
    BY Zenon, <1>2, <2>1 DEF HeartStates
  <2>3. (heart' = Beat(h, TRUE) \/ heart' = Beat(h, FALSE)) /\ UNCHANGED <<task, busy, collided>>
    BY Zenon, <1>5, <2>1 DEF DeferralFires
  <2>4. heart' \in HeartStates /\ Alone("heart", heart'.slot, heart'.inFlight, busy)
    <3>1. CASE heart' = Beat(h, TRUE)
      BY Zenon, <1>2, <2>2, <3>1, BeatKeeps
    <3>2. CASE heart' = Beat(h, FALSE)
      BY Zenon, <1>2, <2>2, <3>2, BeatKeeps
    <3> QED
      BY Zenon, <2>3, <3>1, <3>2
  <2> QED
    BY <2>3, <2>4, HeartKept
<1>6. CASE HeartStarts
  <2>1. heart' = [heart EXCEPT !.running = TRUE] /\ UNCHANGED <<task, busy, collided>>
    BY Zenon, <1>6 DEF HeartStarts
  <2>2. heart' \in HeartStates /\ heart'.slot = heart.slot /\ heart'.inFlight = heart.inFlight
    BY Zenon, <1>2, <2>1 DEF HeartStates
  <2> QED
    BY <1>2, <2>1, <2>2, HeartKept
<1>7. CASE HeartStops
  <2>1. heart' = [heart EXCEPT !.running = FALSE, !.armed = FALSE] /\ UNCHANGED <<task, busy, collided>>
    BY Zenon, <1>7 DEF HeartStops
  <2>2. PICK h : h = [heart EXCEPT !.running = FALSE]
    BY Zenon
  <2>3. h \in HeartStates /\ h.slot = heart.slot /\ h.inFlight = heart.inFlight
    BY Zenon, <1>2, <2>2 DEF HeartStates
  <2>4. heart' = [h EXCEPT !.armed = FALSE]
    BY <2>1, <2>2
  <2>5. heart' \in HeartStates /\ heart'.slot = h.slot /\ heart'.inFlight = h.inFlight
    BY Zenon, <2>3, <2>4 DEF HeartStates
  <2> QED
    BY <1>2, <2>1, <2>3, <2>5, HeartKept
<1>8. CASE TaskFires \/ TaskFired
  <2>1. \E within \in BOOLEAN : task' = Fire(within)
    BY Zenon, <1>8 DEF TaskFires, TaskFired, FireBegins
  <2>2. UNCHANGED <<heart, busy, collided>>
    BY <1>8 DEF TaskFires, TaskFired
  <2> QED
    BY Zenon, <2>1, <2>2, FireKeeps
<1>9. CASE TaskStarts \/ TaskStops
  <2>1. /\ task' = [task EXCEPT !.running = TRUE] \/ task' = [task EXCEPT !.running = FALSE]
        /\ UNCHANGED <<heart, busy, collided>>
    BY Zenon, <1>9 DEF TaskStarts, TaskStops
  <2>2. task' \in TaskStates /\ task'.slot = task.slot /\ task'.inFlight = task.inFlight
    BY Zenon, <1>3, <2>1 DEF TaskStates
  <2> QED
    BY <1>3, <2>1, <2>2, TaskKept
<1>10. CASE \E i \in Slots : HeartStep(i) \/ TaskStep(i)
  BY <1>10, HeartStepKeeps, TaskStepKeeps
<1>11. CASE AccessNext \/ GatewayNext
  BY Zenon, <1>1, <1>11 DEF AccessNext, GatewayNext, proactiveVars
<1>12. CASE UNCHANGED vars
  BY Zenon, <1>1, <1>12 DEF vars
<1> QED
  BY <1>4, <1>5, <1>6, <1>7, <1>8, <1>9, <1>10, <1>11, <1>12 DEF Next, ProactiveNext, ProactiveCalls

(* No runner has anything under way at first.                                 *)
LEMMA RunnerInit == Init => RunnerInv
<1> SUFFICES ASSUME Init PROVE RunnerInv
  OBVIOUS
<1>1. PICK s : s = [i \in Slots |-> Ended]
  BY ZenonT(30)
<1>2. s \in [Slots -> SlotStates] /\ \A i \in Slots : s[i] = Ended
  BY Zenon, <1>1 DEF Ended, SlotStates
<1>3. /\ heart = [running |-> FALSE, inFlight |-> FALSE, armed |-> FALSE, defers |-> 0, slot |-> s]
      /\ task = [running |-> FALSE, inFlight |-> FALSE, slot |-> s] /\ busy = {} /\ collided = {}
  BY Zenon, <1>1 DEF Init, ProactiveInit
<1>4. heart \in HeartStates /\ task \in TaskStates /\ heart.slot = s /\ task.slot = s
  BY <1>2, <1>3 DEF HeartStates, TaskStates
<1>5. \A n, f : Alone(n, s, f, busy)
  BY Zenon, <1>2, <1>3 DEF Alone
<1> QED
  BY Zenon, <1>3, <1>4, <1>5 DEF RunnerInv

(* A heartbeat's or a cron task's run is never refused by the runner's own    *)
(* agent: a schedule, a deferral and a manual call never overlap.             *)
THEOREM CollisionSafe == Spec => []NoOwnCollision
<1>1. RunnerInv => NoOwnCollision
  BY Zenon DEF RunnerInv, NoOwnCollision
<1> QED
  BY <1>1, RunnerInit, RunnerStep, PTL DEF Spec

-----------------------------------------------------------------------------
(* A heartbeat that is stopped, and was not called since, has no deferral     *)
(* armed.                                                                     *)
ArmedInv == asked \in BOOLEAN /\ (heart.running = FALSE /\ asked = FALSE => heart.armed = FALSE)

(* beat() neither stops nor starts the heartbeat.                             *)
LEMMA BeatRunning ==
  ASSUME NEW h \in HeartStates, NEW within
  PROVE  Beat(h, within).running = h.running
<1>1. \A n : [h EXCEPT !.defers = n].running = h.running
  BY Zenon DEF HeartStates
<1>2. \A n : [h EXCEPT !.defers = n, !.armed = TRUE].running = h.running
  BY Zenon DEF HeartStates
<1>3. ArmDefer(h).running = h.running
  BY Zenon, <1>1, <1>2 DEF ArmDefer
<1>4. At([h EXCEPT !.defers = 0, !.inFlight = TRUE], FreeSlot(h), "checklist").running = h.running
  BY Zenon DEF At, HeartStates
<1> QED
  BY <1>1, <1>3, <1>4 DEF Beat

(* A step of a beat under way touches its own slot only.                      *)
LEMMA StepsInSlot ==
  ASSUME heart \in HeartStates, NEW i \in Slots, HeartStep(i)
  PROVE  /\ heart'.running = heart.running /\ heart'.armed = heart.armed /\ asked' = asked
         /\ \A j \in Slots : heart.slot[j] = Ended => heart'.slot[j] = Ended
<1>1. heart.slot[i].pc # "idle" /\ (heart' = Over(heart, i) \/ \E x : heart' = At(heart, i, x))
  <2>1. CASE BeatRuns(i)
    BY Zenon, <2>1 DEF BeatRuns, RunBegins
  <2>2. CASE Checklist(i) \/ BeatRan(i) \/ BeatDelivers(i)
    BY Zenon, <2>2 DEF Checklist, BeatRan, BeatDelivers
  <2> QED
    BY Zenon, <2>1, <2>2 DEF HeartStep
<1>2. heart.slot[i] # Ended
  BY <1>1 DEF Ended
<1>3. asked' = asked
  BY Zenon DEF HeartStep, Checklist, BeatRuns, BeatRan, BeatDelivers
<1>4. CASE heart' = Over(heart, i)
  BY Zenon, <1>2, <1>3, <1>4 DEF Over, HeartStates
<1>5. ASSUME NEW x, heart' = At(heart, i, x)
      PROVE  /\ heart'.running = heart.running /\ heart'.armed = heart.armed
             /\ \A j \in Slots : heart.slot[j] = Ended => heart'.slot[j] = Ended
  BY Zenon, <1>2, <1>5 DEF At, HeartStates
<1> QED
  BY SMTT(30), <1>1, <1>3, <1>4, <1>5

(* The steps that leave the heartbeat alone.                                  *)
LEMMA HeartAlone ==
  ASSUME Next
  PROVE  \/ heart' = heart /\ asked' = asked
         \/ HeartFires \/ HeartBeaten \/ DeferralFires \/ HeartStarts \/ HeartStops
         \/ \E i \in Slots : HeartStep(i)
<1>1. CASE AccessNext \/ GatewayNext
  BY <1>1 DEF AccessNext, GatewayNext, proactiveVars
<1>2. CASE \E i \in Slots : TaskStep(i)
  BY Zenon, <1>2 DEF TaskStep, TaskRuns, TaskRan, TaskDenied, TaskDelivers
<1>3. CASE TaskFires \/ TaskFired \/ TaskStarts \/ TaskStops
  BY Zenon, <1>3 DEF TaskFires, TaskFired, TaskStarts, TaskStops
<1> QED
  BY <1>1, <1>2, <1>3 DEF Next, ProactiveNext, ProactiveCalls

(* A deferral is armed only while the heartbeat runs, or by a call since it   *)
(* stopped; nothing else begins a beat of a heartbeat that does not run.      *)
LEMMA ArmedStep ==
  ASSUME RunnerInv, ArmedInv, [Next]_vars
  PROVE  /\ ArmedInv'
         /\ heart.running = FALSE /\ asked' = FALSE =>
              \A i \in Slots : heart.slot[i] = Ended => heart'.slot[i] = Ended
<1>1. /\ heart \in HeartStates /\ heart.running \in BOOLEAN /\ heart.armed \in BOOLEAN
      /\ asked \in BOOLEAN
  BY Zenon DEF RunnerInv, HeartStates, ArmedInv
<1>2. CASE heart' = heart /\ asked' = asked
  BY Zenon, <1>2 DEF ArmedInv
<1>3. CASE HeartFires \/ (HeartBeaten /\ heart.running)
  <2>1. heart.running = TRUE /\ asked' = asked /\ \E within \in BOOLEAN : heart' = Beat(heart, within)
    BY Zenon, <1>1, <1>3 DEF HeartFires, HeartBeaten, BeatBegins
  <2>2. heart'.running = TRUE
    BY <1>1, <2>1, BeatRunning
  <2> QED
    BY Zenon, <1>1, <2>1, <2>2 DEF ArmedInv
<1>9. CASE HeartBeaten /\ ~heart.running
  <2>1. asked' = TRUE
    BY Zenon, <1>9 DEF HeartBeaten
  <2> QED
    BY Zenon, <2>1 DEF ArmedInv
<1>4. CASE DeferralFires
  <2>1. asked' = asked /\ (heart.running = TRUE \/ asked = TRUE)
    BY Zenon, <1>1, <1>4 DEF DeferralFires, ArmedInv
  <2>2. CASE asked = TRUE
    BY Zenon, <2>1, <2>2 DEF ArmedInv
  <2>3. CASE heart.running = TRUE
    <3>1. PICK h : h = [heart EXCEPT !.armed = FALSE]
      BY Zenon
    <3>2. h \in HeartStates /\ h.running = TRUE
      BY Zenon, <1>1, <2>3, <3>1 DEF HeartStates
    <3>3. \E within \in BOOLEAN : heart' = Beat(h, within)
      BY Zenon, <1>4, <3>1 DEF DeferralFires
    <3>4. heart'.running = TRUE
      BY <3>2, <3>3, BeatRunning
    <3> QED
      BY Zenon, <1>1, <2>1, <2>3, <3>4 DEF ArmedInv
  <2> QED
    BY Zenon, <2>1, <2>2, <2>3
<1>5. CASE HeartStarts
  <2>1. heart' = [heart EXCEPT !.running = TRUE] /\ asked' = asked
    BY Zenon, <1>5 DEF HeartStarts
  <2>2. heart'.running = TRUE /\ heart'.slot = heart.slot
    BY Zenon, <1>1, <2>1 DEF HeartStates
  <2> QED
    BY Zenon, <1>1, <2>1, <2>2 DEF ArmedInv
<1>6. CASE HeartStops
  <2>1. /\ heart.running = TRUE /\ heart' = [heart EXCEPT !.running = FALSE, !.armed = FALSE]
        /\ asked' = FALSE
    BY Zenon, <1>1, <1>6 DEF HeartStops
  <2>2. heart'.armed = FALSE
    BY <1>1, <2>1 DEF HeartStates
  <2> QED
    BY Zenon, <2>1, <2>2 DEF ArmedInv
<1>7. CASE \E i \in Slots : HeartStep(i)
  BY <1>1, <1>7, StepsInSlot DEF ArmedInv
<1>8. CASE UNCHANGED vars
  BY <1>2, <1>8 DEF vars, proactiveVars
<1> QED
  BY Zenon, <1>2, <1>3, <1>4, <1>5, <1>6, <1>7, <1>8, <1>9, HeartAlone

(* After heartbeat.stop() no beat begins until the application calls beat()   *)
(* itself, whatever schedules, deferrals and calls were under way: stop()     *)
(* takes the deferral with it.                                                *)
THEOREM SilentSafe == Spec => SilentAfterStop
<1>1. Init => ArmedInv
  <2> SUFFICES ASSUME Init PROVE ArmedInv
    BY Zenon
  <2>1. asked = FALSE
    BY Zenon DEF Init, ProactiveInit
  <2>2. heart.armed = FALSE
    BY DEF Init, ProactiveInit
  <2> QED
    BY Zenon, <2>1, <2>2 DEF ArmedInv
<1>2. RunnerInv /\ ArmedInv /\ [Next]_vars => ArmedInv'
  BY Zenon, ArmedStep
<1>3. RunnerInv /\ ArmedInv /\ [Next]_vars =>
        [~heart.running /\ ~asked' =>
           \A i \in Slots : heart.slot[i] = Ended => heart'.slot[i] = Ended]_vars
  <2> SUFFICES ASSUME RunnerInv, ArmedInv, [Next]_vars, ~heart.running, ~asked'
               PROVE  \A i \in Slots : heart.slot[i] = Ended => heart'.slot[i] = Ended
    BY Zenon
  <2>1. heart.running \in BOOLEAN /\ asked' \in BOOLEAN
    BY Zenon, ArmedStep DEF RunnerInv, HeartStates, ArmedInv
  <2> QED
    BY ZenonT(30), <2>1, ArmedStep
<1> QED
  BY <1>1, <1>2, <1>3, RunnerInit, RunnerStep, PTL DEF Spec, SilentAfterStop
====================================================================================
