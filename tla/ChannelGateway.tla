------------------------------- MODULE ChannelGateway -------------------------------
(***************************************************************************)
(* The channel gateway: one bounded inbound queue and one drain loop per   *)
(* adapter, around the access check, the application's handler and the     *)
(* delivery of its reply.                                                  *)
(*                                                                         *)
(* loop[c] is the message the drain loop of channel c has taken, with the  *)
(* point it awaits at; Idle when no loop is draining.  The end of one      *)
(* message and the taking of the next are one step: nothing is awaited     *)
(* between them.  The handler is the application's: it runs one agent,     *)
(* which refuses a second run while one is in flight.                      *)
(***************************************************************************)
EXTENDS ChannelAccess

VARIABLES host,      \* the host's call in progress: off, starting, up, stopping
          running,
          adapters,  \* adapters started
          queue, loop,
          chat,      \* the channel whose handler has the agent, or none
          accepted,  \* channel -> messages accepted, in order (history)
          finished,  \* channel -> messages processed or failed, in order (history)
          admitted,  \* messages that reached the handler (history)
          rendered,  \* challenges delivered to their peer (history)
          left       \* messages in a queue when a stop() returned (history)

gatewayVars == <<host, running, adapters, queue, loop, chat, accepted, finished, admitted,
                 rendered, left>>
histories == <<accepted, finished, admitted, rendered, left>>

NoChannel == "none"

GatewayInit ==
  /\ host = "off" /\ running = FALSE /\ adapters = {} /\ chat = NoChannel
  /\ queue = [c \in cf.channels |-> <<>>] /\ loop = [c \in cf.channels |-> Idle]
  /\ accepted = [c \in cf.channels |-> <<>>] /\ finished = [c \in cf.channels |-> <<>>]
  /\ admitted = {} /\ rendered = {} /\ left = {}

-----------------------------------------------------------------------------
(* Mutant of Take: the newest message is taken. *)
TakeNewest(c, q) ==
  IF running /\ q # <<>>
  THEN /\ loop' = [loop EXCEPT ![c] = CheckBegins(q[Len(q)])]
       /\ queue' = [queue EXCEPT ![c] = SubSeq(q, 1, Len(q) - 1)]
  ELSE /\ loop' = [loop EXCEPT ![c] = Idle]
       /\ queue' = [queue EXCEPT ![c] = q]

(* The head of the drain loop's while, with the queue q. *)
Take(c, q) ==
  IF running /\ q # <<>>
  THEN /\ loop' = [loop EXCEPT ![c] = CheckBegins(Head(q))]
       /\ queue' = [queue EXCEPT ![c] = Tail(q)]
  ELSE /\ loop' = [loop EXCEPT ![c] = Idle]
       /\ queue' = [queue EXCEPT ![c] = q]

(* Mutant of Drain: a loop is started only for a message alone in its queue. *)
DrainFirst(c, q) ==
  IF loop[c] = Idle /\ Len(q) = 1 THEN Take(c, q)
  ELSE queue' = [queue EXCEPT ![c] = q] /\ UNCHANGED loop

Drain(c, q) ==
  IF loop[c] = Idle THEN Take(c, q) ELSE queue' = [queue EXCEPT ![c] = q] /\ UNCHANGED loop

(* onInbound: an adapter that was started hands over a message. *)
Inbound(p) ==
  LET c == p.channel
      msg == [peer |-> p, n |-> used["message"] + 1]
  IN /\ May("message") /\ c \in adapters
     /\ Spend("message")
     /\ IF running /\ Len(queue[c]) < cf.queueLimit
        THEN Drain(c, Append(queue[c], msg)) /\ accepted' = [accepted EXCEPT ![c] = Append(@, msg)]
        ELSE UNCHANGED <<queue, loop, accepted>>
     /\ UNCHANGED <<cf, clock, accessVars, host, running, adapters, chat, finished, admitted,
                    rendered, left>>

(* processOne() has returned or thrown; both are counted, and the loop     *)
(* goes on.                                                                *)
Finish(c) == finished' = [finished EXCEPT ![c] = Append(@, loop[c].msg)] /\ Take(c, queue[c])

AccessCheck(c) ==
  /\ loop[c].pc \in Checking
  /\ loop' = [loop EXCEPT ![c] = CheckStep(loop[c])]
  /\ CheckWrites(loop[c])
  /\ UNCHANGED <<cf, used, clock, host, running, adapters, queue, chat, histories>>

(* A store call of the check rejects: the message ends as failed. *)
AccessThrows(c) ==
  /\ loop[c].pc \in Checking
  /\ May("fault") /\ Spend("fault") /\ Finish(c)
  /\ UNCHANGED <<cf, clock, accessVars, host, running, adapters, chat, accepted, admitted,
                 rendered, left>>

Challenge(w) == [code |-> w.code, expires |-> w.at + cf.ttl]

(* onUnauthorized: the application renders a code the check has issued. *)
Refuse(c) ==
  /\ loop[c].pc = "refused"
  /\ \/ /\ loop[c].code # 0 /\ rendered' = rendered \union {Challenge(loop[c])} /\ UNCHANGED used
     \/ /\ loop[c].code # 0 /\ May("fault") /\ Spend("fault") /\ UNCHANGED rendered
     \/ /\ loop[c].code = 0 /\ UNCHANGED <<used, rendered>>
  /\ Finish(c)
  /\ UNCHANGED <<cf, clock, accessVars, host, running, adapters, chat, accepted, admitted, left>>

(* The body is sanitised and the handler is called: its agent starts a     *)
(* run, or the handler throws because the agent is busy.  A blocked body   *)
(* ends the message before the handler.                                    *)
Handle(c) ==
  /\ loop[c].pc = "allowed"
  /\ \/ /\ May("fault") /\ Spend("fault") /\ Finish(c) /\ UNCHANGED <<chat, admitted>>
     \/ /\ admitted' = admitted \union {loop[c].msg}
        /\ IF chat = NoChannel
           THEN /\ chat' = c /\ loop' = [loop EXCEPT ![c].pc = "handling"]
                /\ UNCHANGED <<queue, finished>>
           ELSE Finish(c) /\ UNCHANGED chat
        /\ UNCHANGED used
  /\ UNCHANGED <<cf, clock, accessVars, host, running, adapters, accepted, rendered, left>>

(* The handler returns a reply, returns nothing, or throws. *)
Handled(c) ==
  /\ loop[c].pc = "handling" /\ chat' = NoChannel
  /\ \/ loop' = [loop EXCEPT ![c].pc = "reply"] /\ UNCHANGED <<queue, finished>>
     \/ Finish(c)
  /\ UNCHANGED <<cf, used, clock, accessVars, host, running, adapters, accepted, admitted,
                 rendered, left>>

(* The reply is delivered, or its delivery throws: both end the message. *)
Replied(c) ==
  /\ loop[c].pc = "reply" /\ Finish(c)
  /\ UNCHANGED <<cf, used, clock, accessVars, host, running, adapters, chat, accepted, admitted,
                 rendered, left>>

-----------------------------------------------------------------------------
(* start() and stop(): the adapters are started, and stopped, one by one. *)
Start ==
  /\ host = "off" /\ host' = "starting" /\ running' = TRUE
  /\ UNCHANGED <<cf, used, clock, accessVars, adapters, queue, loop, chat, histories>>

AdapterStarts ==
  /\ host = "starting"
  /\ \E c \in cf.channels \ adapters : adapters' = adapters \union {c}
  /\ host' = IF adapters' = cf.channels THEN "up" ELSE host
  /\ UNCHANGED <<cf, used, clock, accessVars, running, queue, loop, chat, histories>>

(* An adapter whose start() rejects ends the gateway's: running stays, the  *)
(* adapters after it are not started, and only a stop() has any effect.     *)
AdapterFails ==
  /\ host = "starting" /\ host' = "up" /\ May("fault") /\ Spend("fault")
  /\ UNCHANGED <<cf, clock, accessVars, running, adapters, queue, loop, chat, histories>>

Stop ==
  /\ May("stop") /\ host = "up" /\ host' = "stopping" /\ running' = FALSE /\ Spend("stop")
  /\ UNCHANGED <<cf, clock, accessVars, adapters, queue, loop, chat, histories>>

AdapterStops ==
  /\ host = "stopping" /\ \E c \in adapters : adapters' = adapters \ {c}
  /\ UNCHANGED <<cf, used, clock, accessVars, host, running, queue, loop, chat, histories>>

(* Mutant of Stopped: the queues must be empty. *)
StoppedDrained ==
  /\ host = "stopping" /\ adapters = {}
  /\ \A c \in cf.channels : loop[c] = Idle /\ queue[c] = <<>>
  /\ host' = "off"
  /\ UNCHANGED <<cf, used, clock, accessVars, running, adapters, queue, loop, chat, histories>>

Stopped ==
  /\ host = "stopping" /\ adapters = {} /\ \A c \in cf.channels : loop[c] = Idle
  /\ host' = "off"
  /\ left' = UNION {Range(queue[c]) : c \in cf.channels}
  /\ UNCHANGED <<cf, used, clock, accessVars, running, adapters, queue, loop, chat, accepted,
                 finished, admitted, rendered>>

LoopStep(c) ==
  AccessCheck(c) \/ AccessThrows(c) \/ Refuse(c) \/ Handle(c) \/ Handled(c) \/ Replied(c)
HostStep == Start \/ AdapterStarts \/ AdapterFails \/ Stop \/ AdapterStops \/ Stopped

-----------------------------------------------------------------------------
UnderWay(c) == IF loop[c] = Idle THEN <<>> ELSE <<loop[c].msg>>

(* Every message the gateway accepts on a channel is processed once, in    *)
(* the order of acceptance, across stops and restarts: what is finished,   *)
(* what the drain loop holds and what is queued is what was accepted.      *)
AcceptedInOrder ==
  \A c \in cf.channels : accepted[c] = finished[c] \o UnderWay(c) \o queue[c]

(* "In-flight drain loops; awaited on stop so no work outlives the         *)
(* gateway": once stop() has returned no message is under way.             *)
QuietAfterStop == host = "off" => \A c \in cf.channels : loop[c] = Idle

(* A running gateway has a loop on every queue with messages, except that  *)
(* start() does not drain what an earlier stop() left: those messages wait *)
(* for the next one.                                                       *)
QueueAttended ==
  \A c \in cf.channels :
    running /\ queue[c] # <<>> /\ loop[c] = Idle => Range(queue[c]) \subseteq left

(* A peer whose message reached the handler under the pairing policy holds *)
(* a code of its own that the operator approved before it expired.         *)
AdmittedByOperator ==
  cf.policy = "pairing" =>
    \A m \in admitted : \E k \in consumed : k.peer = m.peer /\ k.live

(* The codes pending on a channel never exceed maxPendingPerChannel: the   *)
(* count and the insertion are separate store calls, made by one loop.     *)
PendingCapped ==
  \A c \in cf.channels : Cardinality(Pending(c, clock)) <= cf.maxPending

(* A code delivered to its peer stays good: until it expires it is in the  *)
(* store, in the operator's hands, or was taken by an approval; no later   *)
(* check of the peer's own messages replaces it.                           *)
RenderedCodeGood ==
  \A k \in rendered :
    Live(k, clock) => \/ \E r \in requests : r.code = k.code
                      \/ approval # Idle /\ approval.code = k.code
                      \/ \E s \in consumed : s.code = k.code
=============================================================================
