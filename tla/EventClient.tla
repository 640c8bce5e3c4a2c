------------------------------- MODULE EventClient -------------------------------
(***************************************************************************)
(* GraphorinClient: one connection at a time, subscriptions that survive   *)
(* it, and reconnect loops, one started by every close event.              *)
(*                                                                         *)
(* What happens between two waits of the client is one step.  A reply is   *)
(* handled in two: the frame settles the request, and the code waiting for *)
(* it continues before the client sees a close event, though frames that   *)
(* came in the same chunk may be handled first.                            *)
(***************************************************************************)
EXTENDS EventWire, ReplayBuffer, SequencesExt

CONSTANTS QueueLimit,   \* subscriptionQueueLimit
          Preference,   \* values of the transport option that are looked at
          MaxAttempts   \* reconnect.maxAttempts

VARIABLES pref, cl      \* the transport option and the client

SseKey == -1            \* '__sse__'

(* Where a subscription object is: "wait" for its first reply, "open",     *)
(* closed as "done" or by an "error", or "failed" to open.  got is what    *)
(* was pushed to it (history).                                             *)
NewSub == [st |-> "none", sid |-> 0, cursor |-> NoEvent, got |-> <<>>, unread |-> 0]

(* Reconnect loops; a number is used again when its loop has ended. *)
Loops == 1 .. MaxUpsets + 1
NoLoop == [pc |-> "end", tries |-> 0, todo |-> <<>>]
FreeLoop(c) == CHOOSE l \in Loops : c.loops[l].pc = "end" /\ \A k \in 1 .. l - 1 : c.loops[k].pc # "end"

(* link: "none", "opening", "initializing", "ready", "sse-opening", "sse". *)
(* The transport is set from "initializing" on.                            *)
ClientInit ==
  /\ pref \in Preference
  /\ cl = [closed |-> FALSE, link |-> "none", last |-> NoEvent, pending |-> {}, settled |-> {},
           waits |-> 0, map |-> <<>>, early |-> <<>>, loops |-> [l \in Loops |-> NoLoop], sse |-> NoSub,
           sub |-> [x \in Subs |-> NewSub]]

Connected(c) == c.link \in {"initializing", "ready", "sse"}
Quiet == cl.settled = {} /\ \A l \in DOMAIN cl.loops : cl.loops[l].pc # "connected"

-----------------------------------------------------------------------------
(* Subscription objects: close, push, __pushLifecycle. *)
close(c, x, how) == IF c.sub[x].st = "open" THEN [c EXCEPT !.sub[x].st = how] ELSE c

closeAll(c, X, how) == [c EXCEPT !.sub = [x \in Subs |->
  IF x \in X /\ c.sub[x].st = "open" THEN [c.sub[x] EXCEPT !.st = how] ELSE c.sub[x]]]

Mapped(c) == {c.map[i][2] : i \in DOMAIN c.map}
Unmap(c, id) == [c EXCEPT !.map = SelectSeq(@, LAMBDA p : p[1] # id)]

(* push: the cursor moves; a full queue closes the subscription. *)
push_(c, x, e) ==
  IF c.sub[x].st # "open" THEN c
  ELSE IF c.sub[x].unread >= QueueLimit
    THEN [c EXCEPT !.sub[x].cursor = e, !.sub[x].st = "error"]
    ELSE [c EXCEPT !.sub[x].cursor = e, !.sub[x].got = Append(@, e), !.sub[x].unread = @ + 1]

deliver(c, x, f) ==
  CASE f.k = "event" -> push_(c, x, f.e)
    [] f.k = "lifecycle" -> Unmap(close(c, x, "error"), c.sub[x].sid)
    [] OTHER -> c

(* #bufferPreMapFrame: kept only while some subscribe waits for its reply. *)
bufferPreMapFrame(c, f) ==
  LET n == Len(SelectSeq(c.early, LAMBDA g : g.id = f.id)) IN
  IF c.waits = 0 \/ n > QueueLimit THEN c ELSE [c EXCEPT !.early = Append(@, f)]

route(c, f) ==
  LET X == {c.map[i][2] : i \in {j \in DOMAIN c.map : c.map[j][1] = f.id}} IN
  IF X # {} THEN deliver(c, CHOOSE x \in X : TRUE, f)
  ELSE IF c.link = "sse" /\ c.sse # NoSub THEN deliver(c, c.sse, f)
  ELSE bufferPreMapFrame(c, f)

flushPreMapFrames(c, id, x) ==
  FoldLeft(LAMBDA d, f : deliver(d, x, f),
           [c EXCEPT !.early = SelectSeq(@, LAMBDA f : f.id # id)],
           SelectSeq(c.early, LAMBDA f : f.id = id))

(* The finally clause of a subscribe. *)
Unwait(c) == [c EXCEPT !.waits = @ - 1, !.early = IF c.waits = 1 THEN <<>> ELSE @]

-----------------------------------------------------------------------------
(* A reconnect loop resubscribes what it found in the map, one after       *)
(* another; without a transport every one of them is closed.               *)
LoopNext(c, l) ==
  LET todo == c.loops[l].todo IN
  IF todo = <<>> THEN [c EXCEPT !.loops[l] = NoLoop]
  ELSE IF ~Connected(c)
    THEN [closeAll(c, {todo[i][2] : i \in DOMAIN todo}, "error") EXCEPT
            !.map = SelectSeq(@, LAMBDA p : ~Contains(todo, p)),
            !.loops[l] = NoLoop]
  ELSE [Unmap(c, Head(todo)[1]) EXCEPT
          !.waits = @ + 1,
          !.pending = @ \cup {[by |-> l, x |-> Head(todo)[2]]},
          !.loops[l] = [@ EXCEPT !.pc = "resubscribe", !.todo = Tail(todo)]]

(* The request LoopNext sends, if it does: it differs from c. *)
Sends(c, d, l) ==
  IF d.loops[l].pc # "resubscribe" THEN <<>>
  ELSE LET x == Head(c.loops[l].todo)[2] IN
       <<[k |-> "subscribe", key |-> [by |-> l, x |-> x], cur |-> c.sub[x].cursor]>>

(* The request behind a key fails. *)
reject(c, key) ==
  LET d == [c EXCEPT !.pending = @ \ {key}] IN
  CASE key.by = AppSubscribe -> Unwait([d EXCEPT !.sub[key.x].st = "failed"])
    [] key.by > 0 -> LoopNext(Unwait(close(d, key.x, "error")), key.by)
    [] OTHER -> d

rejectAll(c) == FoldLeft(reject, c, SetToSeq(c.pending))

Asleep(c) == [c EXCEPT !.loops = [l \in DOMAIN c.loops |->
  IF c.loops[l].pc # "connect" THEN c.loops[l]
  ELSE IF c.closed THEN NoLoop
  ELSE [c.loops[l] EXCEPT !.pc = "sleep", !.tries = @ + 1]]]

(* connect() fails: with 'auto' the SSE transport is tried next, otherwise *)
(* the loops that wait for it try again.                                   *)
connectFails(c) ==
  IF pref = "auto" /\ c.link \in {"opening", "initializing"}
    THEN [c EXCEPT !.link = "sse-opening"]
    ELSE [Asleep(c) EXCEPT !.link = "none"]

SseRequestOf(c) ==
  IF c.link # "sse-opening" THEN <<>>
  ELSE <<[k |-> "sse", cur |-> IF c.sse = NoSub THEN NoEvent ELSE c.sub[c.sse].cursor]>>

(* Mutant: a transport that closes starts no reconnect loop. *)
handleTransportCloseOnly(c, fatal) ==
  LET d == rejectAll([c EXCEPT !.link = "none"]) IN
  IF fatal THEN [closeAll(d, Mapped(d), "error") EXCEPT !.map = <<>>] ELSE d

(* #handleTransportClose: every pending request fails; a fatal reason      *)
(* closes the subscriptions, any other starts a reconnect loop.            *)
handleTransportClose(c, fatal) ==
  LET d == rejectAll([c EXCEPT !.link = "none"]) IN
  IF fatal THEN [closeAll(d, Mapped(d), "error") EXCEPT !.map = <<>>]
  ELSE [d EXCEPT !.loops[FreeLoop(d)] = [NoLoop EXCEPT !.pc = "sleep", !.tries = 1]]

-----------------------------------------------------------------------------
(* connect(): without a transport, and without another connect under way.  *)
(* The application calls it when no reconnect loop does.                   *)
Connecting(c) == [c EXCEPT !.link = IF pref = "sse" THEN "sse-opening" ELSE "opening"]
Dial(c) == IF c.link = "opening" THEN <<[k |-> "upgrade"]>> ELSE SseRequestOf(c)

AppConnect ==
  /\ ~cl.closed /\ cl.link = "none" /\ \A l \in Loops : cl.loops[l] = NoLoop
  /\ cl' = Connecting(cl) /\ c2s' = Dial(cl') /\ s2c' = <<>>
  /\ UNCHANGED used

(* subscribe() of a new object x; over SSE there is one object, bound to   *)
(* the session the connection streams.                                     *)
AppSubscribes(x) ==
  /\ Quiet /\ Connected(cl) /\ cl.sub[x].st = "none"
  /\ IF cl.link = "sse"
       THEN /\ \A y \in Subs : cl.sse = y => cl.sub[y].st # "open"
            /\ cl' = [cl EXCEPT !.sse = x, !.sub[x].st = "open", !.sub[x].sid = SseKey,
                                !.map = Append(Unmap(cl, SseKey).map, <<SseKey, x>>)]
            /\ UNCHANGED c2s
       ELSE /\ cl' = [cl EXCEPT !.sub[x].st = "wait", !.waits = @ + 1,
                                !.pending = @ \cup {[by |-> AppSubscribe, x |-> x]}]
            /\ c2s' = Append(c2s, [k |-> "subscribe", key |-> [by |-> AppSubscribe, x |-> x],
                                   cur |-> cl.last])
  /\ UNCHANGED <<s2c, used>>

(* unsubscribe(): the object stays open until the server has answered. *)
AppUnsubscribes(x) ==
  /\ Quiet /\ cl.sub[x].st = "open" /\ cl.link \in {"initializing", "ready"}
  /\ [by |-> AppUnsubscribe, x |-> x] \notin cl.pending
  /\ Use("upsets", MaxUpsets)
  /\ cl' = [cl EXCEPT !.pending = @ \cup {[by |-> AppUnsubscribe, x |-> x]}]
  /\ c2s' = Append(c2s, [k |-> "unsubscribe", key |-> [by |-> AppUnsubscribe, x |-> x],
                         id |-> cl.sub[x].sid])
  /\ UNCHANGED s2c

(* The consumer takes the next event, or leaves its loop: return(). *)
Consume(x) ==
  /\ cl.sub[x].unread > 0
  /\ cl' = [cl EXCEPT !.sub[x].unread = @ - 1]
  /\ UNCHANGED <<c2s, s2c, used>>

Leave(x) ==
  /\ Quiet /\ cl.sub[x].st = "open" /\ Use("upsets", MaxUpsets)
  /\ cl' = close(cl, x, "done")
  /\ UNCHANGED <<c2s, s2c>>

(* disconnect(): a connect() under way is not stopped. *)
Disconnect ==
  /\ Quiet /\ ~cl.closed /\ Use("upsets", MaxUpsets)
  /\ LET d == [rejectAll([cl EXCEPT !.closed = TRUE, !.link = IF Connected(cl) THEN "none" ELSE @])
                 EXCEPT !.loops = [l \in DOMAIN cl.loops |->
                   IF cl.loops[l].pc \in {"sleep", "resubscribe"}
                      \/ (cl.link = "initializing" /\ pref = "ws" /\ cl.loops[l].pc = "connect")
                     THEN NoLoop ELSE cl.loops[l]]]
         e == [closeAll(d, Mapped(cl), "error") EXCEPT !.map = <<>>, !.early = <<>>,
                !.link = IF cl.link = "initializing" /\ pref = "auto" THEN "sse-opening" ELSE @]
     IN /\ cl' = e
        /\ c2s' = (IF Connected(cl) THEN <<[k |-> "bye"]>> ELSE c2s) \o
                  (IF cl.link = "sse-opening" THEN <<>> ELSE SseRequestOf(e))
        /\ s2c' = IF Connected(cl) THEN <<>> ELSE s2c

-----------------------------------------------------------------------------
(* Frames from the server: #handleFrame, and the events of the socket. *)
Opened ==
  IF cl.link = "opening"
    THEN /\ cl' = [cl EXCEPT !.link = "initializing", !.last = NoEvent,
                             !.pending = @ \cup {InitKey}]
         /\ c2s' = Append(c2s, [k |-> "initialize"])
    ELSE /\ cl' = [cl EXCEPT !.link = "sse", !.last = NoEvent,
                     !.loops = [l \in DOMAIN @ |-> IF @[l].pc = "connect"
                                  THEN [@[l] EXCEPT !.pc = "connected"] ELSE @[l]]]
         /\ UNCHANGED c2s

Closed(fatal) ==
  LET d == CASE cl.link \in {"opening", "sse-opening"} -> connectFails(cl)
             [] cl.closed -> cl
             [] cl.link = "initializing" ->
                  connectFails([handleTransportClose(cl, fatal) EXCEPT !.link = "initializing"])
             [] OTHER -> handleTransportClose(cl, fatal)
  IN cl' = d /\ c2s' = SseRequestOf(d)

(* A reply settles the request; initialize completes connect(). *)
Settled(f) ==
  IF f.key \notin cl.pending THEN UNCHANGED cl
  ELSE IF f.key = InitKey
    THEN cl' = [cl EXCEPT !.link = "ready", !.pending = @ \ {InitKey},
                  !.loops = [l \in DOMAIN @ |-> IF @[l].pc = "connect"
                               THEN [@[l] EXCEPT !.pc = "connected"] ELSE @[l]]]
    ELSE cl' = [cl EXCEPT !.pending = @ \ {f.key}, !.settled = @ \cup {f}]

HandleFrame ==
  /\ s2c # <<>>
  /\ LET f == Head(s2c) IN
       \/ f.k = "open" /\ Opened
       \/ f.k = "close" /\ Quiet /\ Closed(f.fatal)
       \/ f.k \in {"ok", "err"} /\ Settled(f) /\ UNCHANGED c2s
       \/ /\ f.k = "unsubscribed"
          /\ cl' = LET X == {p[2] : p \in {q \in Range(cl.map) : q[1] = f.id}}
                   IN Unmap(closeAll(cl, X, "done"), f.id)
          /\ UNCHANGED c2s
       \/ /\ f.k \in {"event", "marker", "lifecycle"}
          /\ cl' = route(IF f.k = "event" THEN [cl EXCEPT !.last = f.e] ELSE cl, f)
          /\ UNCHANGED c2s
  /\ s2c' = Tail(s2c)
  /\ UNCHANGED used

(* subscribe() goes on after its reply. *)
SubscribeReplied(f) ==
  LET x == f.key.x
      d == [cl EXCEPT !.settled = @ \ {f},
                      !.sub[x] = [@ EXCEPT !.st = "open", !.sid = f.id, !.cursor = f.snap],
                      !.map = Append(@, <<f.id, x>>)]
  IN IF f.k = "ok" THEN Unwait(flushPreMapFrames(d, f.id, x))
     ELSE reject([cl EXCEPT !.settled = @ \ {f}], f.key)

(* A reconnect loop rebinds the object to its new id and flushes. *)
ResubscribeReplied(f) ==
  LET x == f.key.x
      d == [cl EXCEPT !.settled = @ \ {f}, !.sub[x].sid = f.id, !.map = Append(@, <<f.id, x>>)]
  IN IF f.k = "ok" THEN Unwait(flushPreMapFrames(d, f.id, x))
     ELSE Unwait(close([cl EXCEPT !.settled = @ \ {f}], x, "error"))

Continue(f) ==
  /\ f \in cl.settled
  /\ CASE f.key.by = AppSubscribe -> cl' = SubscribeReplied(f) /\ UNCHANGED c2s
       [] f.key.by = AppUnsubscribe ->
            /\ cl' = LET d == [cl EXCEPT !.settled = @ \ {f}] IN
                     IF f.k = "ok" THEN Unmap(close(d, f.key.x, "done"), cl.sub[f.key.x].sid) ELSE d
            /\ UNCHANGED c2s
       [] OTHER -> LET c == ResubscribeReplied(f) IN
                   cl' = LoopNext(c, f.key.by) /\ c2s' = c2s \o Sends(c, cl', f.key.by)
  /\ UNCHANGED <<s2c, used>>

-----------------------------------------------------------------------------
(* #reconnect, after its backoff: out of attempts, or connect(). *)
Wake(l) ==
  /\ cl.loops[l].pc = "sleep" /\ Quiet
  /\ IF cl.loops[l].tries > MaxAttempts
       THEN /\ cl' = [closeAll(cl, Mapped(cl), "error") EXCEPT !.map = <<>>, !.loops[l] = NoLoop]
            /\ UNCHANGED <<c2s, s2c>>
     ELSE IF Connected(cl)
       THEN cl' = [cl EXCEPT !.loops[l].pc = "connected"] /\ UNCHANGED <<c2s, s2c>>
     ELSE IF cl.link = "none"
       THEN cl' = [Connecting(cl) EXCEPT !.loops[l].pc = "connect"] /\ c2s' = Dial(cl') /\ s2c' = <<>>
       ELSE cl' = [cl EXCEPT !.loops[l].pc = "connect"] /\ UNCHANGED <<c2s, s2c>>
  /\ UNCHANGED used

(* connect() is done: over SSE the WebSocket subscriptions are closed,     *)
(* otherwise the loop resubscribes what the map holds now.                 *)
Resubscribe(l) ==
  /\ cl.loops[l].pc = "connected"
  /\ IF cl.link = "sse"
       THEN LET ws == SelectSeq(cl.map, LAMBDA p : p[1] # SseKey) IN
            /\ cl' = [closeAll(cl, {ws[i][2] : i \in DOMAIN ws}, "error") EXCEPT
                        !.map = SelectSeq(@, LAMBDA p : p[1] = SseKey), !.loops[l] = NoLoop]
            /\ UNCHANGED c2s
       ELSE LET c == [cl EXCEPT !.loops[l].todo = cl.map] IN
            cl' = LoopNext(c, l) /\ c2s' = c2s \o Sends(c, cl', l)
  /\ UNCHANGED <<s2c, used>>

ClientStep == HandleFrame \/ (\E f \in cl.settled : Continue(f))
              \/ (\E l \in DOMAIN cl.loops : Wake(l) \/ Resubscribe(l))
ClientCall == AppConnect \/ Disconnect
              \/ \E x \in Subs : AppSubscribes(x) \/ AppUnsubscribes(x) \/ Consume(x) \/ Leave(x)
=============================================================================
