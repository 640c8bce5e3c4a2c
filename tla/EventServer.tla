------------------------------- MODULE EventServer -------------------------------
(***************************************************************************)
(* The event side of the server: the dispatcher with its replay buffer,    *)
(* the WebSocket connection handler and the Server-Sent Events responder,  *)
(* for one subject and one client.                                         *)
(*                                                                         *)
(* The handlers are synchronous except for the SSE responder, which waits  *)
(* for every write: events may be emitted between two frames it writes.    *)
(***************************************************************************)
EXTENDS EventWire, ReplayBuffer, SequencesExt

CONSTANTS SendLimit,    \* frames the socket may hold before the server throttles
          SseLimit,     \* perConnectionQueueLimit of the SSE responder
          MaxEvents     \* bound

VARIABLES buf,          \* the replay buffer
          srv           \* the process and the connection it serves

SseOff == [pc |-> "off", todo |-> <<>>, mark |-> FALSE, last |-> NoEvent,
           queue |-> <<>>, full |-> FALSE]

(* regs: subscription ids of the connection, in order; ids: ids given out. *)
ServerInit ==
  /\ buf = EmptyBuffer(0)
  /\ srv = [up |-> TRUE, conn |-> "none", regs |-> <<>>, ids |-> 0, sse |-> SseOff]

(* unregister, shutdownSubscriber *)
Gone(s) == [s EXCEPT !.conn = "none", !.regs = <<>>, !.sse = SseOff]

(* dispatchToSubscriber for frames in order, behind the frames in q: once  *)
(* the socket holds SendLimit of them the server may close instead.        *)
Dispatched(q, frames) ==
  {[q |-> q \o frames, cut |-> FALSE]} \cup
  {[q |-> q \o SubSeq(frames, 1, j) \o <<Close(FALSE)>>, cut |-> TRUE] :
     j \in {i \in 0 .. Len(frames) - 1 : Len(q) + i >= SendLimit}}

Throttled(d) == IF d.cut THEN Use("upsets", MaxUpsets) ELSE UNCHANGED used

(* send() of the SSE responder's handle: a full queue is thrown away. *)
sseSend(h, f) ==
  IF Len(h.queue) >= SseLimit THEN [h EXCEPT !.full = TRUE, !.queue = <<>>]
  ELSE [h EXCEPT !.queue = Append(@, f)]

-----------------------------------------------------------------------------
(* The upgrade: refused when the process is down, closed right away when   *)
(* the token is not accepted any more.                                     *)
Accept ==
  /\ c2s # <<>> /\ Head(c2s).k = "upgrade" /\ srv.up
  /\ c2s' = Tail(c2s)
  /\ \/ /\ s2c' = <<Open>>
        /\ srv' = [Gone(srv) EXCEPT !.conn = "ws"]
        /\ UNCHANGED used
     \/ /\ Use("upsets", MaxUpsets)
        /\ s2c' = <<Open, Close(TRUE)>>
        /\ srv' = Gone(srv)
  /\ UNCHANGED buf

Refuse ==
  /\ c2s # <<>> /\ Head(c2s).k \in {"upgrade", "sse"} /\ ~srv.up
  /\ c2s' = <<>> /\ s2c' = <<Close(FALSE)>>
  /\ UNCHANGED <<buf, srv, used>>

(* The frames of a subscription: the replayed events, then the marker. *)
ReplayFrames(id, r) ==
  [i \in 1 .. Len(r.events) |-> Event(id, r.events[i])] \o
  (IF r.dropped > 0 THEN <<Marker(id)>> ELSE <<>>)

(* subscription.subscribe: the reply goes first, the replay follows. *)
Subscribe(m) ==
  LET id == srv.ids + 1
      r  == replay(buf, m.cur)
      snap == IF r.hint # NoEvent THEN r.hint ELSE IF r.dropped > 0 THEN OtherEvent ELSE NoEvent
      s  == [srv EXCEPT !.ids = id, !.regs = Append(@, id)]
  IN \E d \in Dispatched(Append(s2c, Reply(m.key, id, snap)), ReplayFrames(id, r)) :
       /\ s2c' = d.q /\ Throttled(d)
       /\ srv' = IF d.cut THEN Gone(s) ELSE s

Unsubscribe(m) ==
  IF Contains(srv.regs, m.id)
    THEN /\ s2c' = s2c \o <<Reply(m.key, m.id, NoEvent), Unsubscribed(m.id)>>
         /\ srv' = [srv EXCEPT !.regs = Remove(@, m.id)]
    ELSE s2c' = Append(s2c, Failure(m.key)) /\ UNCHANGED srv

(* onMessage of a WebSocket connection. *)
OnMessage ==
  /\ srv.conn = "ws" /\ c2s # <<>>
  /\ LET m == Head(c2s) IN
       \/ /\ m.k = "initialize" /\ s2c' = Append(s2c, Reply(InitKey, 0, NoEvent))
          /\ UNCHANGED <<srv, used>>
       \/ m.k = "subscribe" /\ Subscribe(m)
       \/ /\ m.k = "subscribe" /\ Use("upsets", MaxUpsets)      \* scope-denied
          /\ s2c' = Append(s2c, Failure(m.key)) /\ UNCHANGED srv
       \/ m.k = "unsubscribe" /\ Unsubscribe(m) /\ UNCHANGED used
  /\ c2s' = Tail(c2s)
  /\ UNCHANGED buf

(* The client closed the socket: onClose. *)
OnClose ==
  /\ c2s # <<>> /\ Head(c2s).k = "bye"
  /\ c2s' = <<>> /\ srv' = Gone(srv)
  /\ UNCHANGED <<buf, s2c, used>>

-----------------------------------------------------------------------------
(* GET /sessions/:id/events: the first replay is written frame by frame.   *)
SseRequest ==
  /\ c2s # <<>> /\ Head(c2s).k = "sse" /\ srv.up
  /\ LET r == replay(buf, Head(c2s).cur) IN
       srv' = [Gone(srv) EXCEPT !.conn = "sse", !.sse =
                 [SseOff EXCEPT !.pc = "replay", !.todo = r.events, !.mark = r.dropped > 0]]
  /\ c2s' = <<>> /\ s2c' = <<Open>>
  /\ UNCHANGED <<buf, used>>

SseReplay ==
  /\ srv.sse.pc = "replay" /\ srv.sse.todo # <<>>
  /\ s2c' = Append(s2c, Event(0, Head(srv.sse.todo)))
  /\ srv' = [srv EXCEPT !.sse.last = Head(srv.sse.todo), !.sse.todo = Tail(@)]
  /\ UNCHANGED <<buf, c2s, used>>

SseMarker ==
  /\ srv.sse.pc = "replay" /\ srv.sse.todo = <<>> /\ srv.sse.mark
  /\ s2c' = Append(s2c, Marker(0))
  /\ srv' = [srv EXCEPT !.sse.mark = FALSE]
  /\ UNCHANGED <<buf, c2s, used>>

(* Then the live tail: a subscription whose own replay, from the last      *)
(* frame written if there was one, goes to the queue.                      *)
SseSubscribe ==
  LET h == srv.sse  r == replay(buf, h.last) IN
  /\ h.pc = "replay" /\ h.todo = <<>> /\ ~h.mark
  /\ srv' = [srv EXCEPT !.regs = <<0>>,
                        !.sse = FoldLeft(sseSend, [h EXCEPT !.pc = "tail"], ReplayFrames(0, r))]
  /\ UNCHANGED <<buf, c2s, s2c, used>>

(* The tail loop: an overflow ends the stream, frames other than events    *)
(* and lifecycle frames are skipped.                                       *)
SseTail ==
  LET h == srv.sse IN
  /\ h.pc = "tail" /\ (h.full \/ h.queue # <<>>)
  /\ IF h.full THEN s2c' = Append(s2c, Close(FALSE)) /\ srv' = Gone(srv)
     ELSE /\ s2c' = IF Head(h.queue).k = "marker" THEN s2c ELSE Append(s2c, Head(h.queue))
          /\ srv' = [srv EXCEPT !.sse.queue = Tail(@)]
  /\ UNCHANGED <<buf, c2s, used>>

-----------------------------------------------------------------------------
(* emit: the event is buffered, then dispatched to every subscription. *)
Emit ==
  LET b == push(buf) IN
  /\ srv.up /\ buf.hi < MaxEvents
  /\ buf' = b
  /\ IF srv.conn = "sse"
       THEN /\ srv' = [srv EXCEPT !.sse =
                         IF srv.regs = <<>> THEN @ ELSE sseSend(@, Event(0, b.hi))]
            /\ UNCHANGED <<s2c, used>>
       ELSE \E d \in Dispatched(s2c, [i \in 1 .. Len(srv.regs) |-> Event(srv.regs[i], b.hi)]) :
              s2c' = d.q /\ Throttled(d) /\ srv' = IF d.cut THEN Gone(srv) ELSE srv
  /\ UNCHANGED c2s

(* Events pass their TTL, and the sweep or the next push or replay drops them. *)
Prune ==
  /\ srv.up /\ Use("upsets", MaxUpsets)
  /\ \E k \in 1 .. Size(buf) : buf' = prune(buf, k)
  /\ UNCHANGED <<srv, c2s, s2c>>

(* shutdown: every WebSocket subscription is told, then the socket closed;  *)
(* the handle of an SSE stream throws the frame away with its queue.        *)
Shutdown ==
  /\ srv.up /\ Use("upsets", MaxUpsets)
  /\ s2c' = CASE srv.conn = "ws" -> s2c \o [i \in 1 .. Len(srv.regs) |-> Aborted(srv.regs[i])]
                                        \o <<Close(FALSE)>>
              [] srv.conn = "sse" -> Append(s2c, Close(FALSE))
              [] OTHER -> s2c
  /\ srv' = [Gone(srv) EXCEPT !.up = FALSE]
  /\ buf' = EmptyBuffer(buf.hi)
  /\ UNCHANGED c2s

(* The process starts again, with an empty buffer. *)
Restart ==
  /\ ~srv.up
  /\ srv' = [srv EXCEPT !.up = TRUE]
  /\ UNCHANGED <<buf, c2s, s2c, used>>

ServerNext == Accept \/ Refuse \/ OnMessage \/ OnClose \/ SseRequest \/ SseReplay
              \/ SseMarker \/ SseSubscribe \/ SseTail \/ Emit \/ Prune \/ Shutdown \/ Restart
=============================================================================
