------------------------------- MODULE EventStream -------------------------------
(***************************************************************************)
(* Client and server of the event stream over connections that break: what *)
(* a subscription object of the client promises its consumer while the     *)
(* connection under it is cut, throttled, refused and opened again.        *)
(***************************************************************************)
EXTENDS EventServer, EventClient, FiniteSets

vars == <<buf, srv, pref, cl, c2s, s2c, used>>

Init ==
  /\ ServerInit /\ ClientInit
  /\ c2s = <<>> /\ s2c = <<>>
  /\ used = [upsets |-> 0]

(* The network loses the connection and everything in flight. *)
Cut ==
  /\ cl.link # "none" /\ \A i \in DOMAIN s2c : s2c[i].k # "close"
  /\ Use("upsets", MaxUpsets)
  /\ s2c' = <<Close(FALSE)>> /\ c2s' = <<>> /\ srv' = Gone(srv)
  /\ UNCHANGED <<buf, pref, cl>>

Next ==
  \/ ServerNext /\ UNCHANGED <<pref, cl>>
  \/ (ClientStep \/ ClientCall) /\ UNCHANGED <<buf, srv, pref>>
  \/ Cut

Spec == Init /\ [][Next]_vars

(* Fairness: the server answers what it received and writes what it has to *)
(* write, a process that went down is started again, and the client's      *)
(* event loop runs what is ready.  Nothing is assumed of the application,  *)
(* of emitted events or of the network.                                    *)
ServerWork == Accept \/ Refuse \/ OnMessage \/ OnClose \/ SseRequest \/ SseReplay
              \/ SseMarker \/ SseSubscribe \/ SseTail \/ Restart
Fairness == /\ WF_vars(ServerWork /\ UNCHANGED <<pref, cl>>)
            /\ WF_vars(ClientStep /\ UNCHANGED <<buf, srv, pref>>)
FairSpec == Spec /\ Fairness

-----------------------------------------------------------------------------
Sub(x) == cl.sub[x]
OverWs(x) == Sub(x).sid # SseKey

(* Whatever happens to the connections, the consumer of a WebSocket        *)
(* subscription sees the events of the subject in the order they were      *)
(* emitted and none of them twice: the cursor, the buffered early frames   *)
(* and the ids of dead subscriptions keep replay and live frames apart.    *)
(* And a consumer that has seen an event misses a later one only when the  *)
(* replay buffer had dropped it by its cap, its TTL or a restart.          *)
Delivered ==
  \A x \in Subs : \A i \in 1 .. Len(Sub(x).got) - 1 :
    LET e == Sub(x).got[i] next == Sub(x).got[i + 1] IN
    /\ OverWs(x) => e < next
    /\ \A skipped \in e + 1 .. next - 1 : skipped < buf.lo

(* No consumer is left waiting for ever: a subscription is eventually      *)
(* closed, or its cursor is at the newest event of the buffer, as long as  *)
(* the application has not disconnected.  What an SSE connection streams   *)
(* before the application subscribes is not counted.                       *)
CaughtUp(x) == (OverWs(x) \/ Sub(x).got # <<>>) => \A e \in Held(buf) : e <= Sub(x).cursor
CatchesUp == \A x \in Subs : <>[](cl.closed \/ Sub(x).st \notin {"wait", "open"} \/ CaughtUp(x))
=============================================================================
