-------------------------------- MODULE EventWire --------------------------------
(***************************************************************************)
(* The connection between a client and the server: one at a time, first in *)
(* first out both ways.  A cut loses what is in flight and the client      *)
(* finds out by a close event; a close by the server comes after the       *)
(* frames it sent before.                                                  *)
(***************************************************************************)
EXTENDS Integers, Sequences

CONSTANTS Subs,         \* subscription objects of the client
          NoSub,        \* not one of them
          MaxUpsets     \* bound: cuts, expiries, refusals, restarts, and calls that end a stream

VARIABLES c2s, s2c,     \* frames under way
          used          \* how much of the bounds is used up

(* Requests and their answers are correlated by a key: who asks, and for   *)
(* which subscription.  A reconnect loop asks under its own number.        *)
AppSubscribe == 0
AppUnsubscribe == -1
Initialize == -2
InitKey == [by |-> Initialize, x |-> NoSub]

Open == [k |-> "open"]
Close(fatal) == [k |-> "close", fatal |-> fatal]
Reply(key, id, snap) == [k |-> "ok", key |-> key, id |-> id, snap |-> snap]
Failure(key) == [k |-> "err", key |-> key]
Event(id, e) == [k |-> "event", id |-> id, e |-> e]
Marker(id) == [k |-> "marker", id |-> id]
Aborted(id) == [k |-> "lifecycle", id |-> id]
Unsubscribed(id) == [k |-> "unsubscribed", id |-> id]

Use(b, max) == used[b] < max /\ used' = [used EXCEPT ![b] = @ + 1]
=============================================================================
