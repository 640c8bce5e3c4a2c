-------------------------------- MODULE MCFrontDoor --------------------------------
(* Instances of FrontDoor for TLC. *)
EXTENDS FrontDoor

Peer(c, n) == [channel |-> c, name |-> n]
Ann == Peer("tg", "ann")
Bob == Peer("tg", "bob")
Cleo == Peer("mx", "cleo")

S(policy, peers, allow, runners, gate, grant, bound) ==
  [policy |-> policy, peers |-> peers, channels |-> {p.channel : p \in peers}, allowlist |-> allow,
   maxPending |-> 1, ttl |-> 1, queueLimit |-> 2, maxDefers |-> 2,
   runners |-> runners, gate |-> gate, grant |-> grant,
   bound |-> [e \in Events |-> IF e \in DOMAIN bound THEN bound[e] ELSE 0]]

(* Two peers on one channel pair, one at a time; codes expire, a stop. *)
Pairing == S("pairing", {Ann, Bob}, {}, {}, "own", "notify",
             [message |-> 3, tick |-> 2, approve |-> 2, revoke |-> 1, stop |-> 1])

(* Two channels, checks that overlap, one agent behind both, two codes each. *)
Channels == [S("pairing", {Ann, Cleo}, {}, {}, "own", "notify",
               [message |-> 3, approve |-> 1, fault |-> 1]) EXCEPT !.maxPending = 2]

(* A full queue, stopped and started again; peers off the list. *)
Listed == S("allowlist", {Ann, Bob}, {Ann}, {}, "own", "notify",
            [message |-> 4, stop |-> 1, fault |-> 1])

Closed == S("disabled", {Ann}, {}, {}, "own", "notify", [message |-> 2, stop |-> 1])

(* A heartbeat that defers while the handler's agent is busy. *)
Heart == S("open", {Ann}, {}, {"heart"}, "chat", "notify",
           [message |-> 2, fire |-> 3, manual |-> 1, stop |-> 2, window |-> 1])

(* A heartbeat gated on its own agent, and tasks of every grant. *)
Runners(grant) == S("open", {Ann}, {}, {"heart", "task"}, "own", grant,
                    [fire |-> 3, manual |-> 1, stop |-> 1, window |-> 1])

AllScenarios ==
  {Pairing, Channels, Listed, Closed, Heart}
    \union {Runners(g) : g \in {"notify", "question", "review", "act"}}
=============================================================================
