------------------------------- MODULE ChannelAccess -------------------------------
(***************************************************************************)
(* Who may talk: the access controller of the channel gateway and the      *)
(* pairing store it reads and writes.                                      *)
(*                                                                         *)
(* A check under the pairing policy is a chain of awaited store calls; its *)
(* steps are operators on the record of the message being processed, and   *)
(* the gateway takes one at a time.  The operator approves one code at a   *)
(* time, in three store calls, while checks are under way.  A code is the  *)
(* number of codes issued before it: codes never collide.                  *)
(***************************************************************************)
EXTENDS Integers, Sequences, FiniteSets, Functions

CONSTANT Scenarios   \* a front door: its policy, limits, peers, tasks and bounds

Events == {"message", "tick", "approve", "revoke", "stop", "fault", "fire", "manual", "window"}

ASSUME ScenariosAssumption ==
  \A s \in Scenarios :
    /\ s.policy \in {"pairing", "allowlist", "open", "disabled"}
    /\ DOMAIN s.bound = Events /\ \A e \in Events : s.bound[e] \in Nat
    /\ s.queueLimit \in Nat \ {0} /\ s.maxPending \in Nat \ {0} /\ s.ttl \in Nat \ {0}
    /\ s.peers # {} /\ \A p \in s.peers : p.channel \in s.channels

VARIABLES cf,        \* the scenario, frozen
          used,      \* how much of its bounds is used up
          clock,     \* the controller's clock
          requests,  \* channel_pairing_requests
          paired,    \* channel_paired_peers
          issued,    \* codes generated
          approval,  \* the operator's approve() in progress
          consumed   \* codes an approve() has taken; live: it paired the peer while the
                     \* code was good (history)

accessVars == <<requests, paired, issued, approval, consumed>>

May(e) == used[e] < cf.bound[e]
Spend(e) == used' = [used EXCEPT ![e] = @ + 1]

Idle == [pc |-> "idle"]

AccessInit ==
  /\ requests = {} /\ paired = {} /\ issued = 0 /\ approval = Idle /\ consumed = {}

Live(r, now) == r.expires > now
Pending(ch, now) == {r \in requests : r.peer.channel = ch /\ Live(r, now)}

-----------------------------------------------------------------------------
(* check(): w is the message under way.  The policies other than pairing   *)
(* answer at once.                                                         *)
CheckBegins(msg) ==
  LET allowed == cf.policy = "open" \/ (cf.policy = "allowlist" /\ msg.peer \in cf.allowlist)
  IN [pc |-> IF cf.policy = "pairing" THEN "isPaired" ELSE IF allowed THEN "allowed" ELSE "refused",
      msg |-> msg, at |-> 0, code |-> 0]

(* Mutant of FindRequest: a pending code is not looked for. *)
FindRequestNever(w) == [w EXCEPT !.pc = "prune", !.at = clock]

IsPaired(w) == [w EXCEPT !.pc = IF w.msg.peer \in paired THEN "allowed" ELSE "find"]

(* The clock is read here, and used by the calls that follow. *)
FindRequest(w) ==
  [w EXCEPT !.at = clock,
            !.pc = IF \E r \in Pending(w.msg.peer.channel, clock) : r.peer = w.msg.peer
                   THEN "refused" ELSE "prune"]

(* Mutant of CountPending: the limit is one too high. *)
CountPendingOver(w) ==
  [w EXCEPT !.pc = IF Cardinality(Pending(w.msg.peer.channel, w.at)) > cf.maxPending
                   THEN "refused" ELSE "issue"]

CountPending(w) ==
  [w EXCEPT !.pc = IF Cardinality(Pending(w.msg.peer.channel, w.at)) >= cf.maxPending
                   THEN "refused" ELSE "issue"]

IssueCode(w) == [w EXCEPT !.pc = "refused", !.code = issued + 1]

CheckStep(w) ==
  CASE w.pc = "isPaired" -> IsPaired(w)
    [] w.pc = "find"     -> FindRequest(w)
    [] w.pc = "prune"    -> [w EXCEPT !.pc = "count"]
    [] w.pc = "count"    -> CountPending(w)
    [] w.pc = "issue"    -> IssueCode(w)

Checking == {"isPaired", "find", "prune", "count", "issue"}

(* What the step writes: pruneExpiredRequests() and upsertRequest(). *)
PruneRequests(now) == {r \in requests : Live(r, now)}
UpsertRequest(w) ==
  {r \in requests : r.peer # w.msg.peer}
    \union {[peer |-> w.msg.peer, code |-> issued + 1, expires |-> w.at + cf.ttl]}

CheckWrites(w) ==
  /\ requests' = CASE w.pc = "prune" -> PruneRequests(w.at)
                   [] w.pc = "issue" -> UpsertRequest(w)
                   [] OTHER          -> requests
  /\ issued' = IF w.pc = "issue" THEN issued + 1 ELSE issued
  /\ UNCHANGED <<paired, approval, consumed>>

-----------------------------------------------------------------------------
(* approve(): findRequestByCode(), deleteRequest(), addPairedPeer(). *)
ApproveFinds ==
  /\ May("approve") /\ approval = Idle
  /\ \E r \in requests :
       approval' = [pc |-> "delete", peer |-> r.peer, code |-> r.code, expires |-> r.expires]
  /\ Spend("approve")
  /\ UNCHANGED <<cf, clock, requests, paired, issued, consumed>>

ApproveDeletes ==
  /\ approval.pc = "delete"
  /\ requests' = {r \in requests : r.code # approval.code}
  /\ approval' = [approval EXCEPT !.pc = "pair"]
  /\ UNCHANGED <<cf, used, clock, paired, issued, consumed>>

(* Mutant of ApprovePairs: the age of the code is not looked at. *)
ApprovePairsStale ==
  /\ approval.pc = "pair"
  /\ paired' = paired \union {approval.peer}
  /\ consumed' = consumed \union {[peer |-> approval.peer, code |-> approval.code,
                                   live |-> Live(approval, clock)]}
  /\ approval' = Idle
  /\ UNCHANGED <<cf, used, clock, requests, issued>>

ApprovePairs ==
  /\ approval.pc = "pair"
  /\ IF Live(approval, clock)
     THEN /\ paired' = paired \union {approval.peer}
          /\ consumed' = consumed \union {[peer |-> approval.peer, code |-> approval.code,
                                           live |-> TRUE]}
     ELSE UNCHANGED <<paired, consumed>>
  /\ approval' = Idle
  /\ UNCHANGED <<cf, used, clock, requests, issued>>

(* A store call of approve() rejects, or its process dies: once the        *)
(* request is deleted, the code is lost.                                   *)
ApproveFails ==
  /\ approval # Idle /\ May("fault") /\ Spend("fault")
  /\ consumed' = IF approval.pc = "delete" THEN consumed
                 ELSE consumed \union {[peer |-> approval.peer, code |-> approval.code,
                                        live |-> FALSE]}
  /\ approval' = Idle
  /\ UNCHANGED <<cf, clock, requests, paired, issued>>

Revoke(p) ==
  /\ May("revoke") /\ approval = Idle /\ p \in paired
  /\ paired' = paired \ {p}
  /\ Spend("revoke")
  /\ UNCHANGED <<cf, clock, requests, issued, approval, consumed>>

Tick ==
  /\ May("tick") /\ clock' = clock + 1 /\ Spend("tick")
  /\ UNCHANGED <<cf, requests, paired, issued, approval, consumed>>

Operator ==
  \/ ApproveFinds \/ ApproveDeletes \/ ApprovePairs \/ ApproveFails
  \/ \E p \in paired : Revoke(p)
=============================================================================
