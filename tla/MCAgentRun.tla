------------------------------- MODULE MCAgentRun -------------------------------
(***************************************************************************)
(* Small families of agents.                                               *)
(***************************************************************************)
EXTENDS AgentRun

CONSTANTS root, kidA, kidB, a, b, g, h, ser, x, y

MCRuns == {root, kidA, kidB}
MCCalls == {a, b, g, h, ser, x, y}

(* x and y start a child each, g and h need approval, ser is sequential. *)
Kinds == (a :> "plain") @@ (b :> "plain") @@ (g :> "gated") @@ (h :> "gated") @@ (ser :> "serial")
         @@ (x :> "child") @@ (y :> "child")
Script(r, ka, kb) == (root :> r) @@ (kidA :> ka) @@ (kidB :> kb)
May0 == [resumes |-> 0, crashes |-> 0, reloads |-> 0, aborts |-> 0, faults |-> 0, refusals |-> 0, retries |-> 0,
         rejects |-> 0]

Base ==
  [kind |-> Kinds, safe |-> {b}, kid |-> [c \in MCCalls |-> IF c = x THEN kidA ELSE kidB],
   script |-> Script(<<>>, <<>>, <<>>), parallel |-> 2, attempts |-> 2, maxSteps |-> 20, budget |-> 20,
   chain |-> 1, rounds |-> 0, policies |-> {}, erase |-> FALSE, may |-> May0]

(* Gated calls between others, aborts and crashes. *)
Gates ==
  [Base EXCEPT !.script = Script(<< <<a, g, ser, h>> >>, <<>>, <<>>),
               !.policies = {"deny", "hold"},
               !.may = [May0 EXCEPT !.resumes = 3, !.crashes = 1, !.reloads = 1, !.aborts = 1]]
(* A second gated step, finished threads erased, checkpoints refused; the  *)
(* tool of one of the gated calls is read-only.                            *)
Twice ==
  [Base EXCEPT !.script = Script(<< <<g>>, <<h>> >>, <<>>, <<>>), !.erase = TRUE, !.safe = {g},
               !.may = [May0 EXCEPT !.resumes = 4, !.crashes = 2, !.reloads = 1, !.rejects = 1, !.retries = 2]]
(* Two children that use the same call id, and a gated call of the parent. *)
Family ==
  [Base EXCEPT !.script = Script(<< <<x, g, y>> >>, << <<g>>, <<h>> >>, << <<g, h>> >>),
               !.policies = {"hold"},
               !.may = [May0 EXCEPT !.resumes = 3, !.aborts = 1]]
(* A grandchild; crashes and refused checkpoints between the levels. *)
Nested ==
  [Base EXCEPT !.script = Script(<< <<x>> >>, << <<y>> >>, << <<g, h>> >>),
               !.may = [May0 EXCEPT !.resumes = 3, !.crashes = 1, !.reloads = 1, !.faults = 1, !.rejects = 1]]
(* Provider faults, retries, refusals, verifier rounds, budget and stop    *)
(* condition.                                                              *)
Provider ==
  [Base EXCEPT !.script = Script(<< <<b, a, ser>>, <<x>> >>, << <<b>> >>, <<>>),
               !.safe = {b, ser}, !.chain = 2, !.rounds = 1, !.maxSteps = 4, !.budget = 4,
               !.policies = {"deny"},
               !.may = [May0 EXCEPT !.faults = 2, !.refusals = 1, !.retries = 2, !.aborts = 1]]
(* A call the policy denies, and an abort that fails the run. *)
Denied ==
  [Base EXCEPT !.script = Script(<< <<a, b, g, h>> >>, <<>>, <<>>), !.kind = [Kinds EXCEPT ![b] = "denied"],
               !.policies = {"fail"}, !.maxSteps = 2, !.erase = TRUE,
               !.may = [May0 EXCEPT !.aborts = 1, !.faults = 1]]

MCScenarios == {Gates, Twice, Family, Nested, Provider, Denied}
=============================================================================
