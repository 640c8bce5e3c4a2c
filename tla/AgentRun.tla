-------------------------------- MODULE AgentRun --------------------------------
(***************************************************************************)
(* Runs of agents: the loop of model steps and tool calls, calls that wait *)
(* for a human, children that park on their parent, abort, and the         *)
(* checkpoint from which a host resumes after a suspend or a crash.        *)
(*                                                                         *)
(* A child is an agent like its parent and runs the same code: every       *)
(* action takes the run it is a step of.  Steps of one run between two     *)
(* awaits are one action.                                                  *)
(***************************************************************************)
EXTENDS ToolExecutor

CONSTANT Root   \* the run the host starts; the others are its descendants

VARIABLES
  st,      \* st[r]: the RunState of r, the part of it that is serialized
  me,      \* me[r]: the run loop of r in memory
  saved,   \* the root's row of the checkpoint store: <<>> or <<st>>
  granted  \* pairs of run and call the host ever granted

vars == <<cf, ex, ran, used, st, me, saved, granted>>

NoRun == [status |-> "none", steps |-> 0, pos |-> 0, announced |-> {}, told |-> [c \in Calls |-> 0],
          journal |-> {}, pending |-> <<>>, parks |-> {}, usage |-> 0, own |-> 0, torn |-> FALSE]
Fresh == [NoRun EXCEPT !.status = "running"]

Idle == [at |-> "idle", todo |-> <<>>, batch |-> <<>>, asked |-> FALSE, after |-> "walk", routed |-> <<>>,
         aborted |-> FALSE, policy |-> "deny", cand |-> 1, squeezed |-> FALSE, rounds |-> 0]
(* A run entering its loop; it listens to the signal of its parent. *)
Entered(signal) == [Idle EXCEPT !.at = "top", !.aborted = signal]

(* A request for approval; path leads from this run to the run that asks. *)
Approval(c, path) == [call |-> c, path |-> path]
Asker(r, a) == IF a.path = <<>> THEN r ELSE cf.kid[Last(a.path)]

(* One tool message for every call of S in the transcript. *)
Say(s, S) == [s EXCEPT !.told = [c \in Calls |-> IF c \in S THEN @[c] + 1 ELSE @[c]]]
(* The same for calls with an outcome, which the step journal records. *)
Tell(s, S) == [Say(s, S) EXCEPT !.journal = @ \cup S]

Snapshot(r, s) == <<[st EXCEPT ![r] = s]>>
Put(r, s) == saved' = IF r = Root THEN Snapshot(r, s) ELSE saved

(* The run stands at another point of its loop. *)
Moves(r, s, m) == st' = [st EXCEPT ![r] = s] /\ me' = [me EXCEPT ![r] = m]

(* A checkpoint is refused while the decisions of a resume are worked off, *)
(* before the loop's own catch is entered: the run is thrown out of, and   *)
(* the state object the host passed in stays as far as it was changed.     *)
Throws(r, s) == r = Root /\ May("rejects") /\ Moves(r, [s EXCEPT !.torn = TRUE], Idle) /\ UNCHANGED saved

(* finishRun: the result is handed out; a finished thread may be erased. *)
Ends(r, s) ==
  /\ Moves(r, s, Idle)
  /\ saved' = IF r = Root /\ cf.erase /\ s.status \in {"completed", "failed"} THEN <<>> ELSE saved

Init ==
  /\ cf \in Scenarios
  /\ ex = NoBatch
  /\ ran = [r \in Runs |-> [c \in Calls |-> 0]]
  /\ used = [e \in DOMAIN cf.may |-> 0]
  /\ st = [r \in Runs |-> NoRun] /\ me = [r \in Runs |-> Idle]
  /\ saved = <<>> /\ granted = {}

(* The host starts the run; an input guardrail may block it. *)
Start ==
  /\ st[Root].status = "none" /\ me[Root].at = "idle"
  /\ \/ Moves(Root, Fresh, Entered(FALSE)) /\ UNCHANGED <<saved, used>>
     \/ May("faults") /\ Ends(Root, [Fresh EXCEPT !.status = "failed"])
  /\ UNCHANGED <<cf, ex, ran, granted>>

-----------------------------------------------------------------------------
(* Cancellation. *)

(* emitCancellation: what an abort makes of the pending approvals. *)
Cancelled(s, policy) ==
  LET Denied(c) == Len(SelectSeq(s.pending, LAMBDA a : a.call = c)) IN
  CASE policy = "deny" -> [s EXCEPT !.told = [c \in Calls |-> @[c] + Denied(c)],
                                    !.pending = <<>>, !.status = "aborted"]
    [] policy = "fail" /\ s.pending # <<>> -> [s EXCEPT !.status = "failed"]
    [] OTHER -> [s EXCEPT !.status = "aborted"]

(* agent.abort(): the signal reaches every run under way; the policy is    *)
(* known to the agent that was called.                                     *)
Abort ==
  /\ me[Root].at # "idle" /\ ~me[Root].aborted /\ May("aborts")
  /\ \E policy \in cf.policies :
       me' = [r \in Runs |-> IF me[r].at = "idle" THEN me[r]
                             ELSE [me[r] EXCEPT !.aborted = TRUE,
                                                !.policy = IF r = Root THEN policy ELSE @]]
  /\ UNCHANGED <<cf, ex, ran, st, saved, granted>>

-----------------------------------------------------------------------------
(* The loop and its model step. *)

(* The top of the loop: stop condition, abort, budget, next request. *)
Top(r) ==
  LET s == st[r] IN
  /\ me[r].at = "top"
  /\ IF s.steps >= cf.maxSteps
       THEN Ends(r, [s EXCEPT !.status = IF @ = "running" THEN "failed" ELSE @])
     ELSE IF me[r].aborted THEN Ends(r, Cancelled(s, me[r].policy))
     ELSE IF r = Root /\ s.usage > cf.budget THEN Ends(r, [s EXCEPT !.status = "failed"])
     ELSE Moves(r, s, [me[r] EXCEPT !.at = "model", !.cand = 1, !.squeezed = FALSE]) /\ UNCHANGED saved
  /\ UNCHANGED <<cf, ex, ran, used, granted>>

(* A model response is committed: usage, journal entry, announced calls. *)
Answered(s, calls) ==
  [s EXCEPT !.steps = @ + 1, !.usage = @ + 1, !.own = @ + 1,
            !.pos = IF calls = <<>> THEN @ ELSE @ + 1,
            !.announced = @ \cup Range(calls)]

(* The model asks for the next calls of its script. *)
ModelCalls(r) ==
  LET s == st[r] IN
  /\ me[r].at = "model" /\ s.pos < Len(cf.script[r])
  /\ LET calls == cf.script[r][s.pos + 1] IN
       Moves(r, Answered(s, calls), [me[r] EXCEPT !.at = "walk", !.todo = calls, !.asked = FALSE])
  /\ UNCHANGED <<cf, ex, ran, used, saved, granted>>

(* The model answers: the output checks may fail the run, otherwise it is  *)
(* completed.                                                              *)
ModelAnswers(r) ==
  LET s == Answered(st[r], <<>>) IN
  /\ me[r].at = "model" /\ st[r].pos = Len(cf.script[r])
  /\ \/ Ends(r, [s EXCEPT !.status = "completed"]) /\ UNCHANGED used
     \/ May("faults") /\ Ends(r, [s EXCEPT !.status = "failed"])
  /\ UNCHANGED <<cf, ex, ran, granted>>

(* A verifier rejects the answer while rounds remain: one more step. *)
VerifierRejects(r) ==
  /\ me[r].at = "model" /\ st[r].pos = Len(cf.script[r]) /\ me[r].rounds < cf.rounds /\ May("faults")
  /\ Moves(r, Answered(st[r], <<>>), [me[r] EXCEPT !.at = "top", !.rounds = @ + 1])
  /\ UNCHANGED <<cf, ex, ran, saved, granted>>

(* Whether the fallback chain holds another provider. *)
NextCandidate(r) == me[r].cand < cf.chain

(* The provider fails: one emergency compaction for an overflow, then the  *)
(* next candidate of the chain, then the run.  A response cut in the       *)
(* middle of a call fails the run and is still paid for.                   *)
ModelFails(r) ==
  /\ me[r].at = "model" /\ May("faults")
  /\ \/ /\ ~me[r].squeezed
        /\ Moves(r, st[r], [me[r] EXCEPT !.squeezed = TRUE]) /\ UNCHANGED saved
     \/ /\ NextCandidate(r)
        /\ Moves(r, st[r], [me[r] EXCEPT !.cand = @ + 1]) /\ UNCHANGED saved
     \/ Ends(r, [st[r] EXCEPT !.status = "failed"])
     \/ Ends(r, [st[r] EXCEPT !.status = "failed", !.usage = @ + 1, !.own = @ + 1])
  /\ UNCHANGED <<cf, ex, ran, granted>>

(* The stream is interrupted by the abort before the response is complete. *)
ModelAborts(r) ==
  /\ me[r].at = "model" /\ me[r].aborted
  /\ Ends(r, Cancelled(st[r], me[r].policy))
  /\ UNCHANGED <<cf, ex, ran, used, granted>>

-----------------------------------------------------------------------------
(* The walk over the calls of a step. *)

Inline(c) == cf.kind[c] \in {"gated", "child"}

Flushes(r, after) ==
  /\ ex' = Batch(me[r].batch)
  /\ me' = [me EXCEPT ![r].at = "batch", ![r].batch = <<>>, ![r].after = after]
  /\ UNCHANGED <<cf, ran, used, st, saved, granted>>

(* The calls before a gated call or a child are run first. *)
WalkFlush(r) ==
  /\ me[r].at = "walk" /\ me[r].batch # <<>>
  /\ me[r].todo # <<>> => Inline(Head(me[r].todo))
  /\ Flushes(r, "walk")

(* A call that needs approval is collected; the walk goes on. *)
WalkGate(r) ==
  LET c == Head(me[r].todo) IN
  /\ me[r].at = "walk" /\ me[r].todo # <<>> /\ cf.kind[c] = "gated" /\ me[r].batch = <<>>
  /\ Moves(r, [st[r] EXCEPT !.pending = Append(@, Approval(c, <<>>))],
           [me[r] EXCEPT !.todo = Tail(@), !.asked = TRUE])
  /\ UNCHANGED <<cf, ex, ran, used, saved, granted>>

(* Denied by name, by permission or by its arguments: failed at once.      *)
(* Otherwise the call joins the batch.                                     *)
WalkCall(r) ==
  LET c == Head(me[r].todo)
      rest == [me[r] EXCEPT !.todo = Tail(@)] IN
  /\ me[r].at = "walk" /\ me[r].todo # <<>> /\ ~Inline(c)
  /\ IF cf.kind[c] = "denied" THEN Moves(r, Tell(st[r], {c}), rest)
     ELSE Moves(r, st[r], [rest EXCEPT !.batch = Append(@, c)])
  /\ UNCHANGED <<cf, ex, ran, used, saved, granted>>

(* A handoff or a sub-agent tool: the child runs inline under the signal   *)
(* of its parent.                                                          *)
WalkChild(r) ==
  LET c == Head(me[r].todo) IN
  /\ me[r].at = "walk" /\ me[r].todo # <<>> /\ cf.kind[c] = "child" /\ me[r].batch = <<>>
  /\ st' = [st EXCEPT ![cf.kid[c]] = Fresh]
  /\ me' = [me EXCEPT ![r].at = "child", ![cf.kid[c]] = Entered(me[r].aborted)]
  /\ UNCHANGED <<cf, ex, ran, used, saved, granted>>

(* The approvals of a parked child as its parent shows them. *)
Mirrored(c, k) == [i \in DOMAIN k.pending |-> Approval(k.pending[i].call, <<c>> \o k.pending[i].path)]

(* Mutant: a child that parks is charged to its parent at once. *)
ParkedFolded(s, c, k) ==
  [s EXCEPT !.parks = @ \cup {c}, !.pending = @ \o Mirrored(c, k), !.usage = @ + k.usage]

(* A child that waits for approval parks on its parent. *)
Parked(s, c, k) == [s EXCEPT !.parks = @ \cup {c}, !.pending = @ \o Mirrored(c, k)]

(* Any other end of a child is the outcome of its call, and its usage is   *)
(* folded into the parent's.                                               *)
Folded(s, c, k) == [Tell(s, {c}) EXCEPT !.usage = @ + k.usage, !.parks = @ \ {c}]

(* runSubAgentCall: the child's stream has ended. *)
ChildEnds(r) ==
  LET c == Head(me[r].todo)
      k == st[cf.kid[c]]
      rest == [me[r] EXCEPT !.at = "walk", !.todo = Tail(@)] IN
  /\ me[r].at = "child" /\ me[cf.kid[c]].at = "idle"
  /\ IF k.status = "awaiting" THEN Moves(r, Parked(st[r], c, k), [rest EXCEPT !.asked = TRUE])
     ELSE Moves(r, Folded(st[r], c, k), rest)
  /\ UNCHANGED <<cf, ex, ran, used, saved, granted>>

(* The end of the walk: suspend once for everything collected, unless an   *)
(* abort came in between; either way the resulting state is saved.  A      *)
(* checkpoint that is refused here fails the run.                          *)
WalkEnds(r) ==
  LET waits == [st[r] EXCEPT !.status = "awaiting"]
      s == IF me[r].aborted THEN Cancelled(waits, me[r].policy) ELSE waits IN
  /\ me[r].at = "walk" /\ me[r].todo = <<>> /\ me[r].batch = <<>>
  /\ \/ ~me[r].asked /\ Moves(r, st[r], [me[r] EXCEPT !.at = "top"]) /\ UNCHANGED <<saved, used>>
     \/ /\ me[r].asked /\ Moves(r, s, Idle) /\ UNCHANGED used
        /\ IF r = Root /\ cf.erase /\ s.status = "failed" THEN saved' = <<>> ELSE Put(r, s)
     \/ me[r].asked /\ r = Root /\ May("rejects") /\ Ends(r, [s EXCEPT !.status = "failed"])
  /\ UNCHANGED <<cf, ex, ran, granted>>

-----------------------------------------------------------------------------
(* Resuming. *)

(* Where the loop goes when the decisions are worked off: a run that still *)
(* waits is returned, any other enters the loop.                           *)
Reentry(s) == IF s.status = "awaiting" \/ (s.status = "aborted" /\ s.pending # <<>>) THEN "idle" ELSE "top"

(* The decisions yes and no of s, split by the parked call they lead to,   *)
(* in the order of the approvals.                                          *)
Heads(s, decided) ==
  LET heads == SelectSeq(s.pending, LAMBDA a : a \in decided /\ a.path # <<>>) IN
  FoldLeft(LAMBDA seq, a : IF Contains(seq, Head(a.path)) THEN seq ELSE Append(seq, Head(a.path)), <<>>, heads)
Stripped(D, c) == {Approval(a.call, Tail(a.path)) : a \in {b \in D : b.path # <<>> /\ Head(b.path) = c}}
Routed(s, yes, no) ==
  [i \in DOMAIN Heads(s, yes \cup no) |->
     LET c == Heads(s, yes \cup no)[i] IN [park |-> c, yes |-> Stripped(yes, c), no |-> Stripped(no, c)]]

(* Mutant: decisions are matched by the call id alone. *)
GrantedCallsById(s, yes) ==
  LET own == SelectSeq(s.pending, LAMBDA a : a.path = <<>> /\ \E b \in yes : b.call = a.call) IN
  [i \in DOMAIN own |-> own[i].call]

(* The granted calls of the run itself that have not run yet. *)
GrantedCalls(s, yes) ==
  LET own == SelectSeq(s.pending, LAMBDA a :
               a \in yes /\ a.path = <<>> /\ ~(a.call \in s.journal /\ s.told[a.call] > 0)) IN
  [i \in DOMAIN own |-> own[i].call]

(* processResumeDirective: the decided approvals leave the queue, a denied *)
(* call gets its tool message, and the run goes on when nothing is left.   *)
Decide(s, yes, no) ==
  LET left == SelectSeq(s.pending, LAMBDA a : a \notin yes \cup no)
      denied == {a.call : a \in {b \in no : b.path = <<>>}} IN
  [Say(s, denied) EXCEPT !.pending = left,
                         !.status = IF s.pending # <<>> /\ left = <<>> THEN "running" ELSE @]

(* The write-ahead intent: the granted approvals are attached again. *)
Intent(s, calls) ==
  [s EXCEPT !.status = "awaiting", !.pending = [i \in DOMAIN calls |-> Approval(calls[i], <<>>)] \o @]

(* A run resumed with decisions: its state and the point it stands at. *)
Resumed(s, yes, no, signal) ==
  LET d == Decide(s, yes, no)
      calls == GrantedCalls(s, yes)
      routed == Routed(s, yes, no)
      m == [Entered(signal) EXCEPT !.routed = routed] IN
  IF d.status = "failed" THEN [s |-> d, m |-> Idle]
  ELSE IF calls # <<>> THEN [s |-> d, m |-> [m EXCEPT !.at = "intent", !.batch = calls]]
  ELSE IF routed # <<>> THEN [s |-> [d EXCEPT !.steps = @ + 1], m |-> [m EXCEPT !.at = "route"]]
  ELSE [s |-> d, m |-> IF Reentry(d) = "idle" THEN Idle ELSE m]

(* The host resumes the run it holds, deciding some of its approvals.      *)
Resume ==
  LET s == st[Root] IN
  /\ me[Root].at = "idle" /\ s.status # "none" /\ May("resumes")
  /\ \E D \in SUBSET Range(s.pending) : \E yes \in SUBSET D :
       LET next == Resumed(s, yes, D \ yes, FALSE)
           Pairs(S) == {<<Asker(Root, a), a.call>> : a \in S} IN
       /\ Moves(Root, next.s, next.m)
       /\ granted' = (granted \ Pairs(D)) \cup Pairs(yes)
       /\ saved' = IF next.s.status = "failed" /\ cf.erase THEN <<>> ELSE saved
  /\ UNCHANGED <<cf, ex, ran>>

(* dispatchResumedApprovals: the intent is saved, then the granted calls   *)
(* are dispatched as one batch.                                            *)
Dispatch(r) ==
  /\ me[r].at = "intent"
  /\ \/ /\ Put(r, Intent(st[r], me[r].batch))
        /\ Moves(r, [st[r] EXCEPT !.steps = @ + 1],
                 [me[r] EXCEPT !.at = "batch", !.batch = <<>>, !.after = "granted"])
        /\ ex' = Batch(me[r].batch) /\ UNCHANGED used
     \/ Throws(r, st[r]) /\ UNCHANGED ex
  /\ UNCHANGED <<cf, ran, granted>>

(* processSubRunResumes: the next parked child is resumed with the         *)
(* decisions meant for it.                                                 *)
Route(r) ==
  /\ me[r].at = "route" /\ me[r].routed # <<>>
  /\ LET to == Head(me[r].routed)
         k == cf.kid[to.park]
         next == Resumed(st[k], to.yes, to.no, me[r].aborted) IN
     /\ st' = [st EXCEPT ![k] = next.s]
     /\ me' = [me EXCEPT ![r].at = "routed", ![k] = next.m]
  /\ UNCHANGED <<cf, ex, ran, used, saved, granted>>

(* Mutant: the approvals a child no longer waits for stay in the queue. *)
ReparkedOver(s, c, k) == [s EXCEPT !.status = "awaiting", !.pending = @ \o Mirrored(c, k)]

(* A child that waits again: what it waits for now replaces what it waited *)
(* for before.                                                             *)
Reparked(s, c, k) ==
  [s EXCEPT !.status = "awaiting",
            !.pending = SelectSeq(@, LAMBDA a : a.path = <<>> \/ Head(a.path) # c) \o Mirrored(c, k)]

(* The resumed child waits again, or its outcome is the parent's. *)
RoutedEnds(r) ==
  /\ me[r].at = "routed"
  /\ LET c == Head(me[r].routed).park
         k == st[cf.kid[c]] IN
     /\ me[cf.kid[c]].at = "idle"
     /\ Moves(r, IF k.status = "awaiting" THEN Reparked(st[r], c, k) ELSE Folded(st[r], c, k),
              [me[r] EXCEPT !.at = "route", !.routed = Tail(@)])
  /\ UNCHANGED <<cf, ex, ran, used, saved, granted>>

(* Every routed decision is worked off: saved, and on to the loop. *)
RouteEnds(r) ==
  /\ me[r].at = "route" /\ me[r].routed = <<>>
  /\ \/ /\ Put(r, st[r]) /\ UNCHANGED used
        /\ Moves(r, st[r], IF Reentry(st[r]) = "idle" THEN Idle ELSE [me[r] EXCEPT !.at = "top"])
     \/ Throws(r, st[r])
  /\ UNCHANGED <<cf, ex, ran, granted>>

(* A step of the executor on behalf of the run that waits for its batch. *)
ToolStep(r) ==
  /\ me[r].at = "batch"
  /\ \E c \in Calls : \/ ToolStarts(r, c) \/ ToolRefused(c) \/ ToolSettles(c)
                      \/ ToolRetries(r, c, me[r].aborted)
  /\ UNCHANGED <<cf, st, me, saved, granted>>

(* Mutant: the results of granted calls are not saved. *)
DispatchedUnsaved(r, s) == UNCHANGED saved

(* The checkpoint after the dispatch of granted calls. *)
Dispatched(r, s) == Put(r, s)

(* dispatchToolBatch after the batch: journal and tool message for every   *)
(* call in call order.  Granted calls are followed by the checkpoint from  *)
(* which nothing of them is dispatched again.                              *)
BatchEnds(r) ==
  LET s == Tell(st[r], Range(ex.of))
      routes == me[r].routed # <<>>
      done == IF routes THEN [s EXCEPT !.steps = @ + 1] ELSE s IN
  /\ me[r].at = "batch" /\ BatchOver
  /\ ex' = NoBatch
  /\ \/ me[r].after = "walk" /\ Moves(r, s, [me[r] EXCEPT !.at = "walk"]) /\ UNCHANGED <<saved, used>>
     \/ /\ me[r].after = "granted"
        /\ Dispatched(r, s) /\ UNCHANGED used
        /\ Moves(r, done, IF routes THEN [me[r] EXCEPT !.at = "route"]
                          ELSE IF Reentry(s) = "idle" THEN Idle ELSE [me[r] EXCEPT !.at = "top"])
     \/ me[r].after = "granted" /\ Throws(r, s)
  /\ UNCHANGED <<cf, ran, granted>>

-----------------------------------------------------------------------------
(* The process dies under the run; the host loads what was saved. *)
Reloads ==
  /\ st' = IF saved = <<>> THEN [r \in Runs |-> NoRun] ELSE saved[1]
  /\ me' = [r \in Runs |-> Idle]
  /\ ex' = NoBatch
  /\ UNCHANGED <<cf, ran, saved, granted>>
Crash == me[Root].at # "idle" /\ May("crashes") /\ Reloads
(* A host delivers the same resume again, from the saved row. *)
Redeliver == me[Root].at = "idle" /\ saved # <<>> /\ saved[1] # st /\ May("reloads") /\ Reloads

(* A step the code takes by itself. *)
RunStep(r) ==
  \/ Top(r) \/ ModelCalls(r) \/ ModelAnswers(r) \/ VerifierRejects(r) \/ ModelFails(r) \/ ModelAborts(r)
  \/ WalkFlush(r) \/ WalkGate(r) \/ WalkCall(r) \/ WalkChild(r) \/ ChildEnds(r) \/ WalkEnds(r)
  \/ Dispatch(r) \/ Route(r) \/ RoutedEnds(r) \/ RouteEnds(r) \/ ToolStep(r) \/ BatchEnds(r)

Next == Start \/ Abort \/ Resume \/ Crash \/ Redeliver \/ \E r \in Runs : RunStep(r)

Spec == Init /\ [][Next]_vars
(* Providers answer or fail and tools settle or run into their wall-clock  *)
(* limit, so a run that can take a step does.                              *)
FairSpec == Spec /\ \A r \in Runs : WF_vars(RunStep(r))

-----------------------------------------------------------------------------
(* Properties. *)

(* The approvals of the run itself for call c, and those of its child c. *)
OwnApprovals(s, c) == SelectSeq(s.pending, LAMBDA a : a.path = <<>> /\ a.call = c)
ParkApprovals(s, c) == SelectSeq(s.pending, LAMBDA a : a.path # <<>> /\ Head(a.path) = c)

(* Where a run stands still or calls its provider (factory.ts: finishRun,  *)
(* runProviderFallbackChain), every call its model has announced has one   *)
(* tool message, or waits for exactly one decision, or is a parked child   *)
(* whose own open approvals are the ones the parent shows; and a provider  *)
(* is called only when every announced call is answered.  Left out is the  *)
(* state object of a run that was thrown out of by a refused checkpoint,   *)
(* until the host reads the state from the store again.                    *)
Settled(s, c) == s.told[c] = 1 /\ c \notin s.parks /\ OwnApprovals(s, c) = <<>> /\ ParkApprovals(s, c) = <<>>
Waiting(s, c) == s.told[c] = 0 /\ c \notin s.parks /\ Len(OwnApprovals(s, c)) = 1
OnChild(s, c) ==
  /\ s.told[c] = 0 /\ c \in s.parks /\ OwnApprovals(s, c) = <<>>
  /\ ParkApprovals(s, c) # <<>> /\ ParkApprovals(s, c) = Mirrored(c, st[cf.kid[c]])
NothingStranded ==
  \A r \in Runs : me[r].at \in {"idle", "model"} /\ st[r].status # "failed" /\ ~st[r].torn =>
    \A c \in Calls :
      IF c \notin st[r].announced
        THEN st[r].told[c] = 0 /\ c \notin st[r].parks /\ OwnApprovals(st[r], c) = <<>>
      ELSE \/ Settled(st[r], c)
           \/ me[r].at = "idle" /\ (Waiting(st[r], c) \/ OnChild(st[r], c))

(* A tool that needs approval is started (approvals.ts:                    *)
(* dispatchResumedApprovals) only for the very run and call whose last     *)
(* decision was a grant, and while the transcript has no result for it:    *)
(* ids of two children may coincide, and a directive may be delivered      *)
(* twice or decide only a part.                                            *)
ApprovedOnly ==
  [][\A r \in Runs, c \in Calls :
       cf.kind[c] = "gated" /\ ran'[r][c] > ran[r][c] =>
         <<r, c>> \in granted /\ st[r].told[c] = 0]_vars

(* How often a tool is started.  The intent and the dispatched checkpoint  *)
(* of approvals.ts: an approved call is dispatched once, and once more at  *)
(* most for every crash in between and every checkpoint that was refused.  *)
(* phase-retry.ts: every dispatch starts a tool that is safe to repeat     *)
(* (pure, read-only or with an idempotency key, approved or not) as often  *)
(* as the attempts configured and any other tool once.                     *)
Attempts(c) == IF RetrySafe(c) THEN cf.attempts ELSE 1
StartsBounded ==
  \A r \in Runs, c \in Calls :
    /\ cf.kind[c] = "gated" => ran[r][c] <= Attempts(c) * (1 + used["crashes"] + used["rejects"])
    /\ me[r].at = "batch" /\ c \in ex.flying /\ used["crashes"] + used["reloads"] = 0 => ran[r][c] <= Attempts(c)

(* foldChildRunUsage: the usage of a run is its own model calls and, once, *)
(* the cumulative usage of every child that came to an end, however often  *)
(* that child parked before.                                               *)
UsageExact ==
  \A r \in Runs :
    st[r].usage = st[r].own + MapThenSumSet(LAMBDA c : st[cf.kid[c]].usage,
                                {c \in st[r].journal : cf.kind[c] = "child"})

(* A run under way comes to a stop (factory.ts: every path ends in         *)
(* finishRun): nobody waits for a child that has parked, for a batch that  *)
(* is over or for a decision that was routed.                              *)
RunEnds == \A r \in Runs : me[r].at # "idle" ~> me[r].at = "idle"

=============================================================================
