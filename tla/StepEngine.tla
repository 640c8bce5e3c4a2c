------------------------------- MODULE StepEngine -------------------------------
(***************************************************************************)
(* The step loop of the workflow engine on one thread: planning tasks from *)
(* the frontier, running them, merging their writes, persisting the step,  *)
(* and restoring the frontier from the latest checkpoint when the thread   *)
(* is resumed or retried after a suspension, a crash, a failure or an      *)
(* abort.  One call drives the thread at a time (CheckpointThread is about *)
(* several).                                                               *)
(*                                                                         *)
(* A workflow is given by its nodes and edges.  What a node computes is    *)
(* abstracted to one write into an append channel, the entry of the task   *)
(* that ran: the node, the dispatch arguments and the answers its pauses   *)
(* received.  The state is the sequence of entries merged so far, so it    *)
(* tells exactly which work counts, and how often.                         *)
(***************************************************************************)
EXTENDS Integers, Sequences, FiniteSets, SequencesExt

CONSTANTS Workflows,  \* the workflows considered, with their options and the bounds
          When(_, _)  \* an edge's condition in a state

VARIABLES wf,    \* the workflow (never changes)
          cp,    \* the latest checkpoint with its frontier and pending writes
          drv,   \* the call that drives the thread
          used,  \* how much of each bound is used up
          acked  \* answers whose resume went on to write a checkpoint (history)

vars == <<wf, cp, drv, used, acked>>

Start  == "__start__"
End    == "__end__"
NoArgs == "none"

Nodes       == wf.nodes
Edges       == wf.edges       \* sequence of [from, to, cond]
Dispatches  == wf.dispatches  \* node -> sequence of [node, args] it dispatches
Pauses      == wf.pauses      \* node -> how often its body pauses
BarrierFrom == wf.barrier     \* the writers of the Barrier channel ({}: none)
Before      == wf.before      \* pauseAt.before: set of nodes
After       == wf.after       \* pauseAt.after: sequence of nodes
Failing     == wf.failing     \* nodes whose body may throw
Rejects     == wf.rejects     \* nodes after which merging or validating may fail
Durability  == wf.durability
JournalSteps == wf.journalSteps
MaxConcurrentTasks == wf.maxConcurrentTasks
StepCap     == wf.maxSteps

(* Bounds: how often a failure, an abort, a crash, an answer, a refused    *)
(* answer, a state update by an answer and a goto happen.                  *)
Bounds == {"failures", "aborts", "crashes", "answers", "invalid", "updates", "gotos"}

ASSUME WorkflowsAssumption ==
  \A w \in Workflows :
    /\ {Start, End} \cap w.nodes = {}
    /\ \A e \in ToSet(w.edges) : e.from \in w.nodes \cup {Start} /\ e.to \in w.nodes \cup {End}
    /\ w.failing \cup w.rejects \cup w.barrier \cup w.before \subseteq w.nodes
    /\ w.durability \in {"sync", "exit"} /\ w.journalSteps \in BOOLEAN
    /\ w.maxConcurrentTasks \in Nat \ {0} /\ w.maxSteps \in Nat \ {0}
    /\ w.bounds \in [Bounds -> Nat]

Left(bound) == used[bound] < wf.bounds[bound]
Use(bound)  == used' = [used EXCEPT ![bound] = @ + 1]

-----------------------------------------------------------------------------
(* Records.  An answer is [id, ok]: ok is whether the awakeable's schema    *)
(* accepts it.  A pause record holds the answers delivered before it.       *)
Task(node, args, source, vals, gate, fresh) ==
  [node |-> node, args |-> args, source |-> source, vals |-> vals,
   gate |-> gate, fresh |-> fresh, status |-> "queued"]

DispatchTask(d) == Task(d.node, d.args, "dispatch", <<>>, FALSE, FALSE)

Entry(t) == [node |-> t.node, args |-> t.args, vals |-> t.vals]

NoJournal == [step |-> -1, tasks |-> <<>>, done |-> {}]

NoCheckpoint ==
  [status |-> "none", step |-> -1, state |-> <<>>, pauses |-> <<>>, dynamic |-> <<>>,
   completed |-> <<>>, stepTasks |-> <<>>, writes |-> {}, journal |-> NoJournal]

IdleDriver ==
  [pc |-> "idle", state |-> <<>>, dynamic |-> <<>>, completed |-> <<>>, tasks |-> <<>>,
   step |-> 0, steps |-> 0, parent |-> FALSE, aborted |-> FALSE, inbox |-> {},
   out |-> NoCheckpoint]

Init ==
  /\ wf \in Workflows
  /\ cp = NoCheckpoint
  /\ drv = IdleDriver
  /\ used = [b \in Bounds |-> 0]
  /\ acked = {}

-----------------------------------------------------------------------------
(* planTasks: what the frontier and the edges of the completed nodes yield. *)
NodesOf(tasks) == [i \in DOMAIN tasks |-> tasks[i].node]

Successors(n, st) ==
  SelectSeq(Edges, LAMBDA e : e.from = n /\ e.to # End /\ When(e, st))

Reachable(completed, st) ==
  FlattenSeq([i \in DOMAIN completed |-> Successors(completed[i], st)])

(* barrierDefersNode: a node fed by two or more writers of the barrier     *)
(* waits until every writer has written.                                   *)
BarrierDefers(n, st) ==
  LET sources == {e.from : e \in {f \in ToSet(Edges) : f.to = n /\ f.from \in BarrierFrom}}
  IN /\ Cardinality(sources) >= 2
     /\ \E w \in BarrierFrom : \A i \in DOMAIN st : st[i].node # w

Planned(dynamic, completed, st) ==
  FoldLeft(LAMBDA acc, e :
             IF (\E i \in DOMAIN acc : acc[i].node = e.to) \/ BarrierDefers(e.to, st)
             THEN acc
             ELSE Append(acc, Task(e.to, NoArgs, "edge", <<>>, FALSE, FALSE)),
           dynamic, Reachable(completed, st))

ReachableEnd(completed, st) ==
  \E n \in ToSet(completed), e \in ToSet(Edges) :
    e.from = n /\ e.to = End /\ When(e, st)

(* The first planned task that a pauseAt.before gate stops. *)
Gated(planned) ==
  {i \in DOMAIN planned : planned[i].source # "resume" /\ ~planned[i].gate
                          /\ planned[i].node \in Before}
FirstGated(planned) == CHOOSE i \in Gated(planned) : \A j \in Gated(planned) : i <= j

-----------------------------------------------------------------------------
(* Helpers on the tasks of a step. *)
IndexesOf(tasks, status) == {i \in DOMAIN tasks : tasks[i].status = status}

Pick(tasks, S) ==
  LET index == SelectSeq([i \in DOMAIN tasks |-> i], LAMBDA i : i \in S)
  IN [j \in DOMAIN index |-> tasks[index[j]]]

Entries(tasks) == [i \in DOMAIN tasks |-> Entry(tasks[i])]
Targets(tasks) == [i \in DOMAIN tasks |-> [node |-> tasks[i].node, args |-> tasks[i].args]]

(* The records of the pauses a step raised, in planned order. *)
PauseRecords(tasks) ==
  LET paused == Pick(tasks, IndexesOf(tasks, "paused"))
  IN [i \in DOMAIN paused |-> [node |-> paused[i].node, args |-> paused[i].args,
                               satisfied |-> paused[i].vals, gate |-> "none"]]

Gate(node, args, kind) == [node |-> node, args |-> args, satisfied |-> <<>>, gate |-> kind]

(* persistCheckpoint, up to its put. *)
Persist(status, st, pauses, dynamic, completed, stepTasks) ==
  drv' = [drv EXCEPT !.pc = "put",
            !.out = [NoCheckpoint EXCEPT !.status = status, !.step = drv.step, !.state = st,
                       !.pauses = pauses, !.dynamic = Targets(dynamic),
                       !.completed = completed, !.stepTasks = stepTasks]]

-----------------------------------------------------------------------------
(* Calls.  execute() on a thread that has no checkpoint. *)
Execute ==
  /\ drv.pc = "idle" /\ cp.status = "none"
  /\ drv' = [IdleDriver EXCEPT !.pc = "plan", !.completed = <<Start>>]
  /\ UNCHANGED <<wf, cp, used, acked>>

Restored(st, dynamic, completed, inbox) ==
  [IdleDriver EXCEPT !.pc = "plan", !.state = st, !.dynamic = dynamic,
     !.completed = completed, !.inbox = inbox, !.step = cp.step + 1, !.parent = TRUE]

(* Mutant: the answers delivered earlier are not replayed. *)
PauseTaskForgetful(p, answer) ==
  Task(p.node, p.args, "resume", answer, p.gate = "before", answer # <<>>)

(* The task that a pause record turns into.  A static-before gate replays  *)
(* no answers and is not gated again.                                      *)
PauseTask(p, answer) ==
  IF p.gate = "before"
  THEN Task(p.node, p.args, "resume", <<>>, TRUE, FALSE)
  ELSE Task(p.node, p.args, "resume", p.satisfied \o answer, FALSE, answer # <<>>)

(* The frontier of a checkpoint, with the k-th pause answered. *)
FrontierTasks(k, answer) ==
  LET others  == SelectSeq([i \in DOMAIN cp.pauses |-> i], LAMBDA i : i # k)
      ordered == <<PauseTask(cp.pauses[k], answer)>>
                   \o [j \in DOMAIN others |-> PauseTask(cp.pauses[others[j]], <<>>)]
  IN [i \in DOMAIN cp.dynamic |-> DispatchTask(cp.dynamic[i])]
       \o (IF cp.pauses[k].gate = "after" THEN <<>> ELSE ordered)

Ack(id, kind, p) == [id |-> id, kind |-> kind, node |-> p.node, args |-> p.args]

(* resume(), resolveAwakeable() or approve() of a suspended thread: the    *)
(* k-th pause receives the answer, the directive may update the state.     *)
ResumePause(k, ok, update) ==
  LET answer == [id |-> used.answers + 1, ok |-> ok]
      st == IF update
            THEN Append(cp.state, [node |-> "__resume__", args |-> NoArgs, vals |-> <<answer>>])
            ELSE cp.state
      inbox == {Ack(answer.id, "answer", cp.pauses[k])}
                 \cup (IF update THEN {Ack(answer.id, "update", cp.pauses[k])} ELSE {})
  IN /\ drv.pc = "idle" /\ cp.status = "suspended"
     /\ k \in DOMAIN cp.pauses /\ cp.pauses[k].gate = "none"
     /\ Left("answers")
     /\ ok \/ Left("invalid")
     /\ update => Left("updates")
     /\ used' = [used EXCEPT !.answers = @ + 1, !.invalid = IF ok THEN @ ELSE @ + 1,
                             !.updates = IF update THEN @ + 1 ELSE @]
     /\ drv' = Restored(st, FrontierTasks(k, <<answer>>), cp.completed, inbox)
     /\ UNCHANGED <<wf, cp, acked>>

(* resume() of a thread that a static gate suspended. *)
ResumeGate ==
  /\ drv.pc = "idle" /\ cp.status = "suspended"
  /\ cp.pauses[1].gate # "none"
  /\ Left("answers")
  /\ Use("answers")
  /\ LET gate == cp.pauses[1]
         walk == gate.gate = "after" /\ ~Contains(cp.completed, gate.node)
     IN drv' = Restored(cp.state, FrontierTasks(1, <<>>),
                        IF walk THEN Append(cp.completed, gate.node) ELSE cp.completed,
                        {Ack(used.answers + 1, gate.gate, gate)})
  /\ UNCHANGED <<wf, cp, acked>>

(* The step of a failed or aborted checkpoint is replayed: completed tasks *)
(* from their pending writes, paused ones with their answers, the rest     *)
(* from the start.  Records are looked up by node name, the last one wins. *)
Rerun(t) ==
  LET records == {i \in DOMAIN cp.pauses : cp.pauses[i].node = t.node}
      last    == CHOOSE i \in records : \A j \in records : j <= i
  IN IF t.status = "paused"
     THEN PauseTask([cp.pauses[last] EXCEPT !.args = t.args], <<>>)
     ELSE DispatchTask(t)

(* Mutant: completed tasks run again. *)
ReplayedAll ==
  Restored(cp.state \o Entries(Pick(cp.stepTasks, cp.writes)),
           [i \in DOMAIN cp.stepTasks |-> Rerun(cp.stepTasks[i])], <<>>, {})

Replayed ==
  LET done  == IndexesOf(cp.stepTasks, "completed")
      rerun == Pick(cp.stepTasks, DOMAIN cp.stepTasks \ done)
  IN Restored(cp.state \o Entries(Pick(cp.stepTasks, done \cap cp.writes)),
              [i \in DOMAIN rerun |-> Rerun(rerun[i])],
              NodesOf(Pick(cp.stepTasks, done)), {})

(* readStepJournal: the interrupted step is replayed from its journal. *)
JournalUsable == /\ cp.status = "running" /\ JournalSteps
                 /\ cp.journal.step = cp.step + 1 /\ cp.journal.tasks # <<>>

Unfinished(t) ==
  [t EXCEPT !.source = IF t.source = "resume" THEN "resume" ELSE "dispatch", !.fresh = FALSE]

Recovered ==
  LET j     == cp.journal
      rerun == Pick(j.tasks, DOMAIN j.tasks \ j.done)
  IN Restored(cp.state \o Entries(Pick(j.tasks, j.done)),
              [i \in DOMAIN rerun |-> Unfinished(rerun[i])],
              NodesOf(Pick(j.tasks, j.done)), {})

FromFrontier ==
  Restored(cp.state, [i \in DOMAIN cp.dynamic |-> DispatchTask(cp.dynamic[i])],
           cp.completed, {})

(* resume() of a crashed or aborted thread, retry() of a failed or aborted *)
(* one.                                                                    *)
Continue ==
  /\ drv.pc = "idle" /\ cp.status \in {"running", "aborted", "failed"}
  /\ drv' = CASE cp.status # "running" /\ cp.stepTasks # <<>> -> Replayed
               [] JournalUsable -> Recovered
               [] OTHER -> FromFrontier
  /\ UNCHANGED <<wf, cp, used, acked>>

(* resume() with a goto: the restored frontier is discarded by contract,   *)
(* the answers it held with it.                                            *)
Goto(n) ==
  /\ drv.pc = "idle" /\ cp.status \in {"suspended", "running", "aborted"}
  /\ cp.stepTasks = <<>> /\ ~JournalUsable
  /\ Left("gotos") /\ Use("gotos")
  /\ drv' = Restored(cp.state, <<DispatchTask([node |-> n, args |-> NoArgs])>>, <<>>, {})
  /\ acked' = {}
  /\ UNCHANGED <<wf, cp>>

-----------------------------------------------------------------------------
(* The head of driveRun's loop.  An abort and the step cap are tested      *)
(* first; both keep the walk frontier.                                     *)
StopAtTop ==
  /\ drv.pc = "plan"
  /\ drv.aborted \/ drv.steps >= StepCap
  /\ Persist(IF drv.aborted THEN "aborted" ELSE "failed", drv.state, <<>>,
             drv.dynamic, drv.completed, <<>>)
  /\ UNCHANGED <<wf, cp, used, acked>>

Planning == drv.pc = "plan" /\ ~drv.aborted /\ drv.steps < StepCap

ThePlan == Planned(drv.dynamic, drv.completed, drv.state)

(* Nothing fired and no END edge is satisfied: the graph is wedged. *)
DeadEnd ==
  /\ Planning /\ ThePlan = <<>>
  /\ drv.completed # <<>> /\ ~ReachableEnd(drv.completed, drv.state)
  /\ Persist("failed", drv.state, <<>>, <<>>, <<>>, <<>>)
  /\ UNCHANGED <<wf, cp, used, acked>>

(* Mutant: nothing planned completes the run. *)
CompleteVacuously ==
  /\ Planning /\ ThePlan = <<>>
  /\ Persist("completed", drv.state, <<>>, <<>>, <<>>, <<>>)
  /\ UNCHANGED <<wf, cp, used, acked>>

Complete ==
  /\ Planning /\ ThePlan = <<>>
  /\ drv.completed = <<>> \/ ReachableEnd(drv.completed, drv.state)
  /\ Persist("completed", drv.state, <<>>, <<>>, <<>>, <<>>)
  /\ UNCHANGED <<wf, cp, used, acked>>

(* Mutant: the siblings of the gated task are dropped. *)
SuspendBeforeAlone ==
  /\ Planning /\ Gated(ThePlan) # {}
  /\ LET i == FirstGated(ThePlan)
     IN Persist("suspended", drv.state,
                <<Gate(ThePlan[i].node, ThePlan[i].args, "before")>>, <<>>, <<>>, <<>>)
  /\ UNCHANGED <<wf, cp, used, acked>>

(* A gated task suspends the step; what else was planned survives as       *)
(* dynamic tasks.                                                          *)
SuspendBefore ==
  /\ Planning /\ Gated(ThePlan) # {}
  /\ LET i == FirstGated(ThePlan)
     IN Persist("suspended", drv.state,
                <<Gate(ThePlan[i].node, ThePlan[i].args, "before")>>,
                Pick(ThePlan, DOMAIN ThePlan \ {i}), <<>>, <<>>)
  /\ UNCHANGED <<wf, cp, used, acked>>

(* The step starts; with journaling its intent replaces the one journaled  *)
(* under the parent checkpoint before.                                     *)
StartStep ==
  /\ Planning /\ ThePlan # <<>> /\ Gated(ThePlan) = {}
  /\ drv' = [drv EXCEPT !.pc = "run", !.tasks = ThePlan, !.dynamic = <<>>, !.completed = <<>>]
  /\ cp' = IF JournalSteps /\ drv.parent
           THEN [cp EXCEPT !.journal = [step |-> drv.step, tasks |-> ThePlan, done |-> {}]]
           ELSE cp
  /\ UNCHANGED <<wf, used, acked>>

(* Mutant: a task that pauses or fails keeps its slot. *)
StartedLeaky(i) ==
  /\ drv.pc = "run" /\ drv.tasks[i].status = "queued"
  /\ Cardinality({j \in 1..(i - 1) : drv.tasks[j].status # "completed"}) < MaxConcurrentTasks

(* createSemaphore: tasks start in planned order as slots free up, so the  *)
(* i-th has started when fewer than the cap are unfinished before it.      *)
Started(i) ==
  /\ drv.pc = "run" /\ drv.tasks[i].status = "queued"
  /\ Cardinality({j \in 1..(i - 1) : drv.tasks[j].status = "queued"}) < MaxConcurrentTasks

Rejected(t) == \E j \in DOMAIN t.vals : ~t.vals[j].ok

(* The body returns: its writes are harvested and journaled. *)
TaskCompletes(i) ==
  /\ Started(i)
  /\ ~Rejected(drv.tasks[i]) /\ Len(drv.tasks[i].vals) >= Pauses[drv.tasks[i].node]
  /\ drv' = [drv EXCEPT !.tasks[i].status = "completed"]
  /\ cp' = IF JournalSteps /\ drv.parent THEN [cp EXCEPT !.journal.done = @ \cup {i}] ELSE cp
  /\ UNCHANGED <<wf, used, acked>>

(* The body pauses, or the schema refuses an answer.  A refused answer     *)
(* that was just delivered is discarded.                                   *)
TaskPauses(i) ==
  /\ Started(i)
  /\ LET t == drv.tasks[i]
         discard == Rejected(t) /\ t.fresh
     IN /\ Rejected(t) \/ Len(t.vals) < Pauses[t.node]
        /\ drv' = [drv EXCEPT
                     !.tasks[i].status = "paused",
                     !.tasks[i].vals = IF discard THEN Front(@) ELSE @,
                     !.inbox = IF discard THEN {a \in @ : a.kind # "answer"} ELSE @]
  /\ UNCHANGED <<wf, cp, used, acked>>

(* The body throws, by itself or because the run was aborted. *)
TaskFails(i) ==
  /\ Started(i)
  /\ \/ drv.aborted /\ UNCHANGED used
     \/ /\ drv.tasks[i].node \in Failing /\ Left("failures")
        /\ Use("failures")
  /\ drv' = [drv EXCEPT !.tasks[i].status = "failed"]
  /\ UNCHANGED <<wf, cp, acked>>

Settled == drv.pc = "run" /\ IndexesOf(drv.tasks, "queued") = {}

NodeFailure == drv.aborted \/ IndexesOf(drv.tasks, "failed") # {}

(* A task failed, or the run was aborted (then the grace period may end    *)
(* with tasks unsettled).  Unsettled tasks count as failed in the step's   *)
(* task list, not in the choice of the status.                             *)
StepFails ==
  /\ Settled \/ (drv.pc = "run" /\ drv.aborted)
  /\ NodeFailure
  /\ Persist(IF drv.aborted /\ IndexesOf(drv.tasks, "failed") = {} THEN "aborted" ELSE "failed",
             drv.state, PauseRecords(drv.tasks), <<>>, <<>>,
             [i \in DOMAIN drv.tasks |->
                [drv.tasks[i] EXCEPT !.status = IF @ = "queued" THEN "failed" ELSE @]])
  /\ UNCHANGED <<wf, cp, used, acked>>

(* applyWrites or validateState throws: the frontier was consumed by       *)
(* planTasks, so the failed checkpoint carries an empty one.               *)
MergeFails ==
  /\ Settled /\ ~NodeFailure
  /\ \E i \in IndexesOf(drv.tasks, "completed") : drv.tasks[i].node \in Rejects
  /\ Left("failures")
  /\ Use("failures")
  /\ Persist("failed", drv.state, <<>>, <<>>, <<>>, <<>>)
  /\ UNCHANGED <<wf, cp, acked>>

(* The step ends: writes merged in planned order, dispatches scheduled,    *)
(* pauses or else the first pauseAt.after gate suspend the run.            *)
StepEnds ==
  LET done      == Pick(drv.tasks, IndexesOf(drv.tasks, "completed"))
      completed == NodesOf(done)
      dynamic   == FlattenSeq([i \in DOMAIN done |-> Dispatches[done[i].node]])
      gates     == SelectSeq(After, LAMBDA n : Contains(completed, n))
      pauses    == IF PauseRecords(drv.tasks) # <<>> THEN PauseRecords(drv.tasks)
                   ELSE IF gates # <<>> THEN <<Gate(gates[1], NoArgs, "after")>> ELSE <<>>
  IN /\ Settled /\ ~NodeFailure
     /\ Persist(IF pauses # <<>> THEN "suspended" ELSE "running",
                drv.state \o Entries(done), pauses, dynamic, completed, <<>>)
     /\ UNCHANGED <<wf, cp, used, acked>>

-----------------------------------------------------------------------------
(* persistCheckpoint's put.  Under 'exit' a running checkpoint is skipped. *)
(* After a running checkpoint the loop goes on; any other ends the call,   *)
(* after the writes of the completed tasks of a failed step.               *)
Skips == Durability = "exit" /\ drv.out.status = "running"

Put ==
  /\ drv.pc = "put"
  /\ cp' = IF Skips THEN cp ELSE drv.out
  /\ acked' = IF Skips THEN acked ELSE acked \cup drv.inbox
  /\ drv' = IF drv.out.status = "running"
            THEN [drv EXCEPT !.pc = "plan", !.state = drv.out.state, !.tasks = <<>>,
                    !.dynamic = [i \in DOMAIN drv.out.dynamic |-> DispatchTask(drv.out.dynamic[i])],
                    !.completed = drv.out.completed, !.step = @ + 1, !.steps = @ + 1,
                    !.parent = @ \/ ~Skips, !.out = NoCheckpoint]
            ELSE IF IndexesOf(drv.out.stepTasks, "completed") # {}
                 THEN [IdleDriver EXCEPT !.pc = "writes"]
                 ELSE IdleDriver
  /\ UNCHANGED <<wf, used>>

(* putWrites, task by task in planned order. *)
PutWrites ==
  LET missing == IndexesOf(cp.stepTasks, "completed") \ cp.writes
      i == CHOOSE j \in missing : \A k \in missing : j <= k
  IN /\ drv.pc = "writes"
     /\ cp' = [cp EXCEPT !.writes = @ \cup {i}]
     /\ drv' = IF missing = {i} THEN IdleDriver ELSE drv
     /\ UNCHANGED <<wf, used, acked>>

Abort ==
  /\ drv.pc \in {"plan", "run", "put"} /\ ~drv.aborted
  /\ Left("aborts")
  /\ Use("aborts")
  /\ drv' = [drv EXCEPT !.aborted = TRUE]
  /\ UNCHANGED <<wf, cp, acked>>

Crash ==
  /\ drv.pc # "idle"
  /\ Left("crashes")
  /\ Use("crashes")
  /\ drv' = IdleDriver
  /\ UNCHANGED <<wf, cp, acked>>

Operator ==
  \/ Execute \/ ResumeGate \/ Continue
  \/ \E k \in DOMAIN cp.pauses, ok \in BOOLEAN, update \in BOOLEAN : ResumePause(k, ok, update)

Engine ==
  \/ StopAtTop \/ DeadEnd \/ Complete \/ SuspendBefore \/ StartStep
  \/ \E i \in DOMAIN drv.tasks : TaskCompletes(i) \/ TaskPauses(i) \/ TaskFails(i)
  \/ StepFails \/ MergeFails \/ StepEnds \/ Put \/ PutWrites

Next == Operator \/ Engine \/ (\E n \in Nodes : Goto(n)) \/ Abort \/ Crash

Spec == Init /\ [][Next]_vars

(* The event loop runs the call; somebody resumes or retries a thread that *)
(* stopped, and answers with a valid value in the end.                     *)
FairSpec ==
  /\ Spec
  /\ WF_vars(Engine)
  /\ WF_vars(Execute \/ ResumeGate \/ Continue \/ \E update \in BOOLEAN : ResumePause(1, TRUE, update))

-----------------------------------------------------------------------------
(* The uninterrupted run of the same workflow: no failure, no crash, every *)
(* pause answered on the spot.                                             *)
RefStep(s) ==
  LET plan == Planned(s.dynamic, s.completed, s.state)
      dispatched == FlattenSeq([i \in DOMAIN plan |-> Dispatches[plan[i].node]])
  IN IF plan = <<>>
     THEN [s EXCEPT !.over = TRUE]
     ELSE [state |-> s.state \o Entries(plan), completed |-> NodesOf(plan), over |-> FALSE,
           dynamic |-> [i \in DOMAIN dispatched |-> DispatchTask(dispatched[i])]]

Reference ==
  LET run[n \in Nat] ==
        IF n = 0
        THEN [state |-> <<>>, dynamic |-> <<>>, completed |-> <<Start>>, over |-> FALSE]
        ELSE LET before == run[n - 1] IN IF before.over THEN before ELSE RefStep(before)
  IN run[StepCap + 1].state

(* How often work was merged into a state. *)
Times(st, work) ==
  Cardinality({i \in DOMAIN st : st[i].node = work.node /\ st[i].args = work.args})

-----------------------------------------------------------------------------
(* "Completed steps are never re-run" and "only the failed work re-runs":  *)
(* no work is ever merged into a stored state more often than in the       *)
(* uninterrupted run.                                                      *)
NothingTwice ==
  LET ref == Reference
  IN \A i \in DOMAIN cp.state :
       cp.state[i].node # "__resume__" => Times(cp.state, cp.state[i]) <= Times(ref, cp.state[i])

(* "Nothing in flight is lost": when the thread completes, all the work of *)
(* the uninterrupted run has been merged into its state.                   *)
NothingLost ==
  cp.status = "completed" =>
    LET ref == Reference
    IN \A i \in DOMAIN ref : Times(cp.state, ref[i]) >= Times(ref, ref[i])

(* reachableEnd: "completion must be EARNED by a satisfied END edge".  A    *)
(* call that had work to start from never completes the thread otherwise:  *)
(* only a checkpoint with an empty frontier can be completed unearned.     *)
EmptyFrontier == /\ cp.status # "none"
                 /\ <<>> = cp.dynamic \o cp.completed \o cp.pauses \o cp.stepTasks

EarnedFromFrontier ==
  [][cp'.status = "completed" /\ ~EmptyFrontier /\ used.gotos = 0
       => ReachableEnd(<<Start>> \o NodesOf(cp'.state), cp'.state)]_vars

(* The answers a stored checkpoint still holds. *)
AnswerIds(vals) == {vals[j].id : j \in DOMAIN vals}
HeldAnswers ==
  UNION {AnswerIds(cp.state[i].vals) : i \in {j \in DOMAIN cp.state : cp.state[j].node # "__resume__"}}
  \cup UNION {AnswerIds(cp.pauses[i].satisfied) : i \in DOMAIN cp.pauses}
  \cup UNION {AnswerIds(cp.stepTasks[i].vals) : i \in cp.writes}
HeldUpdates ==
  UNION {AnswerIds(cp.state[i].vals) : i \in {j \in DOMAIN cp.state : cp.state[j].node = "__resume__"}}

(* Nobody is asked twice.  An answer that an operator delivered in a       *)
(* resume that went on to write a checkpoint is held by every later        *)
(* checkpoint, in the state or with a pending pause; and a gate ("nodes    *)
(* named in before suspend before their run is invoked") passed in such a  *)
(* resume does not hold the same task again.                               *)
Regated(a, pause) == pause.gate = "before" /\ pause.node = a.node /\ pause.args = a.args
AnswersKept ==
  drv.pc = "idle" =>
    \A a \in acked :
      /\ a.kind = "answer" => a.id \in HeldAnswers
      /\ a.kind = "update" => a.id \in HeldUpdates
      /\ a.kind = "before" => \A i \in DOMAIN cp.pauses : ~Regated(a, cp.pauses[i])

(* With every call answered in the end, the thread comes to an end: it     *)
(* completes, or it fails with nothing left to start from, on a dead end   *)
(* ("raises `dead-end` instead of silently completing") or a merge that    *)
(* threw.  It never waits for a slot that no task gives back.  What a      *)
(* retry of such a failure makes of it is not counted: the thread had      *)
(* ended before.                                                           *)
EventuallyEnds == <>(cp.status = "completed" \/ (cp.status = "failed" /\ EmptyFrontier))
=============================================================================
