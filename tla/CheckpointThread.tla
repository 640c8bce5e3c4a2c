---------------------------- MODULE CheckpointThread ----------------------------
(***************************************************************************)
(* One workflow thread in a CheckpointStore, and the calls that race to    *)
(* advance it: execute, resume and retry, made from any number of Workflow *)
(* instances (processes) that share the store, together with crashes,      *)
(* deletion, compaction and the retention sweep.                           *)
(*                                                                         *)
(* A call is a small state machine that follows the awaits of the engine:  *)
(* it reads the latest checkpoint ("load"), runs a step ("drive"), reads   *)
(* the latest checkpoint again ("check") and puts its own ("put").  What a *)
(* step computes is left to StepEngine; here a step only ends with one of  *)
(* the five statuses.  The tie between two checkpoints with one step       *)
(* number is broken arbitrarily: the in-memory store keeps the one that    *)
(* was inserted first, SQLite's ORDER BY step_number LIMIT 1 says nothing. *)
(***************************************************************************)
EXTENDS Integers, FiniteSets

CONSTANTS Runners,      \* the calls that may be in flight at one time
          InstanceOf,   \* the Workflow instance a call is made on
          Durabilities, \* the durability modes callers use: "sync", "exit"
          Maintenance,  \* store operations that run: "delete", "compact", "prune", and
                        \* "pruneAll", the sweep with onlyTerminal: false
          MaxExecutes,  \* bound: execute() calls on this thread id
          MaxCalls,     \* bound: resume() and retry() calls
          MaxSteps      \* the maxSteps cap of one invocation

ASSUME ConstantsAssumption ==
  /\ InstanceOf \in [Runners -> {InstanceOf[r] : r \in Runners}]
  /\ Durabilities \subseteq {"sync", "exit"}
  /\ MaxExecutes \in Nat /\ MaxCalls \in Nat /\ MaxSteps \in Nat

VARIABLES store,     \* the checkpoints stored now
          ever,      \* every checkpoint ever put (history)
          nextId,    \* ids are handed out in insertion order
          runner,    \* the state of each call
          lock,      \* resumeLock: the instances with a resume of this thread
          executes, calls,
          picked     \* a retention sweep has selected the thread

vars == <<store, ever, nextId, runner, lock, executes, calls, picked>>

Instances == {InstanceOf[r] : r \in Runners}
Statuses  == {"running", "suspended", "completed", "failed", "aborted"}
Terminal  == {"completed", "failed", "aborted"}
NoParent  == 0

Checkpoint == [id : Nat \ {NoParent}, parent : Nat, step : Nat, status : Statuses]

RunnerState == [pc : {"idle", "load", "drive", "check", "put"},
                mode : {"none", "execute", "resume", "retry"},
                durability : {"sync", "exit"},
                parent : Nat, step : Nat, taken : Nat, status : Statuses]

Idle == [pc |-> "idle", mode |-> "none", durability |-> "sync",
         parent |-> NoParent, step |-> 0, taken |-> 0, status |-> "running"]

(* One type invariant: the stores hold checkpoints, calls are well formed, *)
(* and an instance's lock is only ever one of the instances.               *)
TypeOK ==
  /\ store \subseteq Checkpoint
  /\ ever \subseteq Checkpoint
  /\ store \subseteq ever
  /\ nextId \in Nat \ {NoParent}
  /\ runner \in [Runners -> RunnerState]
  /\ lock \subseteq Instances
  /\ executes \in Nat /\ calls \in Nat /\ picked \in BOOLEAN

Init ==
  /\ store = {} /\ ever = {} /\ nextId = 1
  /\ runner = [r \in Runners |-> Idle]
  /\ lock = {}
  /\ executes = 0 /\ calls = 0 /\ picked = FALSE

-----------------------------------------------------------------------------
(* #latestStored / ORDER BY step_number DESC LIMIT 1: c may be returned.   *)
IsLatest(c) == c \in store /\ \A d \in store : d.step <= c.step

(* The statuses a call of each mode accepts as a starting point. *)
Resumable(mode) ==
  IF mode = "retry" THEN {"failed", "aborted"}
                    ELSE {"suspended", "running", "aborted"}

(* The call reaches its next await in state v. *)
Move(r, v) == runner' = [runner EXCEPT ![r] = v]

(* Mutant: no finally block, the lock outlives the call. *)
FinishWithoutUnlock(r) == Move(r, Idle) /\ UNCHANGED lock

(* The call returns or throws: the finally block releases its lock. *)
Finish(r) ==
  /\ Move(r, Idle)
  /\ lock' = IF runner[r].mode = "execute" THEN lock ELSE lock \ {InstanceOf[r]}

(* execute(): a fresh run with no parent checkpoint.  It takes no lock. *)
Execute(r, d) ==
  /\ runner[r].pc = "idle"
  /\ executes < MaxExecutes
  /\ executes' = executes + 1
  /\ Move(r, [Idle EXCEPT !.pc = "drive", !.mode = "execute", !.durability = d])
  /\ UNCHANGED <<store, ever, nextId, lock, calls, picked>>

(* resume() / retry(): refused while the instance already resumes the thread. *)
Resume(r, mode, d) ==
  /\ runner[r].pc = "idle"
  /\ calls < MaxCalls
  /\ InstanceOf[r] \notin lock
  /\ calls' = calls + 1
  /\ lock' = lock \cup {InstanceOf[r]}
  /\ Move(r, [Idle EXCEPT !.pc = "load", !.mode = mode, !.durability = d])
  /\ UNCHANGED <<store, ever, nextId, executes, picked>>

(* getTuple: no thread and the wrong status end the call, otherwise the    *)
(* call continues one step after the checkpoint it read.                   *)
Load(r) ==
  /\ runner[r].pc = "load"
  /\ \/ store = {} /\ Finish(r)
     \/ \E c \in store :
          /\ IsLatest(c)
          /\ IF c.status \in Resumable(runner[r].mode)
             THEN /\ Move(r, [runner[r] EXCEPT !.pc = "drive", !.parent = c.id,
                                                 !.step = c.step + 1])
                  /\ UNCHANGED lock
             ELSE Finish(r)
  /\ UNCHANGED <<store, ever, nextId, executes, calls, picked>>

(* One turn of driveRun: the step ends with some status.  At the maxSteps  *)
(* cap only a failure (or an abort, tested first) is possible.  Under      *)
(* 'exit' a running checkpoint is skipped and the parent stays.            *)
Advance(r) ==
  /\ runner[r].pc = "drive"
  /\ \E s \in IF runner[r].taken < MaxSteps THEN Statuses ELSE {"failed", "aborted"} :
       IF runner[r].durability = "exit" /\ s = "running"
       THEN Move(r, [runner[r] EXCEPT !.step = @ + 1, !.taken = @ + 1])
       ELSE Move(r, [runner[r] EXCEPT !.pc = "check", !.status = s])
  /\ UNCHANGED <<store, ever, nextId, lock, executes, calls, picked>>

(* persistCheckpoint's own read of the latest checkpoint, before the put.  *)
PreCheckAccepts(r, c) ==
  IF runner[r].parent # NoParent THEN c.id = runner[r].parent
                                 ELSE c.status \in Terminal

PreCheck(r) ==
  /\ runner[r].pc = "check"
  /\ \/ store = {}
     \/ \E c \in store : IsLatest(c) /\ PreCheckAccepts(r, c)
  /\ Move(r, [runner[r] EXCEPT !.pc = "put"])
  /\ UNCHANGED <<store, ever, nextId, lock, executes, calls, picked>>

(* Mutant: the put relies on the pre-check alone. *)
CasAcceptsAnything(r) == TRUE

(* The store's compare-and-set, in one transaction.  A fresh run passes no *)
(* expectedLatestId, so its put is unconditional.                          *)
CasAccepts(r) ==
  \/ runner[r].parent = NoParent
  \/ \E c \in store : IsLatest(c) /\ c.id = runner[r].parent

Put(r) ==
  LET new == [id |-> nextId, parent |-> runner[r].parent,
              step |-> runner[r].step, status |-> runner[r].status]
  IN /\ runner[r].pc = "put"
     /\ CasAccepts(r)
     /\ store' = store \cup {new}
     /\ ever' = ever \cup {new}
     /\ nextId' = nextId + 1
     /\ IF new.status = "running"
        THEN /\ Move(r, [runner[r] EXCEPT !.pc = "drive", !.parent = nextId,
                                            !.step = @ + 1, !.taken = @ + 1])
             /\ UNCHANGED lock
        ELSE Finish(r)
     /\ UNCHANGED <<executes, calls, picked>>

(* checkpoint-version-conflict, from the pre-check or from the put. *)
Conflict(r) ==
  /\ \/ /\ runner[r].pc = "check"
        /\ \E c \in store : IsLatest(c) /\ ~PreCheckAccepts(r, c)
     \/ /\ runner[r].pc = "put"
        /\ runner[r].parent # NoParent
        /\ \/ store = {}
           \/ \E c \in store : IsLatest(c) /\ c.id # runner[r].parent
  /\ Finish(r)
  /\ UNCHANGED <<store, ever, nextId, executes, calls, picked>>

(* Every other way out: an operator error found after the read (pinned     *)
(* version, diverged definition, unknown pause), a state that is not JSON   *)
(* safe, an I/O error of the store, a consumer that returns early.          *)
Throw(r) ==
  /\ runner[r].pc # "idle"
  /\ Finish(r)
  /\ UNCHANGED <<store, ever, nextId, executes, calls, picked>>

(* A process dies: its calls and its in-memory lock are gone. *)
Crash(i) ==
  /\ \E r \in Runners : InstanceOf[r] = i /\ runner[r].pc # "idle"
  /\ runner' = [r \in Runners |-> IF InstanceOf[r] = i THEN Idle ELSE runner[r]]
  /\ lock' = lock \ {i}
  /\ UNCHANGED <<store, ever, nextId, executes, calls, picked>>

DeleteThread ==
  /\ "delete" \in Maintenance
  /\ store # {}
  /\ store' = {}
  /\ UNCHANGED <<ever, nextId, runner, lock, executes, calls, picked>>

(* Mutant: the sort order of the compaction query is reversed. *)
CompactThreadKeepsOldest(kept) ==
  /\ "compact" \in Maintenance
  /\ kept # {} /\ kept \subseteq store /\ kept # store
  /\ \A k \in kept, v \in store \ kept : k.step <= v.step
  /\ store' = kept
  /\ UNCHANGED <<ever, nextId, runner, lock, executes, calls, picked>>

(* compactThread(keepLast): the keepLast newest checkpoints survive. *)
CompactThread(kept) ==
  /\ "compact" \in Maintenance
  /\ kept # {} /\ kept \subseteq store /\ kept # store
  /\ \A k \in kept, v \in store \ kept : v.step <= k.step
  /\ store' = kept
  /\ UNCHANGED <<ever, nextId, runner, lock, executes, calls, picked>>

(* pruneThreads: the latest checkpoint decides.  One query selects the     *)
(* threads, terminal ones only unless the caller says otherwise ...        *)
PruneSelects ==
  /\ ~picked
  /\ \E c \in store : /\ IsLatest(c)
                      /\ \/ "prune" \in Maintenance /\ c.status \in Terminal
                         \/ "pruneAll" \in Maintenance
  /\ picked' = TRUE
  /\ UNCHANGED <<store, ever, nextId, runner, lock, executes, calls>>

(* ... and each is deleted in a transaction of its own, whatever another   *)
(* process has put since.                                                  *)
PruneDeletes ==
  /\ picked
  /\ store' = {}
  /\ picked' = FALSE
  /\ UNCHANGED <<ever, nextId, runner, lock, executes, calls>>

CallStep(r) == Load(r) \/ Advance(r) \/ PreCheck(r) \/ Put(r) \/ Conflict(r)

Next ==
  \/ \E r \in Runners :
       \/ \E d \in Durabilities :
            \/ Execute(r, d)
            \/ \E mode \in {"resume", "retry"} : Resume(r, mode, d)
       \/ CallStep(r)
       \/ Throw(r)
  \/ \E i \in Instances : Crash(i)
  \/ DeleteThread
  \/ \E kept \in SUBSET store : CompactThread(kept)
  \/ PruneSelects
  \/ PruneDeletes

Spec == Init /\ [][Next]_vars

-----------------------------------------------------------------------------
(* persistCheckpoint, "instead of forking the timeline": however many      *)
(* resumes, retries, crashes and compactions race, no two checkpoints of a *)
(* thread are ever put on top of the same parent.                          *)
NoFork ==
  \A c, d \in ever : c.parent # NoParent /\ c.parent = d.parent => c = d

(* What a checkpoint is built on: a checkpoint of the thread with a        *)
(* smaller step number (resumeEngine, "strictly newer than the suspended   *)
(* one") that had not completed.                                           *)
SoundParents ==
  \A c \in ever : c.parent # NoParent =>
    \E d \in ever : d.id = c.parent /\ d.step < c.step /\ d.status # "completed"

(* Why the two hold, whatever the calls do.  Ids are unique; the parent a   *)
(* call holds is a checkpoint behind its own step; a stored checkpoint that *)
(* has a successor is hidden by a later one, so the compare-and-set never   *)
(* accepts it again; and a thread that has checkpoints has a latest one.    *)
ChainInv ==
  /\ TypeOK
  /\ \A c \in ever : c.id < nextId
  /\ \A c, d \in ever : c.id = d.id => c = d
  /\ \A r \in Runners : runner[r].parent # NoParent =>
       \E d \in ever : /\ d.id = runner[r].parent
                       /\ d.step < runner[r].step
                       /\ d.status # "completed"
  /\ \A c \in ever, p \in store : c.parent = p.id => \E d \in store : p.step < d.step
  /\ store # {} => \E c \in store : IsLatest(c)
  /\ SoundParents
  /\ NoFork

(* A fresh run that has not put its root yet. *)
Fresh(r) == runner[r].mode = "execute" /\ runner[r].parent = NoParent

(* With one execute() the stored checkpoints moreover have distinct steps:  *)
(* the one fresh run is the only call without a parent, and it writes into  *)
(* an empty thread.                                                         *)
SingleRunInv ==
  /\ \A c, d \in store : c.step = d.step => c = d
  /\ \A r, q \in Runners : Fresh(r) /\ Fresh(q) => r = q
  /\ \A r \in Runners : Fresh(r) => ever = {}
  /\ executes = 0 => ever = {} /\ \A r \in Runners : ~Fresh(r)
  /\ \A r \in Runners : runner[r].pc \in {"drive", "check", "put"} =>
       Fresh(r) \/ runner[r].parent # NoParent

(* A call of resume() or retry() that has not returned. *)
Resuming(r) == runner[r].pc # "idle" /\ runner[r].mode # "execute"

(* resumeLock is exact: a process holds the lock of the thread if and only *)
(* if one of its resumes or retries is under way, and then just one is.    *)
(* The finally block of resumeEngine releases it on every way out (end,    *)
(* refusal, conflict, error, early return), and an execute() that ends     *)
(* beside a resume does not release a lock it never took.                  *)
LockExact ==
  /\ lock = {InstanceOf[r] : r \in {q \in Runners : Resuming(q)}}
  /\ \A r, q \in Runners : Resuming(r) /\ Resuming(q) /\ InstanceOf[r] = InstanceOf[q] => r = q

-----------------------------------------------------------------------------
(* The refinement: the tip of the abstract timeline is the latest stored   *)
(* checkpoint.                                                             *)
NoTip == [id |-> NoParent, parent |-> NoParent, step |-> 0, status |-> "none"]
Tip   == IF store = {} THEN NoTip ELSE CHOOSE c \in store : IsLatest(c)

Timeline == INSTANCE ThreadTimeline WITH NoTip <- NoTip, tip <- Tip, born <- (ever # {})

(* Racing calls on a thread that was executed once, whatever they do and   *)
(* wherever they crash, are seen by every reader as one timeline.          *)
TimelineSpec == Timeline!Spec
=============================================================================
