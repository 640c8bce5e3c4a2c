# Formal model of Graphorin

Graphorin (`src/packages/*`) is a TypeScript agent framework: a stack of packages
from types (`core`) over storage, triggers, tools and memory up to the agent
runtime, the durable workflow engine and a standalone server. This directory holds
TLA+ models of the parts of it that are durable, concurrent or both, the TLC
configurations that check them on small instances, and TLAPS proofs of what holds
for every size. `PROJECT.json` lists every part of the system, modelled or not, the
source lines each definition stands for, and the hazards the properties aim at.

## The system and what is modelled

| Part | Source | Modules |
| --- | --- | --- |
| Threads and their checkpoints: `execute`, `resume`, `retry` from several processes, compare-and-set, compaction, retention | `workflow/src/internal/engine.ts`, `workflow/src/checkpoint-store-memory.ts`, `store-sqlite/src/checkpoint-store.ts` | `CheckpointThread`, abstract specification `ThreadTimeline` |
| The step loop of one thread: planning, tasks, pauses, gates, dispatch, failures, aborts, journaling, recovery | `workflow/src/internal/engine.ts` | `StepEngine` |
| Durable timers: the driver's sweeps, `tick`, approvals with deadlines | `workflow/src/timer-driver.ts`, `workflow/src/factory.ts`, `core/src/channels/durable.ts` | `TimerDriver` |
| Durable triggers: cron, interval, idle, event; catch-up, pausing, expiry | `triggers/src/index.ts`, `store-sqlite/src/trigger-store.ts` | `TriggerScheduler` |
| The server's runs: run, stream, resume, abort, shutdown, restart of parked runs | `server/src/runtime/run-state.ts`, `server/src/routes/agents.ts`, `server/src/runtime/suspended-run-persistence.ts`, `server/src/app-lifecycle.ts`, `server/src/ws/upgrade.ts` | `RunTracker` |
| The event stream: replay buffer, WebSocket dispatcher, SSE responder, reconnecting client | `server/src/ws`, `server/src/sse`, `client/src` | `ReplayBuffer`, `EventWire`, `EventServer`, `EventClient`, composed in `EventStream` |
| The memory consolidator: lease, cursor, daily budget, dead letters, poison slices | `memory/src/consolidator`, `store-sqlite/src/consolidator-store.ts` | `Consolidator` |
| Semantic memory: the conflict pipeline, quarantine, validation, supersede, the deferred judge | `memory/src/tiers/semantic-memory.ts`, `memory/src/conflict` | `SemanticMemory` |
| Agent runs: model steps, tool batches, approvals, sub-agents, abort, checkpoints | `agent/src`, `tools/src/executor` | `ToolExecutor`, `AgentRun` |
| The front door of a host: channel gateway, pairing, heartbeat, cron tasks | `channels/src`, `proactive/src` | `ChannelAccess`, `ChannelGateway`, `Proactive`, composed in `FrontDoor` |

How they interact. `StepEngine` computes what one call does to a thread;
`CheckpointThread` takes a step as "ends with one of five statuses" and is about
several calls that store such steps; `TimerDriver` takes a checkpoint as a version
with due times and uses the compare-and-set of `CheckpointThread`. `RunTracker` takes
an agent's run as opaque (it returns, throws or suspends); `AgentRun` is what happens
inside, on top of `ToolExecutor`. `EventStream` carries the frames a run emits,
`Consolidator` decides when facts are written and `SemanticMemory` what writing one
does. The handler behind the gateway and the proactive runners use agents that refuse a
second run while one is in flight; `FrontDoor` puts them side by side.

### Conventions

* JavaScript runs code between two awaits without interruption. An action is such a
  stretch: the whole of it, trailing saves included. An await on something already
  settled only queues the rest of the function; it is a point of interleaving only in
  `TriggerScheduler`, which models the queue itself (`sys.jobs`).
* SQLite calls are synchronous (`better-sqlite3`), so one call of a store is atomic;
  what lies between two calls is not.
* A process crash loses memory and keeps the tables.
* Payloads, names and texts are numbers or model values. Variables marked "history"
  exist for the properties only.
* A definition named as a mutant changes one definition of the code the way a bug
  would; no `Next` uses it.
* Where one run covers several configurations, the configuration is a variable chosen
  in `Init` and never changed (`wf`, `sc`, `cf`); the proofs hold for every set of
  configurations that satisfies the named assumption of the module.
* `used` counts bounded events (crashes, faults, calls of people) against the bounds of
  the configuration. The bounds are in the guards; the proofs hold for any bounds.

## The modules

**CheckpointThread.** `store` is the table of one thread, `runner[r]` the place of
call `r` in `runEngine` / `resumeEngine` / `persistCheckpoint` (load, drive, check,
put), `lock` the per-instance `resumeLock`. `Load` is `getTuple`, `Advance` a turn of
`driveRun`, `PreCheck` and `Put` the two halves of `persistCheckpoint` with the
store's compare-and-set, `Conflict` and `Throw` the ways out. `Crash`,
`DeleteThread` and `CompactThread` run at any moment, and so do the two halves of
`pruneThreads`: one query selects the thread (`PruneSelects`, a terminal one unless
`onlyTerminal` is false) and a later transaction deletes it (`PruneDeletes`), whatever was
put in between. Two checkpoints
with one step number are ordered differently by the two stores; the model allows
either. **ThreadTimeline** is what a reader may rely on: one creation, each new tip a
strict successor of the last, nothing after completion, erasure for good.

**StepEngine.** `cp` is the latest checkpoint with its frontier (pauses, dynamic
tasks, completed nodes, step tasks), pending writes and journal; `drv` the call that
drives the thread. A node's work is one entry in an append channel, so the state says
which work was merged and how often; `Reference` is the uninterrupted run it is
compared with. Operators of the thread: `Execute`, `ResumePause`, `ResumeGate`,
`Continue` (retry, or resume after a crash or an abort), `Goto`. The engine: `StopAtTop`,
`DeadEnd`, `Complete`, `SuspendBefore`, `StartStep`, the task actions, `StepFails`,
`MergeFails`, `StepEnds`, `Put`, `PutWrites`. `Abort` and `Crash` interrupt it.

**TimerDriver.** `th[t]` is the latest checkpoint of a thread: its version, the
`wakeAt` stamp, and per node how many pauses were answered. `drv` and `pass` are the
drivers and their polling chains (stopping and starting during a pass can leave two),
`human` an approval under way, `log` every decision made. The actions follow the awaits
of `sweep`, `tick`, `resume` and of an approval; `Tick` is the clock, which stands still
while a sweep or an approval is under way.

**TriggerScheduler.** `sys` is the scheduler with its rows, timers and calls in
progress (frames). `Step` runs the frame at the head of the queue to its next await;
`Register`, `Unregister`, `Disable`, `Enable`, `ManualFire`, `Emit`, `RecordActivity`,
`Start`, `Stop` are the calls, `TimerFires`, `CallbackSucceeds` and `CallbackFails`
the environment.

**RunTracker.** `rec` is the in-memory record of a run, `row` its row in
`suspended_runs`, `req` the requests under way. `Run`, `Resume`, `ResumeBody`,
`BadBody` and the outcomes `Returned`, `Threw`, `Suspended` are the agent routes,
`AbortRoute` and `RunCancel` the two cancels, `Prune` the retention sweep, `Stop`,
`Drained`, `DrainTimeout`, `ForcedStop`, `Exit`, `Crash`, `Restart` the lifecycle. The table
is written on a best-effort basis: an agent without a codec, a state that does not
serialise or a rejected put leave the old row or none (`Persist`), a delete may fail
(`DropRow`), and so may the read at boot (`HydrateFails`). The histories `unsaved` and
`missed` name the runs this happened to, so that the properties except just those.

**EventStream.** `buf` is the replay buffer of one subject (an interval of event
numbers), `srv` the connection handler with its registrations or the SSE responder,
`cl` the client with its subscription objects, early frames, pending requests and
reconnect loops, `c2s` and `s2c` the frames under way. `Cut` loses both.

**Consolidator.** `run[r]` is a call of the consolidator at one of its awaits (budget
precheck, lock, extraction, exact-text check, remember, episode, cursor, judge, finish),
`cursor`, `lock`, `rows` (the dead letters) and `wrote` (the facts) the tables. Triggers,
timers, the drain of the dead letters and the takeover of a lease that ran out are
actions, so are failing stores and providers and a crash. An answer of the provider may be
malformed: the extraction then has no fact for some of the messages asked about, and the
run goes on (`extract`; `unread` is the history of it). The exact-text check may fail or
miss the stored fact among the few hits it compares (`lookupMisses`; history `missed`).

**SemanticMemory.** `facts` are the rows, `ops[p]` the call an actor is in (remember with
its pipeline, supersede, validate, forget, archive, purge), the judge of the deep phase
among them; each store call is one step, and a call may stop at any of them. A text in
`cf.flagged` is one the injection heuristics match; the pluggable classifier may hold back
any other text when it is written (`Status`). `validate` checks the heuristics again and
never the classifier, as in the code.

**AgentRun.** `st[r]` is the serialised `RunState` of run `r`, `me[r]` its loop in
memory, `saved` the checkpoint of the root, `ex` the tool batch under way. Children run
the same actions as their parent; a child that parks mirrors its approvals upwards.
Whether a call may be retried (`cf.safe`: a pure or read-only tool, or one with an
idempotency key) does not depend on whether it needs approval, so an approved call may be
retried as well. A checkpoint may be refused. While the decisions of a resume are
worked off this throws out of the run, with its state changed halfway in place (`torn`);
in the walk it fails the run.

**FrontDoor.** `requests` and `paired` are the pairing tables, `approval` the operator's
three store calls, `loop[c]` the message the drain loop of channel `c` holds with the
point it awaits at, `queue[c]` the rest. `heart` and `task` are the runners with their
slots, `busy` the agents with a run in flight. Every store call of a check and of
`approve` may be rejected (`AccessThrows`, `ApproveFails`: after `deleteRequest` the code is
gone and nobody is paired), and so may an adapter's `start()` (`AdapterFails`: `running`
stays true and the rest is not started). `beat()` and `fire()` by hand run at any moment,
before `start()` and after `stop()` too, and check the active hours like the schedule and
the deferral do; `asked` remembers a `beat()` by hand since the last `stop()`.

## The runs

Run any of them with `tlc -config <cfg> <module>`.

| Run | Configuration | Question | Properties |
| --- | --- | --- | --- |
| `thread_race` | `CheckpointThread_race.cfg` | Three calls on two processes race over a thread executed once, with crashes, deletion, compaction and pruning | `NoFork`: no two checkpoints on one parent. `LockExact`: a process holds the resume lock exactly while one of its resumes is under way. `TimelineSpec`: readers see `ThreadTimeline` |
| `engine_steps` | `StepEngine_steps.cfg` | Six interrupted workflows against the uninterrupted one | `NothingTwice`, `NothingLost`: work is merged as often as in the uninterrupted run. `AnswersKept`: nobody is asked twice |
| `engine_live` | `StepEngine_live.cfg` | A loop with one task slot through every kind of interruption, and a wedged graph | `EarnedFromFrontier`: completion is earned by an END edge. `EventuallyEnds`: the thread completes, or fails with nothing left to start from (a dead end, a merge that threw) |
| `timer_race` | `TimerDriver_race.cfg` | Two drivers, a crash, an approver, a deadline; a driver stopped, started and swept by hand | `Decided`: each pause is decided once, by a call entitled to it. `NeverLate`: no due thread waits longer than the driver promises |
| `trigger_calls` | `TriggerScheduler_calls.cfg` | All kinds of triggers under all calls, with a restart | `NeverSilent`: an enabled trigger of a started scheduler has its timer armed once all calls are over. `PausedNeverFires`: no callback begins after a pause has returned (a pause that a failing callback's re-arm overwrites is not in the scenarios). `NoImmediateDuplicate`: a timer does not begin one callback twice in an instant |
| `server_runs` | `RunTracker_server.cfg` | Four requests over two runs with cancels, pruning, shutdown, crash, restart and a store that fails | `ParkMirrored`: a parked run holds a state, and unless the store failed to take it, it is the one a restart would restore. `ParkSurvives`: a parked run nobody resumed or cancelled keeps its row unless the put failed, and is offered unless the boot could not read it. `CountedOnce`: `onTerminal` is called at most once for a run that never parked |
| `event_stream` | `EventStream_ws.cfg` | Client and server over connections that are cut, throttled, refused and opened again | `Delivered`: once and in order, a gap only where the buffer had dropped. `CatchesUp`: a subscription is closed in the end or its cursor is at the newest event |
| `consolidator` | `Consolidator_runs.cfg` | Overlapping calls on one session with poison messages, failures, a crash, a takeover, three budgets | `NothingSkipped`: the cursor passes only what is noise, stored, listed as exhausted, or was asked about with an answer that gave no fact. `OneRun`: a run in its locked part holds the lock. `FactsOnce`: a fact is stored once, however often its slice is repeated, unless a lookup failed or missed it, or the run was taken over. `CeilingHolds`: under `pause`, spending ends one call per caller above the ceiling at most. `CatchesUp`: poison or not, the cursor reaches the last message |
| `memory_facts` | `SemanticMemory_facts.cfg` | Two callers and the judge, calls abandoned halfway | `TrustGate`: recall returns synthesized facts only once promoted, and facts the heuristics flag only once forced. `QuarantineClosesNothing`: no fact is closed for one still in quarantine, except by the conflict pipeline. `ChainsForward`: chains of superseded facts have no cycle. `PendingSettled`: a deferred conflict is judged in the end |
| `agent_runs` | `AgentRun_runs.cfg` | An agent, two children, a grandchild; approvals, partial and repeated directives, aborts, crashes | `NothingStranded`: every announced call is answered, waits for one decision, or is a parked child. `StartsBounded`: an approved call is dispatched once, and once more at most per crash or refused checkpoint; a dispatch starts a tool once, or as often as its attempts where a retry is safe. `UsageExact`: a child's usage is folded in once. `ApprovedOnly`: a gated tool starts only for the run and call that was granted. `RunEnds` |
| `front_door` | `FrontDoor_run.cfg` | The gateway under every policy, pairing checks that overlap with each other, the operator and the clock; a heartbeat that defers; tasks of every grant | `AcceptedInOrder`: each accepted message is processed once, in order. `QueueAttended`: a running gateway works off its queues. `AdmittedByOperator`: a message under pairing is let in only after a live code was approved. `PendingCapped`: the limit of pending codes. `RenderedCodeGood`: a code shown to its peer stays good until it expires. `NoOwnCollision`: a runner's agent never refuses its own run. `SilentAfterStop`: no beat begins after `stop()`, until the application calls `beat()` itself. `StopReturns` |

One run ends in a counterexample: the code differs there from its documentation.
`engine_dispatch` (`StepEngine_dispatch.cfg`): tasks dispatched by a node whose sibling
fails in the same step never run, though `workflow-engine.md:111` says that the frontier
persists "every `Dispatch` task that has not run yet" (`engine.ts:1285` stores the writes
of completed tasks without their dispatches).

### Bounds, and why they are enough

* `CheckpointThread`: a fork needs two writers on one parent, and a third call to
  change the latest checkpoint between them; `MaxCalls = 2` besides the execute gives
  that, two of the calls share a process, so the lock is met as well. What is beyond
  the bounds is proved.
* `StepEngine`: each workflow has two or three parallel branches and the bounded
  interruptions its purpose needs (`Bounded` in `MCStepEngine`). Two pausing
  nodes let an answer of one interrupt the other halfway; two crashes let recovery be
  interrupted. `Journaling` crashes once only: a second crash loses work, see below.
* `TimerDriver`: five ticks hold two poll intervals and every due time. Two drivers
  with one approver give every order of read, resume and put. At most `BatchLimit`
  threads are suspended at once: `NeverLate` is not true beyond that (see below). A
  process runs at most one pass of `sweep()` at a time besides those of its chains.
* `TriggerScheduler`: two calls in progress and four ticks: a callback may span two
  periods, and any call meets any other halfway; three calls at a time are not reached.
* `RunTracker`: two runs and two requests at a time suffice for every race between a
  request and another actor; four requests and three suspensions let a run park, resume
  and park again beside another; two cancels; one shutdown or crash, then a restart; two
  failing calls of the store, so that a row can be missed on the way in and left on the way
  out. Runs and handlers are interchangeable, hence the symmetry.
* `EventStream`: three events against a buffer of two, so that the buffer drops one; a
  socket that throttles at two frames; two upsets, so that a reconnect is itself
  interrupted, and two reconnect attempts, so that one may be the last. One
  subscription: two of them meet the overlapping loops listed below.
* `Consolidator`: two calls on one session, one of them a trigger that drains the dead
  letters, two messages and two rows; a slice can be halved once and retried until it
  is exhausted, and a lease can be taken over from a slow run. In the scenario `Missing` a
  crash repeats a slice whose fact is stored, and the lookup may miss it.
* `SemanticMemory`: three facts give a chain of two links and a conflict pending on a
  third; two callers and the judge give every order of two reads and two writes.
* `AgentRun`: three runs on two levels or three, seven calls of all kinds, gated and
  sequential ones that are safe to retry among them. The
  scenarios stay clear of the deviations listed below: no abort with policy `deny` where
  children may park, none among grandchildren, no resume of a run failed by an abort,
  no crash between a routed and an own decision.
* `FrontDoor`: two peers on one channel share its loop and its limit of one pending
  request; two channels have overlapping checks; four messages fill a queue of two behind
  the message under way and overflow it; a stop with a restart, for the heartbeat two; one
  failing store call or adapter; one firing outside the active hours.

Deadlock is not checked: when the bounded requests are used up, these systems rest.

### Fairness

It is justified by the event loop, which runs a function whose awaits are settled, and by
stores, providers and tools that answer or fail. It is weak but for one case.

* `StepEngine!FairSpec`: of the engine, and of the people: a stopped thread is resumed
  or retried in the end, with an answer that is accepted. Failures, aborts and crashes
  are bounded and never required.
* `EventStream!FairSpec`: of the server's and of the client's own work, the reconnect
  timers among it.
* `Consolidator!FairSpec`: of every call's next step and of time, which makes rows due,
  ends cooldowns and budget windows, and makes the lock of a dead process stale. Strong
  fairness of the turn trigger outside the cooldown: a user who keeps talking triggers at
  some moment at which the call is accepted, though not at each.
* `SemanticMemory!FairSpec`: of the deep phase's judge only.
* `AgentRun!FairSpec`: of every run's next step; providers answer or fail, tools settle
  or run into their wall-clock limit. No fairness for the host.
* `FrontDoor!FairSpec`: of the drain loops and of a `stop()` under way.
* `NeverLate` needs none: it is a safety property over a clock that does not pass a
  due timer, which is what `setTimeout` promises to a loop that is not blocked.

## What is proved

`tlapm <module>.tla` checks a module's proofs. A theorem holds for all values of the
constants that satisfy the `ASSUME`s of the component's module: typing of the bounds and
of the configurations, finiteness of what is counted. Nothing else is assumed, but for
the three hypotheses named below (`MaxExecutes = 1`, `OneDrain`, `Ample`). The runs check
the same properties on small instances.

**`CheckpointThreadProofs`** (`NoForkSafe`, `SoundParentsSafe`, `LockExactSafe`,
`TypeSafe`, `TimelineRefinement`). `NoFork` is not inductive: after compaction the latest
checkpoint might be one that already has a successor, and a put on it would fork.
`ChainInv` adds what forbids that: a stored checkpoint with a successor is hidden by a
stored one with a larger step, so that the compare-and-set refuses a put on it.
`ChainShrink` (the store loses checkpoints) and `ChainPut` (it gains one) carry the
induction. `LockExact` is inductive with the types. The refinement maps a thread to its
latest checkpoint; `SingleRunInv` shows that its steps are distinct, so that "latest" has
one answer. It has the hypothesis `MaxExecutes = 1`: a second `execute` of the same
thread id restarts at step 0 and is a different timeline.

**`RunTrackerProofs`** (`MirroredSafe`, `SurvivesSafe`, `CountedSafe`). The three
properties need one another and `RequestsSound`: a resume that waits for its body read the
state of a parked run, at most one handler waits for the agent of a run, and that run's
record is not open to another. `CountsSound` ties the calls of `onTerminal` to the record's
status. The theorems hold for any number of failing store calls: a put that fails costs
the row of that run only, until a later put takes, and a boot that reads nothing leaves
the rows where they are.

**`TimerDriverProofs`** (`DecidedSafe`). `TimerInv`: what a call about to write has
loaded is the latest checkpoint unless the version moved since, and each logged decision
lies behind its node's cursor. Hence two decisions of one pause would have to pass the
same version.

`NeverLateSafe`, in the same module, takes more: `NeverLate` says nothing of the passes, timers and
locks that bring it about. `LateInv` follows, for each running driver, one polling chain
that watches every thread (`Watched`): either it is armed for a time soon enough for each
thread, or it is in a pass, and each thread is still to be ticked, is known to be due later
(its time is in `earliest` or beyond the next poll), is being written by this process, or
was moved at this very time, so that its allowance starts anew. For the last two, `LockSound`
says that a lock is held by a call about to write, and `AllFresh` that a tick or a person
loses the race for a thread only to somebody who moved it just now. Every action keeps this:
a second chain, left by a stop and a start during a pass, may end first and clear
`inFlight`, and one chain still watches. `TimerInv` supplies that the stored
`stamp` is the due time of a pause that waits. The theorem has the hypothesis `Ample`: one
batch holds all threads of the namespace (with more, threads that are never accepted can
fill each listing), and the clock counts in units of the least delay of `schedule()`.

**`ConsolidatorProofs`** (`ConsolidatorSafe`, `OneRunSafe`, `FactsSafe`, `CeilingSafe`,
`NothingSkippedSafe`), on the lemmas of `ConsolidatorSteps`, which has one per action.
`ConsolidatorInv`: before any takeover, only the lock of a dead process grows stale
(`LocksSound`), so every run in its locked part holds its session's lock, and what such a
run looked up before it stores a fact is still true, or is recorded as missed
(`LookupSound`); under `pause` the
spending plus the calls that may still spend stay within the ceiling plus one per caller
(`BudgetSound`). `Counts`, what cardinalities of finite sets obey, is carried along in the
invariant and proved once. `NothingSkipped` needs `CursorInv` besides: everything a call will move
the cursor past is stored, filtered, left without a fact by an answer of the provider,
listed on a row, or still in its batch (`QueueSound`, `BatchSound`, `SkipSound`). The
theorem has the hypothesis `OneDrain`: at most one caller drains the dead letters. With
two, one may reschedule an exhausted row from an older count (see below), and the
property fails.

**`SemanticMemoryProofs`** (`TypeSafe`, `ChainsForwardSafe`, `TrustGateSafe`,
`QuarantineSafe`). `ChainInv` is about insertion order: of the rows, of the links between
them and of what the calls in progress have read and will write. `FateInv` says what may
have become of each row, given its text, its provenance and the calls that hold it. The
classifier may hold back any text or fail; neither opens a way around the heuristics.

**`FrontDoorProofs`** (`InOrderSafe`, `QuietSafe`, `CappedSafe`, `CollisionSafe`,
`SilentSafe`). `LineInv` and `HostInv`: processed, held and queued messages of a channel
are, in this order, the accepted ones, and only a running host has any under way.
`CapInv`: a loop about to insert a request counted fewer than the limit, and requests only
disappeared since. `RunnerInv`: a runner has at most one beat or fire past its in-flight
check, and its agent is busy only with that one. `ArmedInv`: a heartbeat that is stopped
has no deferral armed, unless `beat()` was called by hand since.

**`GatewayProofs`** (`AttendedSafe`, `AdmittedSafe`, `RenderedSafe`). `AttendInv`: a
running gateway is starting or up, what a gateway that is off has queued is what its last
stop left, and any other queue has a loop at work. `VouchInv`: whoever is paired, or whose
message was let in, had a code that the operator approved while it was live. `CodeInv`:
whoever holds a code holds one expiry, until then somebody does hold it (a request, the
approval under way, or the record of codes an approval took, one that failed after
`deleteRequest` included), and a loop that found no live request
of its peer is still right about it, because one loop serves a channel.

### What is only model-checked, and why

* The liveness properties (`EventuallyEnds`, both `CatchesUp`, `PendingSettled`,
  `RunEnds`, `StopReturns`): fairness and `ENABLED` are beyond the proof system.
* `StepEngine` (`NothingTwice`, `NothingLost`, `AnswersKept`, `EarnedFromFrontier`):
  tasks, merges and `Reference` are folds and filters over sequences; what they compute
  for every input takes induction over data.
* `TriggerScheduler` (`NeverSilent`, `PausedNeverFires`, `NoImmediateDuplicate`),
  `EventStream` (`Delivered`), `AgentRun` (`NothingStranded`, `ApprovedOnly`,
  `StartsBounded`, `UsageExact`): they are claimed of scenarios that stay clear of
  the deviations listed below (a failing callback that overwrites a pause, two subscriptions
  that reconnect at once, an abort that denies what children wait for), not of all values
  of the constants. Besides, queues of frames and of calls are filtered with `SelectSeq`,
  about which the proof library has no facts.

## Where code, documentation and model part

Things met while reading, left out of the instances so that the properties are about the
rest; each is in the code as described.

**Workflow engine.** The put of a fresh run is unconditional, so it can land over a thread
that became active after the pre-check (`engine.ts:1836`). Two gated nodes planned in one
step hold each other up for ever (`:1548`). A retry of a dead end, or of a failed merge,
starts from an empty frontier and completes the thread (`:1614`), though
`workflow-engine.md:356` says that a dead end raises "instead of silently completing"
(hence the premise of `EarnedFromFrontier`, and `EventuallyEnds` does not count on such a
retry). An answer is lost when the resumed node fails, when a before-gate
suspends the step of the resumed task (`:1553`), or when an abort is seen right after the
resume. A second crash during a journaled step loses journaled writes (`:906`). A crash
between the put of a failed checkpoint and `putWrites` (`:1841`) loses the writes of the
siblings that completed: the retry takes them for done and finds nothing to replay
(`:429` to `:458`); no workflow of `engine_steps` has both failures and crashes.
`forkThread` drops `wakeAt` (`:2341`). `workflow-engine.md:125` says that re-executing a
terminal thread is allowed; its second checkpoint is refused as a conflict.

**Timers.** `sleepFor` is computed anew each time its node runs (`durable.ts:145`), so
that answering another pause of the step moves it; `workflow-engine.md:170` says that the
others "re-suspend untouched". A sweep takes the first `batchLimit` due threads
(`timer-driver.ts:163`): that many threads whose resume is always refused starve the rest.
The driver's `nextWakeAt` is shared between overlapping passes; the model gives each its
own.

**Triggers.** After a callback has failed, the row is read, and written back one `await`
later: a pause between the two is overwritten (`triggers/index.ts:639` to `:652`). The
in-memory mirror still holds the trigger back, until a restart reads the row. `stop()` does
not end a catch-up loop under way (`:936`). Overlapping callbacks may cause an immediate second fire.

**Server.** Two resumes of one parked run may both pass the check before their bodies are
read, and run the same state twice (hence `CountedOnce` is about runs that never parked).
A result with status aborted or failed is recorded as completed. `run.cancel` of a parked
run leaves its row, and so does a cancel during its resume (`run-state.ts:331` against
`standalone-server.md:97`). A resume that finds the agent busy parks the run again on the
state it read before its body, which may be an older one than the run has by then
(`agents.ts:476`); tracker and table agree on it, but no property says it is the latest.

**Event stream.** A subscription that took a snapshot cursor skips buffered events after a
drop (`graphorin-client.ts:862`). A caught-up SSE client that reconnects is sent the whole
buffer again (`sse/events.ts:179`). With two subscriptions reconnect loops overlap. Gap
markers can be lost with the connection; the bound of the early frames counts them. A
`disconnect()` during `connect()` does not stop it. A second drop during resubscription
closes all subscriptions. SSE frames before `subscribe` are dropped.

**Consolidator.** Two overlapping drains can bring an exhausted row back
(`runtime.ts:519`, `consolidator-store.ts:387` against `memory-system.md:443`). Dead
letters are per user, not per session (`consolidator-store.ts:400`). A cursor can move
backwards after a takeover. `onExceed: 'throw'` never stops spending
(`memory-system.md:415`). The precheck of the budget is before the lock. The budget is lost
on restart. A failing `recordRunStart` leaves the lock held. A budget pause halfway through
a halved slice counts as a failed replay. A replay sets the cooldown, so that live phases
are skipped. An answer that does not parse counts as no facts, and the cursor passes its
slice (`standard.ts:661`); a failed duplicate lookup counts as no duplicate (`:980`).

**Semantic memory.** A supersede by the pipeline with a quarantined candidate hides both
facts (`semantic-memory.ts:709` against `changelog.md:1616`; hence the exception in
`QuarantineClosesNothing`). What only the classifier held back, `validate` promotes without
`force`. Full-text scores are compared with cosine zones. A first-party
fact may be merged into a quarantined row. `validate` and `supersede` write back facts read
earlier. The judge's dedup may delete the only copy. Two racing calls of `remember` both
commit.

**Agent runs.** A crash after a directive with own and routed decisions loses the routed
one. The abort policy `fail` leaves the pending approvals, and a resume revives the run.
The policy `deny` answers a parked child's mirrored approvals in the parent's transcript,
while the parent's own call stays unanswered (`run-gates.ts:146` against
`agent-runtime.md:324`). A run failed by its budget is called resumable
(`agent-runtime.md:357`), but a resume returns it as it is. A timed-out tool that ignores
its signal overlaps with the next sequential one (`dispatch.ts:73`). A call can be
dispatched once more with each crash and with each checkpoint refused after it (hence the
bound in `StartsBounded`). A checkpoint refused while a resume works off its decisions
throws out of the run with the caller's state object changed halfway
(`factory.ts:628` to `:642`); `NothingStranded` leaves that object out until the host reads
the stored state again.

**Front door.** What `stop()` leaves queued waits after `start()` for the next message of
its channel (hence `left` in `QueueAttended`). The heartbeat's gate is checked before it
awaits its checklist and its session, so a beat can still talk over a conversation
(`proactivity.md:52`). A `beat()` by hand after `stop()` still runs and may arm a
deferral (hence `asked` in `SilentAfterStop`). The comment at `access.ts:210` says that
a unique index makes a collision of codes loud, but the insert replaces; the model draws
fresh codes. `approve` deletes the request before it pairs the peer, so a check between
the two issues another challenge, and a pairing that fails after it leaves a code that
is neither stored nor honoured (`access.ts:245` to `:255`). An adapter that fails to
start leaves the gateway running without the adapters after it. A blocked message counts
as failed and as processed. A `start()` during a `stop()` may leave stopped adapters
behind a running gateway. An agent shared between runners or channels refuses the second
run.

## What is not modelled

* Workflow: channels and reducers, `forkThread`, `updateState`, subscribers, tracing.
* Server: authentication, idempotency keys, several subjects on one connection, pings.
* Agent: steering and follow-up queues, compaction, guardrails and taint, several
  handoffs, a child's own checkpoint store, fan-out, the evaluator loop, code mode.
* Memory: reconcile decisions, reflection, retention, entities and graph links, ranking,
  the other tiers, search.
* Front door: the router, the gateway's classifier, the contents of sanitising, the outbound policy,
  sessions, the ten seconds after which `stop()` gives up.
* Providers, embedders, security, observability, sessions, skills, the command line:
  wrappers around I/O, formats and tables. `PROJECT.json` gives the reason for each.
