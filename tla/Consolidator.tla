------------------------------ MODULE Consolidator ------------------------------
(***************************************************************************)
(* The background consolidator of the memory package: calls of trigger()   *)
(* and fireNow() drain the dead-letter queue, run the light, standard and  *)
(* deep phases under the lock of the session, and spend a token budget.    *)
(* The standard phase reads the messages after the session's cursor,       *)
(* extracts facts from them with a provider, stores the facts and moves    *)
(* the cursor.                                                             *)
(*                                                                         *)
(* The sessions belong to one user.  Message k of a session is the k-th    *)
(* one sent, it holds one fact, and a call of the provider costs one       *)
(* token.  A call is interrupted where it waits for the provider, for the  *)
(* lock or for the store; a crash loses what is in memory and keeps the    *)
(* tables.  Time appears as what it makes true: a lock is stale, a row is  *)
(* due, a cooldown or a budget window is over.                             *)
(***************************************************************************)
EXTENDS Integers, Sequences, FiniteSets

CONSTANTS Sessions,
          Runners, Triggers,   \* calls under way at a time; those that may be trigger() calls
          Scenarios,           \* configurations and message kinds, one is chosen in Init
          RowIds,              \* bound: a row is enqueued while one of these ids is free
          MaxMessages          \* bound

ASSUME BoundsAssumption == {MaxMessages} \cup RowIds \subseteq Nat
ASSUME SetsAssumption == Triggers \subseteq Runners /\ IsFiniteSet(Runners) /\ IsFiniteSet(RowIds)
ASSUME NamesAssumption == {"nobody", "orphan"} \cap Runners = {}

Phases == {"light", "standard", "deep"}
Messages == 1..MaxMessages
Kinds == {"plain", "noise", "poison"}

(* A scenario: the phases of the tier, the ceilings, and what each message *)
(* is: noise is filtered out, and extraction fails on a poison message.    *)
(* maxFaults, maxTakeovers, maxCrashes and maxManual bound the instance.   *)
ASSUME ScenarioAssumption ==
  \A c \in Scenarios :
    /\ c.phases \subseteq Phases
    /\ c.onExceed \in {"pause", "log", "throw"}
    /\ c.maxTokens \in Nat \ {0} /\ c.maxBatch \in Nat \ {0} /\ c.maxRetries \in Nat \ {0}
    /\ {c.formEpisodes, c.conflicts} \subseteq BOOLEAN
    /\ c.kind \in [Sessions -> [Messages -> Kinds]]
    /\ {c.maxFaults, c.maxTakeovers, c.maxCrashes, c.maxManual} \subseteq Nat

VARIABLES cf,        \* the scenario
          sent,      \* session -> messages appended so far
          cursor,    \* session -> lastProcessedMessageId, 0: null
          lock,      \* session -> the active lock: its owner, and whether it is stale
          cooling,   \* session -> now < nextEligibleAt
          rows,      \* consolidator_failed_batches
          conflict,  \* session -> its pending conflict: "new", "attempted" or "closed"
          slice,     \* session -> dispatchMessageIdsByScope
          budget,    \* tokens spent in this window, and whether the budget is paused
          run,       \* runner -> where the call is
          wrote,     \* session -> message -> times its fact was stored
          used,      \* how much of the bounds is used up
          unread,    \* session -> messages an answer of the provider gave no fact for (history)
          missed     \* session -> messages whose stored fact a lookup did not find (history)

vars == <<cf, sent, cursor, lock, cooling, rows, conflict, slice, budget, run, wrote, used, unread, missed>>
tables == <<sent, cursor, lock, cooling, rows, conflict>>
history == <<wrote, unread, missed>>

NoRow == [st |-> "none", rc |-> 0, sess |-> "none", ids |-> {}, phase |-> "light"]
Free == [by |-> "nobody", stale |-> FALSE]
Orphan == [by |-> "orphan", stale |-> FALSE]
Idle == [pc |-> "idle", sess |-> "none", phase |-> "light", reason |-> "turn", plan |-> <<>>,
         queue |-> <<>>, out |-> "none", batch |-> {}, todo |-> <<>>, facts |-> {}, seen |-> "closed"]

Init ==
  /\ cf \in Scenarios
  /\ sent = [s \in Sessions |-> 0] /\ cursor = [s \in Sessions |-> 0]
  /\ lock = [s \in Sessions |-> Free] /\ cooling = [s \in Sessions |-> FALSE]
  /\ rows = [i \in RowIds |-> NoRow]
  /\ conflict = [s \in Sessions |-> IF cf.conflicts THEN "new" ELSE "closed"]
  /\ slice = [s \in Sessions |-> {}]
  /\ budget = [spent |-> 0, paused |-> FALSE]
  /\ run = [r \in Runners |-> Idle]
  /\ wrote = [s \in Sessions |-> [k \in Messages |-> 0]]
  /\ used = [faults |-> 0, takeovers |-> 0, crashes |-> 0, manual |-> 0]
  /\ unread = [s \in Sessions |-> {}] /\ missed = [s \in Sessions |-> {}]

-----------------------------------------------------------------------------
Use(b, max) == used[b] < max /\ used' = [used EXCEPT ![b] = @ + 1]
Has(phase) == phase \in cf.phases
Tip(ids) == CHOOSE k \in ids : \A j \in ids : j <= k
First(facts) == CHOOSE k \in facts : TRUE    \* in the order of the provider's answer

(* listMessagesSince: the messages after the cursor, at most a limit. *)
listMessagesSince(s, limit) == {k \in Messages : cursor[s] < k /\ k <= sent[s] /\ k <= cursor[s] + limit}
Kept(s, batch) == {k \in batch : cf.kind[s][k] # "noise"}

(* Mutant: the ceiling is never looked at. *)
precheckNothing(phase) == TRUE

(* BudgetTracker.precheck: only a paused budget stops a phase, and never   *)
(* the light one.                                                          *)
precheck(phase) == phase = "light" \/ ~budget.paused

(* BudgetTracker.record of a call that cost c: spent past the ceiling, the *)
(* budget pauses, or the call throws, or (log) nothing happens.  Counting  *)
(* stops one past the overshoot the properties speak of.                   *)
MaxOver == cf.maxTokens + Cardinality(Runners)
Spent(c) == IF cf.onExceed = "log" THEN 0
            ELSE IF budget.spent + c > MaxOver THEN MaxOver + 1 ELSE budget.spent + c
Over(c) == Spent(c) > cf.maxTokens
record(c) ==
  budget' = [spent |-> Spent(c), paused |-> budget.paused \/ (Over(c) /\ cf.onExceed = "pause")]
Throws(c) == c > 0 /\ Over(c) /\ cf.onExceed = "throw"

(* #runPhase up to the lock: the budget is looked at first. *)
Replaying(v) == v.queue # <<>>
Enter(v) ==
  IF precheck(v.phase) THEN [v EXCEPT !.pc = "acquire"]
  ELSE IF Replaying(v) THEN [v EXCEPT !.pc = "settle", !.out = "deferred"]
  ELSE Idle

(* What a call does after the outcome of a phase: a replay settles its     *)
(* row, a live run goes on to the next phase unless this one failed or was *)
(* deferred.                                                               *)
After(v, outcome) ==
  LET w == [v EXCEPT !.batch = {}, !.todo = <<>>, !.facts = {}, !.seen = "closed"]
  IN IF Replaying(v) THEN [w EXCEPT !.pc = "settle", !.out = outcome]
     ELSE IF outcome # "completed" \/ v.plan = <<>> THEN Idle
     ELSE Enter([w EXCEPT !.phase = Head(v.plan), !.plan = Tail(v.plan)])

(* The next row of a drain, or the live phases. *)
Drain(v, queue) ==
  LET w == [v EXCEPT !.queue = queue, !.out = "none"]
  IN IF queue = <<>> THEN [w EXCEPT !.pc = "plan", !.phase = "light"]
     ELSE Enter([w EXCEPT !.phase = Head(queue).phase])

-----------------------------------------------------------------------------
(* SessionMemory.push, outside the consolidator. *)
Send(s) ==
  /\ sent[s] < MaxMessages
  /\ sent' = [sent EXCEPT ![s] = @ + 1]
  /\ UNCHANGED <<cf, cursor, lock, cooling, rows, conflict, slice, budget, run, used>>
  /\ UNCHANGED history

(* claimReadyBatches: the due rows of the user, with the retry count they  *)
(* have now.  The table returns the oldest first, the model any order.     *)
DueRows == {i \in RowIds : rows[i].st = "due"}
Orders(I) == {q \in [1..Cardinality(I) -> I] : \A m, n \in DOMAIN q : q[m] = q[n] => m = n}
Claimed(q) ==
  [n \in DOMAIN q |-> [id |-> q[n], rc |-> rows[q[n]].rc, sess |-> rows[q[n]].sess,
                       ids |-> rows[q[n]].ids, phase |-> rows[q[n]].phase]]

(* trigger() of a session, up to the first row of the drain. *)
trigger(r, s, reason) ==
  /\ run[r].pc = "idle"
  /\ \E q \in Orders(DueRows) :
       run' = [run EXCEPT ![r] = Drain([Idle EXCEPT !.sess = s, !.reason = reason], Claimed(q))]
  /\ UNCHANGED <<cf, tables, slice, budget, used>>
  /\ UNCHANGED history

(* fireNow(phase): the phase at once, with no drain and no cooldown.  The  *)
(* code also takes a phase the tier does not have.                         *)
fireNow(r, s, phase) ==
  /\ run[r].pc = "idle"
  /\ Has(phase)
  /\ Use("manual", cf.maxManual)
  /\ run' = [run EXCEPT ![r] = Enter([Idle EXCEPT !.sess = s, !.phase = phase])]
  /\ UNCHANGED <<cf, tables, slice, budget>>
  /\ UNCHANGED history

(* planPhases: the enabled phases in their order, the deep one only for a  *)
(* cron trigger.                                                           *)
planPhases(reason) ==
  LET planned(phase) == IF Has(phase) THEN <<phase>> ELSE <<>>
  IN planned("light") \o planned("standard") \o (IF reason = "cron" THEN planned("deep") ELSE <<>>)

(* The rest of trigger() before its phases: with no deep phase an old      *)
(* conflict is admitted; a cooldown ends the call.                         *)
Plan(r) ==
  /\ run[r].pc = "plan"
  /\ LET v == run[r]
         s == v.sess
         plan == planPhases(v.reason)
     IN /\ \/ UNCHANGED conflict
           \/ ~Has("deep") /\ conflict[s] # "closed" /\ conflict' = [conflict EXCEPT ![s] = "closed"]
        /\ run' = [run EXCEPT ![r] =
                     IF plan = <<>> \/ cooling[s] THEN Idle
                     ELSE Enter([v EXCEPT !.reason = "turn", !.phase = Head(plan), !.plan = Tail(plan)])]
  /\ UNCHANGED <<cf, sent, cursor, lock, cooling, rows, slice, budget, used>>
  /\ UNCHANGED history

-----------------------------------------------------------------------------
(* Mutant: the upsert has no WHERE. *)
AvailableAnyway(s) == TRUE

(* LockManager.acquire over acquireLock: the lock is taken when it is free *)
(* or stale, else polled for until the call gives up.                      *)
Available(s) == lock[s] = Free \/ lock[s].stale

(* #dispatch up to its first wait.  The batch of a standard run: what is   *)
(* left of it without the noise is extracted; a batch that is all noise is *)
(* passed, an empty one is over.                                           *)
Dispatched(v) ==
  LET s == v.sess
      batch == listMessagesSince(s, cf.maxBatch)
      kept == Kept(s, batch)
      w == [v EXCEPT !.out = "completed"]
  IN CASE v.phase = "light" -> [w EXCEPT !.pc = "finish"]
       [] v.phase = "standard" ->
            [w EXCEPT !.batch = batch, !.todo = IF kept = {} THEN <<>> ELSE <<kept>>,
                      !.pc = IF batch = {} THEN "finish" ELSE IF kept = {} THEN "advance" ELSE "extract"]
       [] v.phase = "deep" ->
            [w EXCEPT !.seen = conflict[s],
                      !.pc = IF conflict[s] = "closed" \/ budget.paused THEN "finish" ELSE "judge"]

(* The lock, recordRunStart, and the start of #dispatch. *)
acquire(r) ==
  /\ run[r].pc = "acquire"
  /\ Available(run[r].sess)
  /\ lock' = [lock EXCEPT ![run[r].sess] = [by |-> r, stale |-> FALSE]]
  /\ run' = [run EXCEPT ![r] = Dispatched(run[r])]
  /\ slice' = [slice EXCEPT ![run[r].sess] = IF run[r].phase = "standard"
                                               THEN listMessagesSince(run[r].sess, cf.maxBatch) ELSE {}]
  /\ UNCHANGED <<cf, sent, cursor, cooling, rows, conflict, budget, used>>
  /\ UNCHANGED history

deferred(r) ==
  /\ run[r].pc = "acquire"
  /\ ~Available(run[r].sess)
  /\ run' = [run EXCEPT ![r] = After(run[r], "deferred")]
  /\ UNCHANGED <<cf, tables, slice, budget, used>>
  /\ UNCHANGED history

(* recordRunStart fails: trigger() throws with the lock taken, or the      *)
(* drain counts a failed replay.                                           *)
startFails(r) ==
  /\ run[r].pc = "acquire"
  /\ Available(run[r].sess)
  /\ Use("faults", cf.maxFaults)
  /\ lock' = [lock EXCEPT ![run[r].sess] = Orphan]
  /\ run' = [run EXCEPT ![r] = IF Replaying(run[r]) THEN After(run[r], "failed") ELSE Idle]
  /\ UNCHANGED <<cf, sent, cursor, cooling, rows, conflict, slice, budget>>
  /\ UNCHANGED history

-----------------------------------------------------------------------------
(* extractFactsFromSlice and extractHalves: the slices left to extract are *)
(* taken in turn.  A slice of several messages that does not fit is split  *)
(* in two, before a call (cost 0) or after a truncated answer (cost 1).    *)
Halves(S) ==
  LET mid == CHOOSE m \in S : Cardinality({k \in S : k <= m}) = (Cardinality(S) + 1) \div 2
      older == {k \in S : k <= mid}
  IN <<older, S \ older>>

(* With the facts stored an episode is formed from the batch, unless that  *)
(* is off or the budget is paused by then.                                 *)
Stored(v, paused) ==
  [v EXCEPT !.pc = IF cf.formEpisodes /\ ~paused THEN "episode" ELSE "advance"]

(* Mutant: a budget paused in the middle keeps what was extracted so far. *)
ExtractedSoFar(v, paused) ==
  CASE v.todo # <<>> /\ ~paused -> v
    [] (v.todo = <<>> \/ paused) /\ v.facts = {} -> Stored([v EXCEPT !.todo = <<>>], paused)
    [] (v.todo = <<>> \/ paused) /\ v.facts # {} -> [v EXCEPT !.todo = <<>>, !.pc = "check"]

(* After a slice: the next one, unless the budget is paused by then; with  *)
(* none left the facts are stored.                                         *)
Extracted(v, paused) ==
  CASE v.todo # <<>> /\ paused  -> [v EXCEPT !.pc = "finish", !.out = "failed"]
    [] v.todo # <<>> /\ ~paused -> v
    [] v.todo = <<>> /\ v.facts = {} -> Stored(v, paused)
    [] v.todo = <<>> /\ v.facts # {} -> [v EXCEPT !.pc = "check"]

(* A call that is not split gives the facts of some of its messages: all   *)
(* of them, the readable part of a truncated answer, or none when the      *)
(* answer is malformed, which is no failure.                               *)
extract(r) ==
  /\ run[r].pc = "extract"
  /\ LET v == run[r]
         S == Head(v.todo)
     IN \E c \in {0, 1}, split \in BOOLEAN, got \in SUBSET S :
          /\ c = 0 => split                                  \* split before a call
          /\ split => Cardinality(S) > 1 /\ got = {}
          /\ c = 1 => \A k \in S : cf.kind[v.sess][k] # "poison"
          /\ record(c)
          /\ unread' = [unread EXCEPT ![v.sess] = IF split \/ Throws(c) THEN @ ELSE @ \cup (S \ got)]
          /\ run' = [run EXCEPT ![r] =
               IF Throws(c) THEN [v EXCEPT !.pc = "finish", !.out = "failed"]
               ELSE IF split
                 THEN Extracted([v EXCEPT !.todo = Halves(S) \o Tail(@)], budget'.paused)
               ELSE Extracted([v EXCEPT !.todo = Tail(@), !.facts = @ \cup got], budget'.paused)]
  /\ UNCHANGED <<cf, tables, slice, used, wrote, missed>>

(* The provider throws: always on a poison message. *)
extractFails(r) ==
  /\ run[r].pc = "extract"
  /\ IF \E k \in Head(run[r].todo) : cf.kind[run[r].sess][k] = "poison"
       THEN UNCHANGED used ELSE Use("faults", cf.maxFaults)
  /\ run' = [run EXCEPT ![r].pc = "finish", ![r].out = "failed"]
  /\ UNCHANGED <<cf, tables, slice, budget>>
  /\ UNCHANGED history

(* The duplicate lookup for the next fact, with no embedder: a fact whose  *)
(* text is stored already is not written again.                            *)
Written(v) ==
  LET w == [v EXCEPT !.facts = @ \ {First(@)}]
  IN IF w.facts = {} THEN Stored(w, budget.paused) ELSE [w EXCEPT !.pc = "check"]

(* Mutant: nothing is looked up. *)
findNoDuplicate(r) ==
  /\ run[r].pc = "check"
  /\ run' = [run EXCEPT ![r].pc = "remember"]
  /\ UNCHANGED <<cf, tables, slice, budget, used>>
  /\ UNCHANGED history

findExactTextDuplicate(r) ==
  /\ run[r].pc = "check"
  /\ run' = [run EXCEPT ![r] =
       IF wrote[run[r].sess][First(run[r].facts)] > 0 THEN Written(run[r])
       ELSE [run[r] EXCEPT !.pc = "remember"]]
  /\ UNCHANGED <<cf, tables, slice, budget, used>>
  /\ UNCHANGED history

(* The lookup fails, which is swallowed, or the stored fact is not among   *)
(* the few hits that are compared.                                         *)
lookupMisses(r) ==
  /\ run[r].pc = "check"
  /\ wrote[run[r].sess][First(run[r].facts)] > 0
  /\ Use("faults", cf.maxFaults)
  /\ missed' = [missed EXCEPT ![run[r].sess] = @ \cup {First(run[r].facts)}]
  /\ run' = [run EXCEPT ![r].pc = "remember"]
  /\ UNCHANGED <<cf, tables, slice, budget, wrote, unread>>

remember(r) ==
  /\ run[r].pc = "remember"
  /\ wrote' = [wrote EXCEPT ![run[r].sess][First(run[r].facts)] = IF @ < 2 THEN @ + 1 ELSE @]
  /\ run' = [run EXCEPT ![r] = Written(run[r])]
  /\ UNCHANGED <<cf, tables, slice, budget, used, unread, missed>>

(* The episode call: it can throw after the facts are stored. *)
formEpisode(r) ==
  /\ run[r].pc = "episode"
  /\ record(1)
  /\ run' = [run EXCEPT ![r].pc = IF Throws(1) THEN "finish" ELSE "advance",
                        ![r].out = IF Throws(1) THEN "failed" ELSE @]
  /\ UNCHANGED <<cf, tables, slice, used>>
  /\ UNCHANGED history

formEpisodeFails(r) ==
  /\ run[r].pc = "episode"
  /\ Use("faults", cf.maxFaults)
  /\ run' = [run EXCEPT ![r].pc = "finish", ![r].out = "failed"]
  /\ UNCHANGED <<cf, tables, slice, budget>>
  /\ UNCHANGED history

(* The cursor moves to the tip of the batch. *)
advance(r) ==
  /\ run[r].pc = "advance"
  /\ cursor' = [cursor EXCEPT ![run[r].sess] = Tip(run[r].batch)]
  /\ run' = [run EXCEPT ![r].pc = "finish"]
  /\ UNCHANGED <<cf, sent, lock, cooling, rows, conflict, slice, budget, used>>
  /\ UNCHANGED history

-----------------------------------------------------------------------------
(* runDeepPhase for the conflict of the session: the judge settles it, or  *)
(* fails (an exception costs nothing, an unreadable verdict one token):    *)
(* the first failure marks the row attempted, the second closes it.  A     *)
(* budget that throws does so before the row is marked.                    *)
Failed(seen) == IF seen = "attempted" THEN "closed" ELSE "attempted"

judge(r) ==
  /\ run[r].pc = "judge"
  /\ \E verdict \in {"settled", "unparseable", "error"} :
       LET c == IF verdict = "error" THEN 0 ELSE 1
           s == run[r].sess
       IN /\ record(c)
          /\ conflict' = [conflict EXCEPT ![s] =
               IF Throws(c) \/ @ = "closed" THEN @
               ELSE IF verdict = "settled" THEN "closed" ELSE Failed(run[r].seen)]
          /\ run' = [run EXCEPT ![r].pc = "finish", ![r].out = IF Throws(c) THEN "failed" ELSE @]
  /\ UNCHANGED <<cf, sent, cursor, lock, cooling, rows, slice, used>>
  /\ UNCHANGED history

-----------------------------------------------------------------------------
(* The end of #runPhase.  A failed live run enqueues the slice the map     *)
(* holds for its session; the run is accounted for, the session cools      *)
(* down, and the lock is released if it is still this run's.               *)
Unclaimed(i) == rows[i].st = "none"
                  /\ \A q \in Runners : \A n \in DOMAIN run[q].queue : run[q].queue[n].id # i
Enqueued(s, phase) ==
  [NoRow EXCEPT !.st = "waiting", !.sess = s, !.ids = slice[s], !.phase = phase]

enqueueFailedBatch(v) ==
  IF v.out = "failed" /\ ~Replaying(v) /\ \E i \in RowIds : Unclaimed(i)
    THEN rows' = [rows EXCEPT ![CHOOSE i \in RowIds : Unclaimed(i)] = Enqueued(v.sess, v.phase)]
    ELSE UNCHANGED rows

releaseLock(s, r) == lock' = IF lock[s].by = r THEN [lock EXCEPT ![s] = Free] ELSE lock

finish(r) ==
  /\ run[r].pc = "finish"
  /\ LET v == run[r] IN
       /\ enqueueFailedBatch(v)
       /\ slice' = [slice EXCEPT ![v.sess] = {}]
       /\ cooling' = [cooling EXCEPT ![v.sess] = TRUE]
       /\ run' = [run EXCEPT ![r] = After(v, v.out)]
       /\ \/ releaseLock(v.sess, r) /\ UNCHANGED used
          \/ /\ Use("faults", cf.maxFaults)      \* the release fails
             /\ lock' = IF lock[v.sess].by = r THEN [lock EXCEPT ![v.sess].by = "orphan"] ELSE lock
  /\ UNCHANGED <<cf, sent, cursor, conflict, budget>>
  /\ UNCHANGED history

-----------------------------------------------------------------------------
(* drainDlq after the replay of a row.  A deferred replay is scheduled     *)
(* again with the count that was claimed, a failed one with the next; the  *)
(* last failure exhausts the row, and may skip its slice.                  *)
Rescheduled(i, rc) ==
  IF rows[i].st = "none" THEN rows
  ELSE [rows EXCEPT ![i].st = "waiting", ![i].rc = rc]
Exhausted(i, rc) ==
  IF rows[i].st = "none" THEN rows
  ELSE [rows EXCEPT ![i].st = "exhausted", ![i].rc = rc]

(* Mutant: no slice is skipped. *)
SkipsNoSlice(s, row) == FALSE

(* #skipPoisonSlice, what it reads: the next message is in the slice. *)
SkipsSlice(s, row) ==
  /\ row.phase = "standard" /\ row.ids # {}
  /\ row.sess = s => cursor[s] # Tip(row.ids)
  /\ row.sess = s /\ listMessagesSince(s, 1) # {} /\ listMessagesSince(s, 1) \subseteq row.ids

settle(r) ==
  /\ run[r].pc = "settle"
  /\ LET v == run[r]
         row == Head(v.queue)
         next == Drain(v, Tail(v.queue))
         last == row.rc + 1 >= cf.maxRetries
     IN CASE v.out = "completed" ->
               rows' = [rows EXCEPT ![row.id] = NoRow] /\ run' = [run EXCEPT ![r] = next]
          [] v.out = "deferred" ->
               rows' = Rescheduled(row.id, row.rc) /\ run' = [run EXCEPT ![r] = next]
          [] v.out = "failed" ->
               /\ rows' = IF last THEN Exhausted(row.id, row.rc + 1) ELSE Rescheduled(row.id, row.rc + 1)
               /\ run' = [run EXCEPT ![r] = IF last /\ SkipsSlice(v.sess, row)
                                               THEN [v EXCEPT !.pc = "skip"] ELSE next]
  /\ UNCHANGED <<cf, sent, cursor, lock, cooling, conflict, slice, budget, used>>
  /\ UNCHANGED history

(* ... and what it writes. *)
skipPoisonSlice(r) ==
  /\ run[r].pc = "skip"
  /\ cursor' = [cursor EXCEPT ![run[r].sess] = Tip(Head(run[r].queue).ids)]
  /\ run' = [run EXCEPT ![r] = Drain(run[r], Tail(run[r].queue))]
  /\ UNCHANGED <<cf, sent, lock, cooling, rows, conflict, slice, budget, used>>
  /\ UNCHANGED history

-----------------------------------------------------------------------------
(* What time and faults do. *)
RowDue(i) ==
  /\ rows[i].st = "waiting"
  /\ rows' = [rows EXCEPT ![i].st = "due"]
  /\ UNCHANGED <<cf, sent, cursor, lock, cooling, conflict, slice, budget, run, used>>
  /\ UNCHANGED history

CooldownOver(s) ==
  /\ cooling[s]
  /\ cooling' = [cooling EXCEPT ![s] = FALSE]
  /\ UNCHANGED <<cf, sent, cursor, lock, rows, conflict, slice, budget, run, used>>
  /\ UNCHANGED history

WindowOver ==
  /\ budget.spent > 0
  /\ budget' = [spent |-> 0, paused |-> FALSE]
  /\ UNCHANGED <<cf, tables, slice, run, used>>
  /\ UNCHANGED history

(* A lock outlives its maximum age: nobody holds it any more, or its run   *)
(* is slow.                                                                *)
LockStale(s) ==
  /\ lock[s] # Free /\ ~lock[s].stale
  /\ lock' = [lock EXCEPT ![s].stale = TRUE]
  /\ IF lock[s].by = "orphan" THEN UNCHANGED used ELSE Use("takeovers", cf.maxTakeovers)
  /\ UNCHANGED <<cf, sent, cursor, cooling, rows, conflict, slice, budget, run>>
  /\ UNCHANGED history

Crash ==
  /\ Use("crashes", cf.maxCrashes)
  /\ run' = [r \in Runners |-> Idle]
  /\ slice' = [s \in Sessions |-> {}]
  /\ budget' = [spent |-> 0, paused |-> FALSE]
  /\ lock' = [s \in Sessions |-> IF lock[s] = Free THEN Free ELSE [lock[s] EXCEPT !.by = "orphan"]]
  /\ UNCHANGED <<cf, sent, cursor, cooling, rows, conflict>>
  /\ UNCHANGED history

-----------------------------------------------------------------------------
Work(r) ==
  \/ Plan(r) \/ acquire(r) \/ deferred(r)
  \/ extract(r) \/ extractFails(r) \/ findExactTextDuplicate(r) \/ remember(r)
  \/ formEpisode(r) \/ advance(r) \/ judge(r) \/ finish(r) \/ settle(r) \/ skipPoisonSlice(r)

Triggered(r) ==
  \E s \in Sessions : \/ r \in Triggers /\ \E reason \in {"turn", "cron"} : trigger(r, s, reason)
                      \/ \E phase \in Phases : fireNow(r, s, phase)

Next ==
  \/ \E s \in Sessions : Send(s) \/ CooldownOver(s) \/ LockStale(s)
  \/ \E r \in Runners : Work(r) \/ Triggered(r) \/ startFails(r) \/ lookupMisses(r) \/ formEpisodeFails(r)
  \/ \E i \in RowIds : RowDue(i)
  \/ WindowOver \/ Crash

Spec == Init /\ [][Next]_vars

(* The process works off its steps; triggers keep coming, also outside the *)
(* cooldown; time passes: rows fall due, a cooldown, a budget window and   *)
(* the age of a lock nobody holds come to an end.                          *)
Fairness ==
  /\ \A r \in Runners : WF_vars(Work(r))
  /\ \A s \in Sessions : /\ SF_vars(~cooling[s] /\ \E r \in Triggers : trigger(r, s, "turn"))
                         /\ WF_vars(CooldownOver(s))
                         /\ WF_vars(lock[s].by = "orphan" /\ LockStale(s))
  /\ \A i \in RowIds : WF_vars(RowDue(i))
  /\ WF_vars(WindowOver)

FairSpec == Spec /\ Fairness

-----------------------------------------------------------------------------
(* The cursor passes a message only when it is noise or its fact is        *)
(* stored, when an answer to a request that held the message gave no fact  *)
(* for it (parseExtraction and salvageTruncatedExtraction tolerate a       *)
(* malformed or a truncated answer), or when it is listed on an exhausted  *)
(* row: no message is passed that the provider was not asked about.        *)
Accounted(s, k) ==
  \/ cf.kind[s][k] = "noise" \/ wrote[s][k] > 0 \/ k \in unread[s]
  \/ \E i \in RowIds : rows[i].st = "exhausted" /\ rows[i].sess = s /\ k \in rows[i].ids
NothingSkipped == \A s \in Sessions : \A k \in 1..cursor[s] : Accounted(s, k)

InRun(r) == run[r].pc \in {"extract", "check", "remember", "episode", "advance", "judge", "finish"}

(* acquireLock and the release at the end of #runPhase: every run between  *)
(* the two holds the lock of its session, so triggers, timers and replays  *)
(* never work on one slice together, until a slow run is taken over.       *)
OneRun ==
  used.takeovers = 0 =>
    \A r \in Runners : InRun(r) => lock[run[r].sess].by = r

(* findExactTextDuplicate before every remember(): however often a failure *)
(* or a crash before the cursor moved, or a replay from the dead letters,  *)
(* works its slice off again, a fact is stored a second time only when a   *)
(* lookup of its text failed or missed it, or a slow run was taken over.   *)
FactsOnce ==
  used.takeovers = 0 => \A s \in Sessions : \A k \in Messages \ missed[s] : wrote[s][k] <= 1

(* BudgetTracker with onExceed 'pause': precheck is asked before the lock  *)
(* and the cost recorded after the call, so what several phases spend past *)
(* the ceiling is at most the call each of them had been cleared for.      *)
CeilingHolds == cf.onExceed = "pause" => budget.spent <= cf.maxTokens + Cardinality(Runners)

(* The cursor of a session catches up with its messages, poison or not:    *)
(* failed slices go to the dead letters, run out of retries there and are  *)
(* passed by #skipPoisonSlice, when a budget only logs and faults end.     *)
CatchesUp ==
  Has("standard") /\ cf.onExceed = "log" /\ cf.maxTakeovers = 0 =>
    \A s \in Sessions : []<>(cursor[s] = sent[s])
====
