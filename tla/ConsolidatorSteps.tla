--------------------------- MODULE ConsolidatorSteps ---------------------------
(***************************************************************************)
(* The inductive invariants of the consolidator, and lemmas about its      *)
(* operators and steps, for any number of sessions, calls, rows and        *)
(* messages.                                                               *)
(*                                                                         *)
(* ConsolidatorInv knows of every call where it is and what it holds       *)
(* there: the lock of a session, the facts stored, the budget spent.       *)
(* CursorInv follows a message from the batch through the slices and the   *)
(* facts of the run, and a claimed dead letter through the drain that      *)
(* claimed it.                                                             *)
(***************************************************************************)
EXTENDS Consolidator, TLAPS

Inside == {"extract", "check", "remember", "episode", "advance", "judge", "finish"}
Outside == {"idle", "plan", "acquire", "settle", "skip"}
Outcomes == {"completed", "deferred", "failed"}
Conflicts == {"new", "attempted", "closed"}
Somewhere == Sessions \cup {"none"}

RowStates ==
  [st : {"none", "waiting", "due", "exhausted"}, rc : Nat, sess : Somewhere, ids : SUBSET Messages,
   phase : Phases]
Claims == [id : RowIds, rc : Nat, sess : Somewhere, ids : SUBSET Messages, phase : Phases]
RunStates ==
  [pc : Inside \cup Outside, sess : Somewhere, phase : Phases, reason : {"turn", "cron"},
   plan : Seq(Phases), queue : Seq(Claims), out : Outcomes \cup {"none"}, batch : SUBSET Messages,
   todo : Seq(SUBSET Messages), facts : SUBSET Messages, seen : Conflicts]

(* A call that is where its other fields say. *)
SoundRuns ==
  {v \in RunStates :
    /\ v.pc # "idle" => v.sess \in Sessions
    /\ v.pc \in Inside \cup {"settle"} => v.out # "none"
    /\ v.pc \in {"settle", "skip"} => v.queue # <<>>
    /\ v.pc = "extract" => v.todo # <<>>}

TablesTyped ==
  /\ cf \in Scenarios
  /\ rows \in [RowIds -> RowStates]
  /\ conflict \in [Sessions -> Conflicts]
  /\ slice \in [Sessions -> SUBSET Messages]
  /\ budget \in [spent : Nat, paused : BOOLEAN]
  /\ run \in [Runners -> SoundRuns]
CountsTyped ==
  /\ lock \in [Sessions -> [by : Runners \cup {"nobody", "orphan"}, stale : BOOLEAN]]
  /\ wrote \in [Sessions -> [Messages -> 0..2]]
  /\ DOMAIN missed = Sessions
  /\ used \in [faults : Nat, takeovers : Nat, crashes : Nat, manual : Nat]

(* Only a lock that nobody holds grows stale, before any takeover. *)
LocksSound ==
  used.takeovers = 0 => \A s \in Sessions : lock[s].stale => lock[s].by = "orphan"

(* A call about to store a fact did not find it: it is not stored, or a    *)
(* lookup has missed it.                                                   *)
LookupSound ==
  used.takeovers = 0 =>
    \A r \in Runners : \A k \in Messages :
      run[r].pc = "remember" /\ First(run[r].facts) = k =>
        k \in missed[run[r].sess] \/ wrote[run[r].sess][k] = 0

(* The calls that may still spend a token when the budget is paused. *)
MaySpend(v) == v.pc \in {"extract", "episode", "judge"} \/ (v.pc = "acquire" /\ v.phase # "light")
Spenders == {r \in Runners : MaySpend(run[r])}
BudgetSound ==
  cf.onExceed = "pause" =>
    /\ ~budget.paused => budget.spent <= cf.maxTokens
    /\ budget.paused => budget.spent + Cardinality(Spenders) <= cf.maxTokens + Cardinality(Runners)

(* How many elements the subsets of a finite set have. *)
Counted(A) ==
  /\ \A S \in SUBSET A : Cardinality(S) \in Nat
  /\ \A S, T \in SUBSET A : S \subseteq T => Cardinality(S) <= Cardinality(T)
  /\ \A S \in SUBSET A : \A x \in S : Cardinality(S \ {x}) = Cardinality(S) - 1
Counts == Counted(Runners) /\ Counted(RowIds)

ConsolidatorInv ==
  Counts /\ TablesTyped /\ CountsTyped /\ OneRun /\ LocksSound /\ FactsOnce /\ LookupSound /\ BudgetSound

-----------------------------------------------------------------------------
(* An idle call is sound and spends nothing.                               *)
LEMMA IdleSound ==
  Idle \in SoundRuns /\ Idle.pc = "idle" /\ Idle.queue = <<>> /\ Idle.facts = {} /\ ~MaySpend(Idle)
<1>1. Idle \in RunStates
  BY DEF Idle, RunStates, Outside, Outcomes, Conflicts, Somewhere, Phases
<1> QED
  BY Zenon, <1>1 DEF Idle, SoundRuns, MaySpend, Inside

(* Up to the lock: with the budget paused only a light phase goes on.      *)
LEMMA EnterSound ==
  ASSUME NEW v \in RunStates, v.sess \in Sessions
  PROVE  /\ Enter(v) \in SoundRuns /\ Enter(v).pc \in Outside \ {"skip"}
         /\ budget.paused => ~MaySpend(Enter(v))
<1>1. CASE precheck(v.phase)
  <2>1. PICK w : w = [v EXCEPT !.pc = "acquire"]
    BY Zenon
  <2>2. w \in RunStates /\ w.pc = "acquire" /\ w.sess = v.sess /\ w.phase = v.phase
    BY Zenon, <2>1 DEF RunStates, Outside
  <2>3. w \in SoundRuns
    BY Zenon, <2>2 DEF SoundRuns, Inside
  <2> QED
    BY Zenon, <1>1, <2>1, <2>2, <2>3 DEF Enter, precheck, MaySpend, Outside
<1>2. CASE ~precheck(v.phase) /\ Replaying(v)
  <2>1. PICK w : w = [v EXCEPT !.pc = "settle", !.out = "deferred"]
    BY Zenon
  <2>2. w \in RunStates /\ w.pc = "settle" /\ w.sess = v.sess /\ w.out = "deferred" /\ w.queue = v.queue
    BY Zenon, <2>1 DEF RunStates, Outside, Outcomes
  <2>3. w \in SoundRuns
    BY Zenon, <1>2, <2>2 DEF SoundRuns, Replaying
  <2> QED
    BY Zenon, <1>2, <2>1, <2>2, <2>3 DEF Enter, MaySpend, Outside
<1>3. CASE ~precheck(v.phase) /\ ~Replaying(v)
  BY Zenon, <1>3, IdleSound DEF Enter, Outside
<1> QED
  BY Zenon, <1>1, <1>2, <1>3

(* After a phase: a replay is settled, a live call goes on or ends.        *)
LEMMA AfterSound ==
  ASSUME NEW v \in SoundRuns, v.pc # "idle", NEW o \in Outcomes
  PROVE  /\ After(v, o) \in SoundRuns /\ After(v, o).pc \in Outside \ {"skip"}
         /\ budget.paused => ~MaySpend(After(v, o))
<1>1. PICK w : w = [v EXCEPT !.batch = {}, !.todo = <<>>, !.facts = {}, !.seen = "closed"]
  BY Zenon
<1>2. v \in RunStates /\ v.sess \in Sessions
  BY Zenon DEF SoundRuns
<1>3. PICK e, c : e = <<>> /\ c = "closed"
  BY Zenon
<1>4. e \in Seq(SUBSET Messages) /\ c \in Conflicts /\ w = [v EXCEPT !.batch = {}, !.todo = e, !.facts = {}, !.seen = c]
  BY <1>1, <1>3 DEF Conflicts
<1>5. w \in RunStates /\ w.sess = v.sess /\ w.queue = v.queue
  BY Zenon, <1>2, <1>4 DEF RunStates
<1>6. CASE Replaying(v)
  <2>1. PICK x : x = [w EXCEPT !.pc = "settle", !.out = o]
    BY Zenon
  <2>2. x \in RunStates /\ x.pc = "settle" /\ x.sess = v.sess /\ x.out = o /\ x.queue = v.queue
    BY Zenon, <1>5, <2>1 DEF RunStates, Outside
  <2>3. x \in SoundRuns
    BY Zenon, <1>2, <1>6, <2>2 DEF SoundRuns, Replaying, Outcomes
  <2>4. After(v, o) = x
    BY Zenon, <1>1, <1>6, <2>1 DEF After
  <2> QED
    BY Zenon, <2>2, <2>3, <2>4 DEF MaySpend, Outside
<1>7. CASE ~Replaying(v) /\ (o # "completed" \/ v.plan = <<>>)
  BY Zenon, <1>7, IdleSound DEF After, Outside
<1>8. CASE ~Replaying(v) /\ ~(o # "completed" \/ v.plan = <<>>)
  <2>1. PICK x : x = [w EXCEPT !.phase = Head(v.plan), !.plan = Tail(v.plan)]
    BY Zenon
  <2>2. Head(v.plan) \in Phases /\ Tail(v.plan) \in Seq(Phases)
    BY <1>2, <1>8 DEF RunStates
  <2>3. x \in RunStates /\ x.sess = v.sess
    BY Zenon, <1>5, <2>1, <2>2 DEF RunStates
  <2>4. After(v, o) = Enter(x)
    BY Zenon, <1>1, <1>8, <2>1 DEF After
  <2> QED
    BY Zenon, <1>2, <2>3, <2>4, EnterSound
<1> QED
  BY Zenon, <1>6, <1>7, <1>8

(* The next row of a drain, or the live phases.                            *)
LEMMA DrainSound ==
  ASSUME NEW v \in RunStates, v.sess \in Sessions, NEW q \in Seq(Claims)
  PROVE  /\ Drain(v, q) \in SoundRuns /\ Drain(v, q).pc \in Outside \ {"skip"}
         /\ budget.paused => ~MaySpend(Drain(v, q))
<1>1. PICK w : w = [v EXCEPT !.queue = q, !.out = "none"]
  BY Zenon
<1>2. w \in RunStates /\ w.sess = v.sess
  BY Zenon, <1>1 DEF RunStates
<1>3. CASE q = <<>>
  <2>1. PICK x : x = [w EXCEPT !.pc = "plan", !.phase = "light"]
    BY Zenon
  <2>2. x \in RunStates /\ x.pc = "plan" /\ x.sess = v.sess
    BY Zenon, <1>2, <2>1 DEF RunStates, Outside, Phases
  <2>3. x \in SoundRuns
    BY Zenon, <2>2 DEF SoundRuns, Inside
  <2>4. Drain(v, q) = x
    BY Zenon, <1>1, <1>3, <2>1 DEF Drain
  <2> QED
    BY Zenon, <2>2, <2>3, <2>4 DEF MaySpend, Outside
<1>4. CASE q # <<>>
  <2>1. PICK x : x = [w EXCEPT !.phase = Head(q).phase]
    BY Zenon
  <2>2. Head(q) \in Claims
    BY <1>4
  <2>3. Head(q).phase \in Phases
    BY Zenon, <2>2 DEF Claims
  <2>4. x \in RunStates /\ x.sess = v.sess
    BY Zenon, <1>2, <2>1, <2>3 DEF RunStates
  <2>5. Drain(v, q) = Enter(x)
    BY Zenon, <1>1, <1>4, <2>1 DEF Drain
  <2> QED
    BY Zenon, <2>4, <2>5, EnterSound
<1> QED
  BY Zenon, <1>3, <1>4


(* The start of a phase: only a call that was cleared for it may spend.    *)
LEMMA DispatchedSound ==
  ASSUME TablesTyped, NEW v \in SoundRuns, v.pc = "acquire"
  PROVE  /\ Dispatched(v) \in SoundRuns /\ Dispatched(v).pc \in Inside \ {"remember"}
         /\ Dispatched(v).sess = v.sess
         /\ MaySpend(Dispatched(v)) => MaySpend(v)
<1>1. v \in RunStates /\ v.sess \in Sessions /\ v.phase \in Phases
  BY Zenon DEF SoundRuns, RunStates
<1>2. PICK w : w = [v EXCEPT !.out = "completed"]
  BY Zenon
<1>3. w \in RunStates /\ w.sess = v.sess /\ w.out = "completed"
  BY Zenon, <1>1, <1>2 DEF RunStates, Outcomes
<1>4. CASE v.phase = "light"
  <2>1. PICK x : x = [w EXCEPT !.pc = "finish"]
    BY Zenon
  <2>2. x \in RunStates /\ x.pc = "finish" /\ x.sess = v.sess /\ x.out = "completed"
    BY Zenon, <1>3, <2>1 DEF RunStates, Inside
  <2>3. x \in SoundRuns
    BY Zenon, <1>1, <2>2 DEF SoundRuns
  <2>4. Dispatched(v) = x
    BY Zenon, <1>2, <1>4, <2>1 DEF Dispatched
  <2> QED
    BY Zenon, <2>2, <2>3, <2>4 DEF Inside, MaySpend
<1>5. CASE v.phase = "standard"
  <2>0. PICK batch : batch = listMessagesSince(v.sess, cf.maxBatch)
    BY Zenon
  <2>1. PICK kept : kept = Kept(v.sess, batch)
    BY Zenon
  <2>2. batch \subseteq Messages /\ kept \subseteq Messages
    BY Zenon, <2>0, <2>1 DEF listMessagesSince, Kept
  <2>3. PICK todo : todo = IF kept = {} THEN <<>> ELSE <<kept>>
    BY Zenon
  <2>4. todo \in Seq(SUBSET Messages) /\ (kept # {} => todo # <<>>)
    <3>1. <<>> \in Seq(SUBSET Messages) /\ <<kept>> \in Seq(SUBSET Messages)
      BY <2>2
    <3>2. <<kept>> # <<>>
      BY Zenon
    <3> QED
      BY Zenon, <2>3, <3>1, <3>2
  <2>5. PICK pc : pc = IF batch = {} THEN "finish" ELSE IF kept = {} THEN "advance" ELSE "extract"
    BY Zenon
  <2>6. pc \in {"finish", "advance", "extract"} /\ (pc = "extract" => kept # {})
    BY Zenon, <2>5
  <2>7. PICK x : x = [w EXCEPT !.batch = batch, !.todo = todo, !.pc = pc]
    BY Zenon
  <2>8. x \in RunStates /\ x.pc = pc /\ x.sess = v.sess /\ x.out = "completed" /\ x.todo = todo
    BY Zenon, <1>3, <2>2, <2>4, <2>6, <2>7 DEF RunStates, Inside
  <2>9. x \in SoundRuns
    BY Zenon, <1>1, <2>4, <2>6, <2>8 DEF SoundRuns
  <2>10. Dispatched(v) = x
    BY Zenon, <1>2, <1>5, <2>0, <2>1, <2>3, <2>5, <2>7 DEF Dispatched
  <2> QED
    BY Zenon, <1>5, <2>6, <2>8, <2>9, <2>10 DEF Inside, MaySpend
<1>6. CASE v.phase = "deep"
  <2>1. PICK seen, pc : /\ seen = conflict[v.sess]
                        /\ pc = IF conflict[v.sess] = "closed" \/ budget.paused THEN "finish" ELSE "judge"
    BY Zenon
  <2>2. seen \in Conflicts /\ pc \in {"finish", "judge"}
    BY Zenon, <1>1, <2>1 DEF TablesTyped
  <2>3. PICK x : x = [w EXCEPT !.seen = seen, !.pc = pc]
    BY Zenon
  <2>4. x \in RunStates /\ x.pc = pc /\ x.sess = v.sess /\ x.out = "completed"
    BY Zenon, <1>3, <2>2, <2>3 DEF RunStates, Inside
  <2>5. x \in SoundRuns
    BY Zenon, <1>1, <2>2, <2>4 DEF SoundRuns
  <2>6. Dispatched(v) = x
    BY Zenon, <1>2, <1>6, <2>1, <2>3 DEF Dispatched
  <2> QED
    BY Zenon, <1>6, <2>2, <2>4, <2>5, <2>6 DEF Inside, MaySpend
<1> QED
  BY Zenon, <1>1, <1>4, <1>5, <1>6 DEF Phases

(* The facts are stored: the episode is formed unless the budget paused.   *)
LEMMA StoredSound ==
  ASSUME NEW v \in RunStates, v.sess \in Sessions, v.out # "none", NEW p \in BOOLEAN
  PROVE  /\ Stored(v, p) \in SoundRuns /\ Stored(v, p).pc \in Inside \ {"remember"}
         /\ Stored(v, p).sess = v.sess
         /\ p => ~MaySpend(Stored(v, p))
<1>1. PICK pc : pc = IF cf.formEpisodes /\ ~p THEN "episode" ELSE "advance"
  BY Zenon
<1>2. pc \in {"episode", "advance"} /\ (p => pc = "advance")
  BY Zenon, <1>1
<1>3. PICK x : x = [v EXCEPT !.pc = pc]
  BY Zenon
<1>4. x \in RunStates /\ x.pc = pc /\ x.sess = v.sess /\ x.out = v.out
  BY Zenon, <1>2, <1>3 DEF RunStates, Inside
<1>5. x \in SoundRuns
  BY Zenon, <1>2, <1>4 DEF SoundRuns
<1>6. Stored(v, p) = x
  BY Zenon, <1>1, <1>3 DEF Stored
<1> QED
  BY Zenon, <1>2, <1>4, <1>5, <1>6 DEF Inside, MaySpend

(* After a slice: no further call once the budget has paused.              *)
LEMMA ExtractedSound ==
  ASSUME NEW v \in RunStates, v.pc = "extract", v.sess \in Sessions, v.out # "none", NEW p \in BOOLEAN
  PROVE  /\ Extracted(v, p) \in SoundRuns /\ Extracted(v, p).pc \in Inside \ {"remember"}
         /\ Extracted(v, p).sess = v.sess
         /\ p => ~MaySpend(Extracted(v, p))
<1>1. CASE v.todo # <<>> /\ p
  <2>1. PICK x : x = [v EXCEPT !.pc = "finish", !.out = "failed"]
    BY Zenon
  <2>2. x \in RunStates /\ x.pc = "finish" /\ x.sess = v.sess /\ x.out = "failed"
    BY Zenon, <2>1 DEF RunStates, Inside, Outcomes
  <2>3. x \in SoundRuns
    BY Zenon, <2>2 DEF SoundRuns
  <2>4. Extracted(v, p) = x
    BY Zenon, <1>1, <2>1 DEF Extracted
  <2> QED
    BY Zenon, <2>2, <2>3, <2>4 DEF Inside, MaySpend
<1>2. CASE v.todo # <<>> /\ ~p
  <2>1. Extracted(v, p) = v
    BY Zenon, <1>2 DEF Extracted
  <2> QED
    BY Zenon, <1>2, <2>1 DEF SoundRuns, Inside
<1>3. CASE v.todo = <<>> /\ v.facts = {}
  <2>1. Extracted(v, p) = Stored(v, p)
    BY Zenon, <1>3 DEF Extracted
  <2> QED
    BY Zenon, <2>1, StoredSound
<1>4. CASE v.todo = <<>> /\ v.facts # {}
  <2>1. PICK x : x = [v EXCEPT !.pc = "check"]
    BY Zenon
  <2>2. x \in RunStates /\ x.pc = "check" /\ x.sess = v.sess /\ x.out = v.out
    BY Zenon, <2>1 DEF RunStates, Inside
  <2>3. x \in SoundRuns
    BY Zenon, <2>2 DEF SoundRuns
  <2>4. Extracted(v, p) = x
    BY Zenon, <1>4, <2>1 DEF Extracted
  <2> QED
    BY Zenon, <2>2, <2>3, <2>4 DEF Inside, MaySpend
<1> QED
  BY Zenon, <1>1, <1>2, <1>3, <1>4

(* A fact is done with: the next lookup, or the episode.                   *)
LEMMA WrittenSound ==
  ASSUME TablesTyped, NEW v \in SoundRuns, v.pc \in {"check", "remember"}
  PROVE  /\ Written(v) \in SoundRuns /\ Written(v).pc \in Inside \ {"remember"}
         /\ Written(v).sess = v.sess
         /\ budget.paused => ~MaySpend(Written(v))
<1>1. v \in RunStates /\ v.sess \in Sessions /\ v.out # "none" /\ v.facts \subseteq Messages
  BY Zenon DEF SoundRuns, RunStates, Inside
<1>2. PICK facts : facts = v.facts \ {First(v.facts)}
  BY Zenon
<1>3. PICK w : w = [v EXCEPT !.facts = facts]
  BY Zenon
<1>4. facts \subseteq Messages
  BY Zenon, <1>1, <1>2
<1>5. w \in RunStates /\ w.sess = v.sess /\ w.out = v.out /\ w.facts = facts
  BY Zenon, <1>1, <1>3, <1>4 DEF RunStates
<1>6. w = [v EXCEPT !.facts = @ \ {First(@)}]
  BY Zenon, <1>1, <1>2, <1>3
<1>7. budget.paused \in BOOLEAN
  BY Zenon DEF TablesTyped
<1>8. CASE facts = {}
  <2>1. Written(v) = Stored(w, budget.paused)
    BY Zenon, <1>5, <1>6, <1>8 DEF Written
  <2> QED
    BY <1>1, <1>5, <1>7, <2>1, StoredSound
<1>9. CASE facts # {}
  <2>1. PICK x : x = [w EXCEPT !.pc = "check"]
    BY Zenon
  <2>2. x \in RunStates /\ x.pc = "check" /\ x.sess = v.sess /\ x.out = v.out
    BY Zenon, <1>5, <2>1 DEF RunStates, Inside
  <2>3. x \in SoundRuns
    BY Zenon, <1>1, <2>2 DEF SoundRuns
  <2>4. Written(v) = x
    BY Zenon, <1>5, <1>6, <1>9, <2>1 DEF Written
  <2> QED
    BY Zenon, <2>2, <2>3, <2>4 DEF Inside, MaySpend
<1> QED
  BY Zenon, <1>8, <1>9


-----------------------------------------------------------------------------
(* A step of one call, by what it disturbs.                                *)
Moves(r, w) == run' = [run EXCEPT ![r] = w] /\ cf' = cf
Stays(r, w) == w.pc \in Inside => run[r].pc \in Inside /\ w.sess = run[r].sess

(* A call that takes no lock leaves the holders as they are.               *)
LEMMA LocksKept ==
  ASSUME ConsolidatorInv, NEW r \in Runners, NEW w \in SoundRuns, Moves(r, w), Stays(r, w),
         lock' = lock, used'.takeovers = used.takeovers
  PROVE  OneRun' /\ LocksSound'
<1>1. run \in [Runners -> SoundRuns]
  BY Zenon DEF ConsolidatorInv, TablesTyped
<1>2. OneRun'
  BY Zenon, <1>1 DEF ConsolidatorInv, OneRun, InRun, Moves, Stays, Inside
<1> QED
  BY Zenon, <1>2 DEF ConsolidatorInv, LocksSound

(* A call that stores no fact leaves the lookups of the others good.       *)
LEMMA LookupKept ==
  ASSUME ConsolidatorInv, NEW r \in Runners, NEW w \in SoundRuns, Moves(r, w), w.pc # "remember",
         wrote' = wrote, missed' = missed, used'.takeovers = used.takeovers
  PROVE  FactsOnce' /\ LookupSound'
<1>1. run \in [Runners -> SoundRuns]
  BY Zenon DEF ConsolidatorInv, TablesTyped
<1>2. LookupSound'
  BY Zenon, <1>1 DEF ConsolidatorInv, LookupSound, Moves
<1> QED
  BY Zenon, <1>2 DEF ConsolidatorInv, FactsOnce

(* A call of no cost: nobody starts to spend while the budget is paused.   *)
LEMMA BudgetKept ==
  ASSUME ConsolidatorInv, NEW r \in Runners, NEW w \in SoundRuns, Moves(r, w), budget' = budget,
         budget.paused /\ MaySpend(w) => MaySpend(run[r])
  PROVE  BudgetSound'
<1>1. run \in [Runners -> SoundRuns]
  BY Zenon DEF ConsolidatorInv, TablesTyped
<1>2. CASE budget.paused
  <2>1. Spenders' \subseteq Spenders
    BY Zenon, <1>1, <1>2 DEF Spenders, Moves
  <2>2. Spenders \subseteq Runners /\ Spenders' \subseteq Runners
    BY Zenon, <2>1 DEF Spenders
  <2>3. Counted(Runners)
    BY Zenon DEF ConsolidatorInv, Counts
  <2>4. Cardinality(Spenders') <= Cardinality(Spenders)
    BY Zenon, <2>1, <2>2, <2>3 DEF Counted
  <2>6. Cardinality(Spenders') \in Nat /\ Cardinality(Spenders) \in Nat /\ Cardinality(Runners) \in Nat
    BY Zenon, <2>2, <2>3 DEF Counted
  <2>7. budget.spent \in Nat
    BY Zenon DEF ConsolidatorInv, TablesTyped
  <2>8. cf.maxTokens \in Nat
    BY Zenon, ScenarioAssumption DEF ConsolidatorInv, TablesTyped
  <2> QED
    BY <1>2, <2>4, <2>6, <2>7, <2>8 DEF ConsolidatorInv, BudgetSound, Moves
<1>3. CASE ~budget.paused
  BY Zenon, <1>3 DEF ConsolidatorInv, BudgetSound, Moves
<1> QED
  BY Zenon, <1>2, <1>3

(* A call that spends a token was one of those that may, and is none of    *)
(* them once the budget is paused.                                         *)
LEMMA BudgetSpent ==
  ASSUME ConsolidatorInv, NEW r \in Runners, NEW w \in SoundRuns, Moves(r, w), NEW c \in {0, 1}, record(c),
         MaySpend(run[r]), budget'.paused => ~MaySpend(w)
  PROVE  budget' \in [spent : Nat, paused : BOOLEAN] /\ BudgetSound'
<1>1. run \in [Runners -> SoundRuns] /\ budget.spent \in Nat /\ budget.paused \in BOOLEAN
  BY Zenon DEF ConsolidatorInv, TablesTyped
<1>2. cf.maxTokens \in Nat
  BY Zenon, ScenarioAssumption DEF ConsolidatorInv, TablesTyped
<1>3. Spenders \subseteq Runners /\ Counted(Runners)
  BY Zenon DEF Spenders, ConsolidatorInv, Counts
<1>4. r \in Spenders /\ Spenders \ {r} \subseteq Runners
  BY Zenon, <1>3 DEF Spenders
<1>5. /\ Cardinality(Spenders) \in Nat \ {0} /\ Cardinality(Runners) \in Nat
      /\ Cardinality(Spenders \ {r}) = Cardinality(Spenders) - 1
  <2>1. /\ Cardinality(Spenders) \in Nat /\ Cardinality(Runners) \in Nat
        /\ Cardinality(Spenders \ {r}) \in Nat
    BY Zenon, <1>3, <1>4 DEF Counted
  <2>2. Cardinality(Spenders \ {r}) = Cardinality(Spenders) - 1
    BY Zenon, <1>3, <1>4 DEF Counted
  <2> QED
    BY <2>1, <2>2
<1>6. Spent(c) \in Nat
  BY <1>1, <1>2, <1>5 DEF Spent, MaxOver
<1>7. PICK p \in BOOLEAN : p = (budget.paused \/ (Over(c) /\ cf.onExceed = "pause"))
  BY Zenon, <1>1 DEF Over
<1>8. budget' = [spent |-> Spent(c), paused |-> p]
  BY Zenon, <1>7 DEF record
<1>9. budget' \in [spent : Nat, paused : BOOLEAN] /\ budget'.spent = Spent(c) /\ budget'.paused = p
  BY Zenon, <1>6, <1>8
<1>10. BudgetSound'
  <2> SUFFICES ASSUME cf.onExceed = "pause"
               PROVE  BudgetSound'
    BY Zenon DEF BudgetSound, Moves
  <2>1. Cardinality(Spenders) <= Cardinality(Runners)
    BY Zenon, <1>3 DEF Counted
  <2>2. budget.spent + 1 <= MaxOver
    BY <1>1, <1>2, <1>5, <2>1 DEF ConsolidatorInv, BudgetSound, MaxOver
  <2>3. Spent(c) = budget.spent + c
    BY <1>1, <1>2, <1>5, <2>2 DEF Spent, MaxOver
  <2>4. CASE ~p
    <3>1. ~Over(c)
      BY Zenon, <1>7, <2>4
    <3>2. Spent(c) <= cf.maxTokens
      BY <1>2, <1>6, <3>1 DEF Over
    <3> QED
      BY Zenon, <1>9, <2>4, <3>2 DEF BudgetSound, Moves
  <2>5. CASE p
    <3>1. Spenders' \subseteq Spenders \ {r}
      <4>1. \A q \in Runners : q # r => run'[q] = run[q]
        BY Zenon, <1>1 DEF Moves
      <4>2. run'[r] = w /\ ~MaySpend(w)
        BY Zenon, <1>1, <1>9, <2>5 DEF Moves
      <4> QED
        BY Zenon, <4>1, <4>2 DEF Spenders
    <3>2. Spenders' \subseteq Runners
      BY Zenon, <1>4, <3>1
    <3>3. Cardinality(Spenders') <= Cardinality(Spenders) - 1
      <4>1. Cardinality(Spenders') <= Cardinality(Spenders \ {r})
        BY Zenon, <1>3, <1>4, <3>1, <3>2 DEF Counted
      <4> QED
        BY Zenon, <1>5, <4>1
    <3>4. Cardinality(Spenders') \in Nat
      BY Zenon, <1>3, <3>2 DEF Counted
    <3>5. Spent(c) + Cardinality(Spenders') <= cf.maxTokens + Cardinality(Runners)
      <4>1. CASE budget.paused
        <5>1. budget.spent + Cardinality(Spenders) <= cf.maxTokens + Cardinality(Runners)
          BY Zenon, <4>1 DEF ConsolidatorInv, BudgetSound
        <5> QED
          BY <1>1, <1>2, <1>5, <2>3, <3>3, <3>4, <5>1
      <4>2. CASE ~budget.paused
        <5>1. budget.spent <= cf.maxTokens
          BY Zenon, <4>2 DEF ConsolidatorInv, BudgetSound
        <5> QED
          BY <1>1, <1>2, <1>5, <2>1, <2>3, <3>3, <3>4, <5>1
      <4> QED
        BY Zenon, <4>1, <4>2
    <3> QED
      BY Zenon, <1>9, <2>5, <3>5 DEF BudgetSound, Moves
  <2> QED
    BY Zenon, <1>7, <2>4, <2>5
<1> QED
  BY Zenon, <1>9, <1>10


(* A call that leaves the tables as they are.                              *)
LEMMA TablesKept ==
  ASSUME ConsolidatorInv, NEW r \in Runners, NEW w \in SoundRuns, Moves(r, w),
         rows' \in [RowIds -> RowStates], conflict' \in [Sessions -> Conflicts],
         slice' \in [Sessions -> SUBSET Messages], budget' \in [spent : Nat, paused : BOOLEAN]
  PROVE  TablesTyped'
BY Zenon DEF ConsolidatorInv, TablesTyped, Moves

(* What a bound counts up leaves the takeovers alone unless it is theirs.  *)
LEMMA UseKeeps ==
  ASSUME CountsTyped, NEW b \in {"faults", "crashes", "manual"}, NEW max, Use(b, max)
  PROVE  /\ used' \in [faults : Nat, takeovers : Nat, crashes : Nat, manual : Nat]
         /\ used'.takeovers = used.takeovers
BY DEF CountsTyped, Use

(* A call of no cost that touches neither a lock nor a fact.               *)
LEMMA QuietStep ==
  ASSUME ConsolidatorInv, NEW r \in Runners, NEW w \in SoundRuns, Moves(r, w), Stays(r, w),
         w.pc # "remember", budget.paused /\ MaySpend(w) => MaySpend(run[r]),
         UNCHANGED <<lock, wrote, missed, budget, slice>>,
         rows' \in [RowIds -> RowStates], conflict' \in [Sessions -> Conflicts],
         used' = used \/ \E b \in {"faults", "crashes", "manual"}, max \in Nat : Use(b, max)
  PROVE  ConsolidatorInv'
<1>1. TablesTyped /\ CountsTyped
  BY Zenon DEF ConsolidatorInv
<1>2. /\ used' \in [faults : Nat, takeovers : Nat, crashes : Nat, manual : Nat]
      /\ used'.takeovers = used.takeovers
  <2>1. CASE used' = used
    BY Zenon, <1>1, <2>1 DEF CountsTyped
  <2>2. CASE used' # used
    <3>1. PICK b \in {"faults", "crashes", "manual"}, max \in Nat : Use(b, max)
      BY Zenon, <2>2
    <3> QED
      BY Zenon, <1>1, <3>1, UseKeeps
  <2> QED
    BY Zenon, <2>1, <2>2
<1>3. TablesTyped'
  BY Zenon, <1>1, TablesKept DEF TablesTyped
<1>4. CountsTyped'
  BY Zenon, <1>1, <1>2 DEF CountsTyped
<1>5. OneRun' /\ LocksSound'
  BY Zenon, <1>2, LocksKept
<1>6. FactsOnce' /\ LookupSound'
  BY Zenon, <1>2, LookupKept
<1>7. BudgetSound'
  BY Zenon, BudgetKept
<1> QED
  BY Zenon, <1>3, <1>4, <1>5, <1>6, <1>7 DEF ConsolidatorInv

(* trigger() claims the due rows and drains the first.                     *)
LEMMA TriggerKeeps ==
  ASSUME ConsolidatorInv, NEW r \in Runners, NEW s \in Sessions, NEW reason \in {"turn", "cron"},
         trigger(r, s, reason)
  PROVE  ConsolidatorInv'
<1>1. TablesTyped
  BY Zenon DEF ConsolidatorInv
<1>2. PICK q \in Orders(DueRows) :
        run' = [run EXCEPT ![r] = Drain([Idle EXCEPT !.sess = s, !.reason = reason], Claimed(q))]
  BY Zenon DEF trigger
<1>3. DueRows \subseteq RowIds /\ Counted(RowIds)
  BY Zenon DEF DueRows, ConsolidatorInv, Counts
<1>4. Cardinality(DueRows) \in Nat
  BY Zenon, <1>3 DEF Counted
<1>5. q \in [1..Cardinality(DueRows) -> RowIds]
  BY Zenon, <1>3 DEF Orders
<1>6. \A n \in 1..Cardinality(DueRows) : rows[q[n]] \in RowStates /\ q[n] \in RowIds
  BY Zenon, <1>1, <1>5 DEF TablesTyped
<1>7. \A n \in 1..Cardinality(DueRows) :
        [id |-> q[n], rc |-> rows[q[n]].rc, sess |-> rows[q[n]].sess, ids |-> rows[q[n]].ids,
         phase |-> rows[q[n]].phase] \in Claims
  BY Zenon, <1>6 DEF RowStates, Claims
<1>8. DOMAIN q = 1..Cardinality(DueRows)
  BY Zenon, <1>5
<1>9. Claimed(q) \in [1..Cardinality(DueRows) -> Claims]
  BY Zenon, <1>7, <1>8 DEF Claimed
<1>10. Claimed(q) \in Seq(Claims)
  BY <1>4, <1>9
<1>11. PICK v : v = [Idle EXCEPT !.sess = s, !.reason = reason]
  BY Zenon
<1>12. v \in RunStates /\ v.sess = s
  BY Zenon, <1>11, IdleSound DEF SoundRuns, RunStates, Somewhere
<1>13. PICK w : w = Drain(v, Claimed(q))
  BY Zenon
<1>14. w \in SoundRuns /\ w.pc \in Outside \ {"skip"} /\ (budget.paused => ~MaySpend(w))
  BY Zenon, <1>10, <1>12, <1>13, DrainSound
<1>15. Moves(r, w)
  BY Zenon, <1>2, <1>11, <1>13 DEF Moves, trigger
<1>16. Stays(r, w) /\ w.pc # "remember"
  BY Zenon, <1>14 DEF Stays, Inside, Outside
<1>17. UNCHANGED <<lock, wrote, missed, budget, slice, rows, conflict, used>>
  BY Zenon DEF trigger, tables, history
<1> QED
  BY Zenon, <1>1, <1>14, <1>15, <1>16, <1>17, QuietStep DEF TablesTyped

(* fireNow() enters its phase at once.                                     *)
LEMMA FireKeeps ==
  ASSUME ConsolidatorInv, NEW r \in Runners, NEW s \in Sessions, NEW phase \in Phases, fireNow(r, s, phase)
  PROVE  ConsolidatorInv'
<1>1. TablesTyped
  BY Zenon DEF ConsolidatorInv
<1>2. PICK v : v = [Idle EXCEPT !.sess = s, !.phase = phase]
  BY Zenon
<1>3. v \in RunStates /\ v.sess = s
  BY Zenon, <1>2, IdleSound DEF SoundRuns, RunStates, Somewhere
<1>4. PICK w : w = Enter(v)
  BY Zenon
<1>5. w \in SoundRuns /\ w.pc \in Outside \ {"skip"} /\ (budget.paused => ~MaySpend(w))
  BY Zenon, <1>3, <1>4, EnterSound
<1>6. Moves(r, w)
  BY Zenon, <1>2, <1>4 DEF Moves, fireNow
<1>7. Stays(r, w) /\ w.pc # "remember"
  BY Zenon, <1>5 DEF Stays, Inside, Outside
<1>8. UNCHANGED <<lock, wrote, missed, budget, slice, rows, conflict>> /\ Use("manual", cf.maxManual)
  BY Zenon DEF fireNow, tables, history
<1>9. cf.maxManual \in Nat
  BY Zenon, <1>1, ScenarioAssumption DEF TablesTyped
<1>10. \E b \in {"faults", "crashes", "manual"}, max \in Nat : Use(b, max)
  BY Zenon, <1>8, <1>9
<1> QED
  BY Zenon, <1>1, <1>5, <1>6, <1>7, <1>8, <1>10, QuietStep DEF TablesTyped

(* The live phases of a trigger.                                           *)
LEMMA PlanKeeps ==
  ASSUME ConsolidatorInv, NEW r \in Runners, Plan(r)
  PROVE  ConsolidatorInv'
<1>1. TablesTyped /\ run[r] \in SoundRuns /\ run[r].pc = "plan"
  BY Zenon DEF ConsolidatorInv, TablesTyped, Plan
<1>2. run[r] \in RunStates /\ run[r].sess \in Sessions
  BY Zenon, <1>1 DEF SoundRuns
<1>3. PICK plan : plan = planPhases(run[r].reason)
  BY Zenon
<1>4. plan \in Seq(Phases)
  <2>1. \A phase \in Phases : (IF Has(phase) THEN <<phase>> ELSE <<>>) \in Seq(Phases)
    <3>1. \A phase \in Phases : <<phase>> \in Seq(Phases)
      OBVIOUS
    <3>2. <<>> \in Seq(Phases)
      OBVIOUS
    <3> QED
      BY Zenon, <3>1, <3>2
  <2>2. PICK l \in Seq(Phases) : l = IF Has("light") THEN <<"light">> ELSE <<>>
    BY Zenon, <2>1 DEF Phases
  <2>3. PICK m \in Seq(Phases) : m = IF Has("standard") THEN <<"standard">> ELSE <<>>
    BY Zenon, <2>1 DEF Phases
  <2>4. PICK d \in Seq(Phases) : d = IF Has("deep") THEN <<"deep">> ELSE <<>>
    BY Zenon, <2>1 DEF Phases
  <2>5. plan = l \o m \o (IF run[r].reason = "cron" THEN d ELSE <<>>)
    BY Zenon, <1>3, <2>2, <2>3, <2>4 DEF planPhases
  <2>6. l \o m \in Seq(Phases) /\ (IF run[r].reason = "cron" THEN d ELSE <<>>) \in Seq(Phases)
    OBVIOUS
  <2> QED
    BY <2>5, <2>6
<1>5. PICK w : w = IF plan = <<>> \/ cooling[run[r].sess] THEN Idle
                   ELSE Enter([run[r] EXCEPT !.reason = "turn", !.phase = Head(plan), !.plan = Tail(plan)])
  BY Zenon
<1>6. Moves(r, w)
  BY Zenon, <1>3, <1>5 DEF Moves, Plan
<1>7. w \in SoundRuns /\ w.pc \in Outside \ {"skip"} /\ (budget.paused => ~MaySpend(w))
  <2>1. CASE plan = <<>> \/ cooling[run[r].sess]
    BY Zenon, <1>5, <2>1, IdleSound DEF Outside
  <2>2. CASE ~(plan = <<>> \/ cooling[run[r].sess])
    <3>1. PICK v : v = [run[r] EXCEPT !.reason = "turn", !.phase = Head(plan), !.plan = Tail(plan)]
      BY Zenon
    <3>2. Head(plan) \in Phases /\ Tail(plan) \in Seq(Phases)
      BY <1>4, <2>2
    <3>3. v \in RunStates /\ v.sess = run[r].sess
      BY Zenon, <1>2, <3>1, <3>2 DEF RunStates
    <3> QED
      BY Zenon, <1>2, <1>5, <2>2, <3>1, <3>3, EnterSound
  <2> QED
    BY Zenon, <2>1, <2>2
<1>8. Stays(r, w) /\ w.pc # "remember"
  BY Zenon, <1>7 DEF Stays, Inside, Outside
<1>9. UNCHANGED <<lock, wrote, missed, budget, slice, rows, used>>
  BY Zenon DEF Plan, history
<1>10. conflict' \in [Sessions -> Conflicts]
  BY Zenon, <1>1 DEF Plan, TablesTyped, Conflicts
<1> QED
  BY Zenon, <1>1, <1>6, <1>7, <1>8, <1>9, <1>10, QuietStep DEF TablesTyped


-----------------------------------------------------------------------------
(* A lock that may be taken is held by no run.                             *)
LEMMA AvailableFree ==
  ASSUME ConsolidatorInv, used.takeovers = 0, NEW s \in Sessions, Available(s)
  PROVE  \A q \in Runners : InRun(q) => run[q].sess # s
<1>1. lock[s].by \notin Runners
  BY NamesAssumption DEF ConsolidatorInv, LocksSound, Available, Free
<1> QED
  BY Zenon, <1>1 DEF ConsolidatorInv, OneRun

(* acquire takes a lock that no run holds, and starts the phase.           *)
LEMMA AcquireKeeps ==
  ASSUME ConsolidatorInv, NEW r \in Runners, acquire(r)
  PROVE  ConsolidatorInv'
<1>1. TablesTyped /\ CountsTyped /\ run[r] \in SoundRuns /\ run[r].pc = "acquire" /\ Available(run[r].sess)
  BY Zenon DEF ConsolidatorInv, TablesTyped, acquire
<1>2. PICK s \in Sessions : s = run[r].sess
  BY Zenon, <1>1 DEF SoundRuns
<1>3. PICK w : w = Dispatched(run[r])
  BY Zenon
<1>4. /\ w \in SoundRuns /\ w.pc \in Inside \ {"remember"} /\ w.sess = s
      /\ MaySpend(w) => MaySpend(run[r])
  BY Zenon, <1>1, <1>2, <1>3, DispatchedSound
<1>5. Moves(r, w)
  BY Zenon, <1>3 DEF Moves, acquire
<1>6. UNCHANGED <<wrote, missed, budget, rows, conflict, used>>
  BY Zenon DEF acquire, history
<1>7. slice' \in [Sessions -> SUBSET Messages]
  <2>1. listMessagesSince(s, cf.maxBatch) \subseteq Messages
    BY Zenon DEF listMessagesSince
  <2> QED
    BY Zenon, <1>1, <1>2, <2>1 DEF acquire, TablesTyped
<1>8. PICK l : l = [by |-> r, stale |-> FALSE]
  BY ZenonT(30)
<1>9. lock' = [lock EXCEPT ![s] = l] /\ l.by = r /\ l.stale = FALSE
  BY Zenon, <1>2, <1>8 DEF acquire
<1>10. CountsTyped'
  BY Zenon, <1>1, <1>6, <1>8, <1>9 DEF CountsTyped
<1>11. TablesTyped'
  BY Zenon, <1>1, <1>4, <1>5, <1>6, <1>7, TablesKept DEF TablesTyped
<1>12. OneRun'
  <2> SUFFICES ASSUME used.takeovers = 0, NEW q \in Runners, InRun(q)'
               PROVE  lock'[run'[q].sess].by = q
    BY Zenon, <1>6 DEF OneRun
  <2>1. CASE q = r
    BY <1>1, <1>2, <1>4, <1>5, <1>9, <2>1 DEF TablesTyped, CountsTyped, Moves
  <2>2. CASE q # r
    <3>1. run'[q] = run[q]
      BY Zenon, <1>1, <1>5, <2>2 DEF TablesTyped, Moves
    <3>2. InRun(q) /\ run[q].sess # s
      BY Zenon, <1>1, <1>2, <3>1, AvailableFree DEF InRun
    <3>3. run[q].sess \in Sessions
      BY Zenon, <1>1, <3>2 DEF TablesTyped, SoundRuns, InRun
    <3>4. lock'[run[q].sess] = lock[run[q].sess]
      BY Zenon, <1>1, <1>9, <3>2, <3>3 DEF CountsTyped
    <3> QED
      BY Zenon, <3>1, <3>2, <3>4 DEF ConsolidatorInv, OneRun
  <2> QED
    BY Zenon, <2>1, <2>2
<1>13. LocksSound'
  BY Zenon, <1>1, <1>6, <1>9 DEF ConsolidatorInv, CountsTyped, LocksSound
<1>14. FactsOnce' /\ LookupSound'
  BY Zenon, <1>4, <1>5, <1>6, LookupKept
<1>15. BudgetSound'
  BY Zenon, <1>4, <1>5, <1>6, BudgetKept
<1> QED
  BY Zenon, <1>10, <1>11, <1>12, <1>13, <1>14, <1>15 DEF ConsolidatorInv

(* A call that gives up waiting for the lock.                              *)
LEMMA DeferredKeeps ==
  ASSUME ConsolidatorInv, NEW r \in Runners, deferred(r)
  PROVE  ConsolidatorInv'
<1>1. TablesTyped /\ run[r] \in SoundRuns /\ run[r].pc = "acquire"
  BY Zenon DEF ConsolidatorInv, TablesTyped, deferred
<1>2. PICK w : w = After(run[r], "deferred")
  BY Zenon
<1>3. w \in SoundRuns /\ w.pc \in Outside \ {"skip"} /\ (budget.paused => ~MaySpend(w))
  BY Zenon, <1>1, <1>2, AfterSound DEF Outcomes
<1>4. Moves(r, w)
  BY Zenon, <1>2 DEF Moves, deferred
<1>5. Stays(r, w) /\ w.pc # "remember"
  BY <1>3 DEF Stays, Inside, Outside
<1>6. UNCHANGED <<lock, wrote, missed, budget, slice, rows, conflict, used>>
  BY Zenon DEF deferred, tables, history
<1> QED
  BY Zenon, <1>1, <1>3, <1>4, <1>5, <1>6, QuietStep DEF TablesTyped

(* The lock is left behind by a call that could not record its start.      *)
LEMMA StartFailsKeeps ==
  ASSUME ConsolidatorInv, NEW r \in Runners, startFails(r)
  PROVE  ConsolidatorInv'
<1>1. TablesTyped /\ CountsTyped /\ run[r] \in SoundRuns /\ run[r].pc = "acquire" /\ Available(run[r].sess)
  BY Zenon DEF ConsolidatorInv, TablesTyped, startFails
<1>2. PICK s \in Sessions : s = run[r].sess
  BY <1>1 DEF SoundRuns
<1>3. PICK w : w = IF Replaying(run[r]) THEN After(run[r], "failed") ELSE Idle
  BY Zenon
<1>4. w \in SoundRuns /\ w.pc \in Outside \ {"skip"} /\ (budget.paused => ~MaySpend(w))
  BY Zenon, <1>1, <1>3, AfterSound, IdleSound DEF Outcomes, Outside
<1>5. Moves(r, w)
  BY Zenon, <1>3 DEF Moves, startFails
<1>6. w.pc \notin Inside /\ w.pc # "remember"
  BY Zenon, <1>4 DEF Inside, Outside
<1>7. UNCHANGED <<wrote, missed, budget, rows, conflict, slice>> /\ Use("faults", cf.maxFaults)
  BY Zenon DEF startFails, history
<1>8. /\ used' \in [faults : Nat, takeovers : Nat, crashes : Nat, manual : Nat]
      /\ used'.takeovers = used.takeovers
  BY Zenon, <1>1, <1>7, UseKeeps
<1>9. lock' = [lock EXCEPT ![s] = Orphan] /\ Orphan.by = "orphan"
  BY Zenon, <1>2 DEF startFails, Orphan
<1>10. CountsTyped'
  BY Zenon, <1>1, <1>7, <1>8, <1>9 DEF CountsTyped, Orphan
<1>11. TablesTyped'
  BY Zenon, <1>1, <1>4, <1>5, <1>7, TablesKept DEF TablesTyped
<1>12. OneRun'
  <2> SUFFICES ASSUME used.takeovers = 0, NEW q \in Runners, InRun(q)'
               PROVE  lock'[run'[q].sess].by = q
    BY Zenon, <1>8 DEF OneRun
  <2>1. q # r
    BY Zenon, <1>1, <1>5, <1>6 DEF TablesTyped, Moves, InRun, Inside
  <2>2. run'[q] = run[q]
    BY Zenon, <1>1, <1>5, <2>1 DEF TablesTyped, Moves
  <2>3. InRun(q) /\ run[q].sess # s
    BY <1>1, <1>2, <2>2, AvailableFree DEF InRun
  <2>4. run[q].sess \in Sessions
    BY <1>1, <2>3 DEF TablesTyped, SoundRuns, InRun
  <2>5. lock'[run[q].sess] = lock[run[q].sess]
    BY Zenon, <1>1, <1>9, <2>3, <2>4 DEF CountsTyped
  <2> QED
    BY <2>2, <2>3, <2>5 DEF ConsolidatorInv, OneRun
<1>13. LocksSound'
  BY Zenon, <1>1, <1>8, <1>9 DEF ConsolidatorInv, CountsTyped, LocksSound
<1>14. FactsOnce' /\ LookupSound'
  BY Zenon, <1>4, <1>5, <1>6, <1>7, <1>8, LookupKept
<1>15. BudgetSound'
  BY Zenon, <1>4, <1>5, <1>7, BudgetKept
<1> QED
  BY <1>10, <1>11, <1>12, <1>13, <1>14, <1>15 DEF ConsolidatorInv


-----------------------------------------------------------------------------
(* A provider call: it spends, and touches neither a lock nor a fact.      *)
LEMMA CallStep ==
  ASSUME ConsolidatorInv, NEW r \in Runners, NEW w \in SoundRuns, Moves(r, w), Stays(r, w),
         w.pc # "remember", NEW c \in {0, 1}, record(c), MaySpend(run[r]), budget'.paused => ~MaySpend(w),
         UNCHANGED <<lock, wrote, missed, slice, rows, used>>, conflict' \in [Sessions -> Conflicts]
  PROVE  ConsolidatorInv'
<1>1. TablesTyped /\ CountsTyped
  BY Zenon DEF ConsolidatorInv
<1>2. budget' \in [spent : Nat, paused : BOOLEAN] /\ BudgetSound'
  BY Zenon, BudgetSpent
<1>3. TablesTyped'
  BY Zenon, <1>1, <1>2, TablesKept DEF TablesTyped
<1>4. CountsTyped'
  BY Zenon, <1>1 DEF CountsTyped
<1>5. OneRun' /\ LocksSound'
  BY Zenon, LocksKept
<1>6. FactsOnce' /\ LookupSound'
  BY Zenon, LookupKept
<1> QED
  BY Zenon, <1>2, <1>3, <1>4, <1>5, <1>6 DEF ConsolidatorInv

(* A slice is extracted or split.                                          *)
LEMMA ExtractKeeps ==
  ASSUME ConsolidatorInv, NEW r \in Runners, extract(r)
  PROVE  ConsolidatorInv'
<1>1. TablesTyped /\ run[r] \in SoundRuns /\ run[r].pc = "extract"
  BY Zenon DEF ConsolidatorInv, TablesTyped, extract
<1>2. PICK v \in RunStates : v = run[r] /\ v.sess \in Sessions /\ v.out # "none" /\ v.todo # <<>>
  BY Zenon, <1>1 DEF SoundRuns, Inside
<1>3. PICK S : S = Head(v.todo)
  BY Zenon
<1>4. S \subseteq Messages /\ Tail(v.todo) \in Seq(SUBSET Messages)
  BY SMTT(30), <1>2, <1>3 DEF RunStates
<1>5. PICK c \in {0, 1}, split \in BOOLEAN, got \in SUBSET S :
        /\ record(c)
        /\ run' = [run EXCEPT ![r] =
             IF Throws(c) THEN [v EXCEPT !.pc = "finish", !.out = "failed"]
             ELSE IF split
               THEN Extracted([v EXCEPT !.todo = Halves(S) \o Tail(@)], budget'.paused)
             ELSE Extracted([v EXCEPT !.todo = Tail(@), !.facts = @ \cup got], budget'.paused)]
  BY ZenonT(30), <1>2, <1>3 DEF extract
<1>6. PICK w : w = IF Throws(c) THEN [v EXCEPT !.pc = "finish", !.out = "failed"]
                   ELSE IF split
                     THEN Extracted([v EXCEPT !.todo = Halves(S) \o Tail(@)], budget'.paused)
                   ELSE Extracted([v EXCEPT !.todo = Tail(@), !.facts = @ \cup got], budget'.paused)
  BY Zenon
<1>7. Moves(r, w)
  BY Zenon, <1>5, <1>6 DEF Moves, extract
<1>8. budget'.paused \in BOOLEAN
  BY Zenon, <1>1, <1>5 DEF record, TablesTyped, Over
<1>9. /\ w \in SoundRuns /\ w.pc \in Inside \ {"remember"} /\ w.sess = v.sess
      /\ budget'.paused => ~MaySpend(w)
  <2>1. CASE Throws(c)
    <3>1. PICK x : x = [v EXCEPT !.pc = "finish", !.out = "failed"]
      BY Zenon
    <3>2. x \in RunStates /\ x.pc = "finish" /\ x.sess = v.sess /\ x.out = "failed"
      BY Zenon, <3>1 DEF RunStates, Inside, Outcomes
    <3>3. x \in SoundRuns
      BY Zenon, <1>2, <3>2 DEF SoundRuns
    <3> QED
      BY Zenon, <1>6, <2>1, <3>1, <3>2, <3>3 DEF Inside, MaySpend
  <2>2. CASE ~Throws(c) /\ split
    <3>1. Halves(S) \in Seq(SUBSET Messages)
      BY <1>4 DEF Halves
    <3>2. PICK todo : todo = Halves(S) \o Tail(v.todo)
      BY Zenon
    <3>3. todo \in Seq(SUBSET Messages)
      BY <1>4, <3>1, <3>2
    <3>4. PICK x : x = [v EXCEPT !.todo = todo]
      BY Zenon
    <3>5. x \in RunStates /\ x.pc = "extract" /\ x.sess = v.sess /\ x.out = v.out
      BY Zenon, <1>1, <1>2, <3>3, <3>4 DEF RunStates
    <3>6. w = Extracted(x, budget'.paused)
      BY Zenon, <1>6, <2>2, <3>2, <3>4
    <3> QED
      BY Zenon, <1>2, <1>8, <3>5, <3>6, ExtractedSound
  <2>3. CASE ~Throws(c) /\ ~split
    <3>1. PICK todo, facts : todo = Tail(v.todo) /\ facts = v.facts \cup got
      BY Zenon
    <3>2. todo \in Seq(SUBSET Messages) /\ facts \subseteq Messages
      BY Zenon, <1>4, <3>1 DEF RunStates
    <3>3. PICK x : x = [v EXCEPT !.todo = todo, !.facts = facts]
      BY Zenon
    <3>4. x \in RunStates /\ x.pc = "extract" /\ x.sess = v.sess /\ x.out = v.out
      BY Zenon, <1>1, <1>2, <3>2, <3>3 DEF RunStates
    <3>5. x = [v EXCEPT !.todo = Tail(@), !.facts = @ \cup got]
      BY Zenon, <3>1, <3>3
    <3>6. w = Extracted(x, budget'.paused)
      BY Zenon, <1>6, <2>3, <3>5
    <3> QED
      BY <1>2, <1>8, <3>4, <3>6, ExtractedSound
  <2> QED
    BY Zenon, <2>1, <2>2, <2>3
<1>10. Stays(r, w) /\ w.pc # "remember" /\ MaySpend(run[r])
  BY Zenon, <1>1, <1>2, <1>9 DEF Stays, Inside, MaySpend
<1>11. UNCHANGED <<lock, wrote, missed, slice, rows, used, conflict>>
  BY Zenon DEF extract, tables
<1> QED
  BY Zenon, <1>1, <1>5, <1>7, <1>9, <1>10, <1>11, CallStep DEF TablesTyped

(* A run that fails goes to its end.                                       *)
LEMMA FailedSound ==
  ASSUME NEW v \in SoundRuns, v.pc \in Inside
  PROVE  LET w == [v EXCEPT !.pc = "finish", !.out = "failed"]
         IN w \in SoundRuns /\ w.pc = "finish" /\ w.sess = v.sess
<1>1. PICK w : w = [v EXCEPT !.pc = "finish", !.out = "failed"]
  BY Zenon
<1>2. v \in RunStates /\ v.sess \in Sessions
  BY Zenon DEF SoundRuns, Inside
<1>3. w \in RunStates /\ w.pc = "finish" /\ w.sess = v.sess /\ w.out = "failed"
  BY Zenon, <1>1, <1>2 DEF RunStates, Inside, Outcomes
<1>4. w \in SoundRuns
  BY Zenon, <1>2, <1>3 DEF SoundRuns
<1> QED
  BY Zenon, <1>1, <1>3, <1>4

(* The provider throws in an extraction or in an episode.                  *)
LEMMA FailsKeeps ==
  ASSUME ConsolidatorInv, NEW r \in Runners, extractFails(r) \/ formEpisodeFails(r)
  PROVE  ConsolidatorInv'
<1>1. TablesTyped /\ run \in [Runners -> SoundRuns] /\ run[r] \in SoundRuns /\ run[r].pc \in Inside
  BY Zenon DEF ConsolidatorInv, TablesTyped, extractFails, formEpisodeFails, Inside
<1>2. PICK w : w = [run[r] EXCEPT !.pc = "finish", !.out = "failed"]
  BY Zenon
<1>3. w \in SoundRuns /\ w.pc = "finish" /\ w.sess = run[r].sess
  BY Zenon, <1>1, <1>2, FailedSound
<1>4. Moves(r, w)
  BY Zenon, <1>1, <1>2 DEF Moves, extractFails, formEpisodeFails
<1>5. Stays(r, w) /\ w.pc # "remember" /\ ~MaySpend(w)
  BY Zenon, <1>1, <1>3 DEF Stays, MaySpend
<1>6. UNCHANGED <<lock, wrote, missed, budget, slice, rows, conflict>>
  BY Zenon DEF extractFails, formEpisodeFails, tables, history
<1>7. cf.maxFaults \in Nat
  BY Zenon, <1>1, ScenarioAssumption DEF TablesTyped
<1>8. used' = used \/ Use("faults", cf.maxFaults)
  BY Zenon DEF extractFails, formEpisodeFails
<1>9. used' = used \/ \E b \in {"faults", "crashes", "manual"}, max \in Nat : Use(b, max)
  BY Zenon, <1>7, <1>8
<1> QED
  BY Zenon, <1>1, <1>3, <1>4, <1>5, <1>6, <1>9, QuietStep DEF TablesTyped


-----------------------------------------------------------------------------
(* The lookup: a fact goes on to remember() only if it is not stored.      *)
LEMMA LookupKeeps ==
  ASSUME ConsolidatorInv, NEW r \in Runners, findExactTextDuplicate(r)
  PROVE  ConsolidatorInv'
<1>1. TablesTyped /\ CountsTyped /\ run[r] \in SoundRuns /\ run[r].pc = "check"
  BY Zenon DEF ConsolidatorInv, TablesTyped, findExactTextDuplicate
<1>2. run[r] \in RunStates /\ run[r].sess \in Sessions /\ run[r].out # "none"
  BY Zenon, <1>1 DEF SoundRuns, Inside
<1>3. UNCHANGED <<cf, lock, wrote, missed, budget, slice, rows, conflict, used>>
  BY Zenon DEF findExactTextDuplicate, tables, history
<1>4. CASE wrote[run[r].sess][First(run[r].facts)] > 0
  <2>1. PICK w : w = Written(run[r])
    BY Zenon
  <2>2. /\ w \in SoundRuns /\ w.pc \in Inside \ {"remember"} /\ w.sess = run[r].sess
        /\ budget.paused => ~MaySpend(w)
    BY Zenon, <1>1, <2>1, WrittenSound
  <2>3. Moves(r, w)
    BY Zenon, <1>3, <1>4, <2>1 DEF Moves, findExactTextDuplicate
  <2>4. Stays(r, w) /\ w.pc # "remember"
    BY Zenon, <1>1, <2>2 DEF Stays, Inside
  <2> QED
    BY Zenon, <1>1, <1>3, <2>2, <2>3, <2>4, QuietStep DEF TablesTyped
<1>5. CASE ~(wrote[run[r].sess][First(run[r].facts)] > 0)
  <2>1. PICK w : w = [run[r] EXCEPT !.pc = "remember"]
    BY Zenon
  <2>2. /\ w \in RunStates /\ w.pc = "remember" /\ w.sess = run[r].sess /\ w.out = run[r].out
        /\ w.facts = run[r].facts
    BY Zenon, <1>2, <2>1 DEF RunStates, Inside
  <2>3. w \in SoundRuns
    BY Zenon, <1>2, <2>2 DEF SoundRuns
  <2>4. Moves(r, w)
    BY Zenon, <1>3, <1>5, <2>1 DEF Moves, findExactTextDuplicate
  <2>5. Stays(r, w) /\ ~MaySpend(w)
    BY Zenon, <1>1, <2>2 DEF Stays, Inside, MaySpend
  <2>6. TablesTyped' /\ CountsTyped'
    BY Zenon, <1>1, <1>3, <2>3, <2>4, TablesKept DEF TablesTyped, CountsTyped
  <2>7. OneRun' /\ LocksSound'
    BY Zenon, <1>3, <2>3, <2>4, <2>5, LocksKept
  <2>8. FactsOnce'
    BY Zenon, <1>3 DEF ConsolidatorInv, FactsOnce
  <2>9. \A k \in Messages : First(run[r].facts) = k => wrote[run[r].sess][k] = 0
    <3>1. wrote \in [Sessions -> [Messages -> 0..2]]
      BY Zenon, <1>1 DEF CountsTyped
    <3>2. PICK u : u = wrote[run[r].sess]
      BY Zenon
    <3>3. u \in [Messages -> 0..2]
      BY Zenon, <1>2, <3>1, <3>2
    <3>4. \A k \in Messages : u[k] \in 0..2
      BY Zenon, <3>3
    <3>5. \A k \in Messages : ~(u[k] > 0) => u[k] = 0
      BY SMT, <3>4
    <3> QED
      BY Zenon, <1>5, <3>2, <3>5
  <2>10. LookupSound'
    <3> SUFFICES ASSUME used.takeovers = 0, NEW q \in Runners, NEW k \in Messages,
                        run'[q].pc = "remember", First(run'[q].facts) = k
                 PROVE  k \in missed[run'[q].sess] \/ wrote[run'[q].sess][k] = 0
      BY Zenon, <1>3 DEF LookupSound
    <3>1. CASE q = r
      <4>1. run'[q] = w
        BY Zenon, <1>1, <2>4, <3>1 DEF TablesTyped, Moves
      <4> QED
        BY Zenon, <2>2, <2>9, <4>1
    <3>2. CASE q # r
      <4>1. run'[q] = run[q]
        BY Zenon, <1>1, <2>4, <3>2 DEF TablesTyped, Moves
      <4> QED
        BY Zenon, <4>1 DEF ConsolidatorInv, LookupSound
    <3> QED
      BY Zenon, <3>1, <3>2
  <2>11. BudgetSound'
    BY Zenon, <1>3, <2>3, <2>4, <2>5, BudgetKept
  <2> QED
    BY Zenon, <2>6, <2>7, <2>8, <2>10, <2>11 DEF ConsolidatorInv
<1> QED
  BY Zenon, <1>4, <1>5

(* The lookup of a fact that is stored fails: the fact is one of those     *)
(* that may be stored again.                                               *)
LEMMA MissKeeps ==
  ASSUME ConsolidatorInv, NEW r \in Runners, lookupMisses(r)
  PROVE  ConsolidatorInv'
<1>1. TablesTyped /\ CountsTyped /\ run[r] \in SoundRuns /\ run[r].pc = "check"
  BY Zenon DEF ConsolidatorInv, TablesTyped, lookupMisses
<1>2. run[r] \in RunStates /\ run[r].sess \in Sessions /\ run[r].out # "none"
  BY Zenon, <1>1 DEF SoundRuns, Inside
<1>3. UNCHANGED <<cf, lock, wrote, budget, slice, rows, conflict>> /\ Use("faults", cf.maxFaults)
  BY Zenon DEF lookupMisses, tables
<1>4. /\ used' \in [faults : Nat, takeovers : Nat, crashes : Nat, manual : Nat]
      /\ used'.takeovers = used.takeovers
  BY Zenon, <1>1, <1>3, UseKeeps
<1>5. PICK s, f : s \in Sessions /\ s = run[r].sess /\ f = First(run[r].facts)
  BY Zenon, <1>2
<1>6. missed' = [missed EXCEPT ![s] = @ \cup {f}]
  BY Zenon, <1>5 DEF lookupMisses
<1>7. DOMAIN missed' = Sessions /\ f \in missed'[s] /\ \A t \in Sessions : missed[t] \subseteq missed'[t]
  BY Zenon, <1>1, <1>5, <1>6 DEF CountsTyped
<1>8. PICK w : w = [run[r] EXCEPT !.pc = "remember"]
  BY Zenon
<1>9. /\ w \in RunStates /\ w.pc = "remember" /\ w.sess = s /\ w.out = run[r].out
      /\ w.facts = run[r].facts
  BY Zenon, <1>2, <1>5, <1>8 DEF RunStates, Inside
<1>10. w \in SoundRuns
  BY Zenon, <1>2, <1>5, <1>9 DEF SoundRuns
<1>11. Moves(r, w)
  BY Zenon, <1>1, <1>3, <1>8 DEF Moves, lookupMisses, TablesTyped
<1>12. Stays(r, w) /\ ~MaySpend(w)
  BY Zenon, <1>1, <1>5, <1>9 DEF Stays, Inside, MaySpend
<1>13. TablesTyped' /\ CountsTyped'
  BY Zenon, <1>1, <1>3, <1>4, <1>7, <1>10, <1>11, TablesKept DEF TablesTyped, CountsTyped
<1>14. OneRun' /\ LocksSound'
  BY Zenon, <1>3, <1>4, <1>10, <1>11, <1>12, LocksKept
<1>15. FactsOnce'
  BY Zenon, <1>3, <1>4, <1>7 DEF ConsolidatorInv, FactsOnce
<1>16. LookupSound'
  <2> SUFFICES ASSUME used.takeovers = 0, NEW q \in Runners, NEW k \in Messages,
                      run'[q].pc = "remember", First(run'[q].facts) = k
               PROVE  k \in missed'[run'[q].sess] \/ wrote[run'[q].sess][k] = 0
    BY Zenon, <1>3, <1>4 DEF LookupSound
  <2>1. CASE q = r
    <3>1. run'[q] = w
      BY Zenon, <1>1, <1>11, <2>1 DEF TablesTyped, Moves
    <3> QED
      BY Zenon, <1>5, <1>7, <1>9, <3>1
  <2>2. CASE q # r
    <3>1. run'[q] = run[q] /\ run[q] \in SoundRuns
      BY Zenon, <1>1, <1>11, <2>2 DEF TablesTyped, Moves
    <3>2. run[q].sess \in Sessions
      BY Zenon, <3>1 DEF SoundRuns
    <3> QED
      BY Zenon, <1>7, <3>1, <3>2 DEF ConsolidatorInv, LookupSound
  <2> QED
    BY Zenon, <2>1, <2>2
<1>17. BudgetSound'
  BY Zenon, <1>3, <1>10, <1>11, <1>12, BudgetKept
<1> QED
  BY Zenon, <1>13, <1>14, <1>15, <1>16, <1>17 DEF ConsolidatorInv

(* remember() stores a fact that was not found, in the only run of its     *)
(* session.                                                                *)
LEMMA RememberKeeps ==
  ASSUME ConsolidatorInv, NEW r \in Runners, remember(r)
  PROVE  ConsolidatorInv'
<1>1. TablesTyped /\ CountsTyped /\ run[r] \in SoundRuns /\ run[r].pc = "remember"
  BY Zenon DEF ConsolidatorInv, TablesTyped, remember
<1>2. PICK s \in Sessions : s = run[r].sess
  BY Zenon, <1>1 DEF SoundRuns
<1>3. PICK f : f = First(run[r].facts)
  BY Zenon
<1>4. PICK w : w = Written(run[r])
  OBVIOUS
<1>5. /\ w \in SoundRuns /\ w.pc \in Inside \ {"remember"} /\ w.sess = run[r].sess
      /\ budget.paused => ~MaySpend(w)
  BY Zenon, <1>1, <1>4, WrittenSound
<1>6. UNCHANGED <<cf, lock, budget, slice, rows, conflict, used, missed>>
  BY Zenon DEF remember, tables
<1>7. Moves(r, w)
  BY Zenon, <1>4, <1>6 DEF Moves, remember
<1>8. Stays(r, w)
  BY Zenon, <1>1, <1>5 DEF Stays, Inside
<1>9. wrote' = [wrote EXCEPT ![s][f] = IF @ < 2 THEN @ + 1 ELSE @]
  BY Zenon, <1>2, <1>3 DEF remember
<1>10. wrote' \in [Sessions -> [Messages -> 0..2]]
  <2>1. wrote[s] \in [Messages -> 0..2]
    BY Zenon, <1>1 DEF CountsTyped
  <2>2. PICK g : g = [wrote[s] EXCEPT ![f] = IF @ < 2 THEN @ + 1 ELSE @]
    BY Zenon
  <2>3. g \in [Messages -> 0..2]
    <3>1. g = [k \in Messages |-> IF k = f THEN IF wrote[s][k] < 2 THEN wrote[s][k] + 1 ELSE wrote[s][k]
                                ELSE wrote[s][k]]
      BY Zenon, <2>1, <2>2
    <3>2. \A k \in Messages : wrote[s][k] \in 0..2
      BY Zenon, <2>1
    <3>3. \A k \in Messages : (IF k = f THEN IF wrote[s][k] < 2 THEN wrote[s][k] + 1 ELSE wrote[s][k]
                                ELSE wrote[s][k]) \in 0..2
      BY <3>2
    <3> QED
      BY Zenon, <3>1, <3>3
  <2>4. wrote' = [wrote EXCEPT ![s] = g]
    BY Zenon, <1>1, <1>9, <2>2 DEF CountsTyped
  <2> QED
    BY Zenon, <1>1, <2>3, <2>4 DEF CountsTyped
<1>11. \A t \in Sessions, k \in Messages : ~(t = s /\ k = f) => wrote'[t][k] = wrote[t][k]
  BY Zenon, <1>1, <1>9 DEF CountsTyped
<1>12. \A k \in Messages : k = f => wrote'[s][k] <= wrote[s][k] + 1
  BY <1>1, <1>9 DEF CountsTyped
<1>13. TablesTyped' /\ CountsTyped'
  BY Zenon, <1>1, <1>5, <1>6, <1>7, <1>10, TablesKept DEF TablesTyped, CountsTyped
<1>14. OneRun' /\ LocksSound'
  BY Zenon, <1>5, <1>6, <1>7, <1>8, LocksKept
<1>15. FactsOnce'
  <2> SUFFICES ASSUME used.takeovers = 0, NEW t \in Sessions, NEW k \in Messages \ missed[t]
               PROVE  wrote'[t][k] <= 1
    BY Zenon, <1>6 DEF FactsOnce
  <2>1. CASE t = s /\ k = f
    <3>1. wrote[s][k] = 0
      BY Zenon, <1>1, <1>2, <1>3, <2>1 DEF ConsolidatorInv, LookupSound
    <3> QED
      BY <1>10, <1>12, <2>1, <3>1
  <2>2. CASE ~(t = s /\ k = f)
    BY Zenon, <1>11, <2>2 DEF ConsolidatorInv, FactsOnce
  <2> QED
    BY Zenon, <2>1, <2>2
<1>16. LookupSound'
  <2> SUFFICES ASSUME used.takeovers = 0, NEW q \in Runners, NEW k \in Messages,
                      run'[q].pc = "remember", First(run'[q].facts) = k
               PROVE  k \in missed[run'[q].sess] \/ wrote'[run'[q].sess][k] = 0
    BY Zenon, <1>6 DEF LookupSound
  <2>1. q # r
    BY Zenon, <1>1, <1>5, <1>7 DEF TablesTyped, Moves
  <2>2. run'[q] = run[q]
    BY Zenon, <1>1, <1>7, <2>1 DEF TablesTyped, Moves
  <2>3. k \in missed[run[q].sess] \/ wrote[run[q].sess][k] = 0
    BY Zenon, <2>2 DEF ConsolidatorInv, LookupSound
  <2>4. run[q].sess \in Sessions
    BY Zenon, <1>1, <2>2 DEF TablesTyped, SoundRuns
  <2>5. run[q].sess # s
    BY Zenon, <1>1, <1>2, <2>1, <2>2 DEF ConsolidatorInv, OneRun, InRun
  <2> QED
    BY Zenon, <1>11, <2>2, <2>3, <2>4, <2>5
<1>17. BudgetSound'
  BY Zenon, <1>5, <1>6, <1>7, BudgetKept
<1> QED
  BY Zenon, <1>13, <1>14, <1>15, <1>16, <1>17 DEF ConsolidatorInv

(* The episode call.                                                       *)
LEMMA EpisodeKeeps ==
  ASSUME ConsolidatorInv, NEW r \in Runners, formEpisode(r)
  PROVE  ConsolidatorInv'
<1>1. TablesTyped /\ run \in [Runners -> SoundRuns] /\ run[r] \in SoundRuns /\ run[r].pc = "episode"
  BY Zenon DEF ConsolidatorInv, TablesTyped, formEpisode
<1>2. run[r] \in RunStates /\ run[r].sess \in Sessions /\ run[r].out # "none"
  BY Zenon, <1>1 DEF SoundRuns, Inside
<1>3. PICK pc, out : pc = (IF Throws(1) THEN "finish" ELSE "advance")
                     /\ out = IF Throws(1) THEN "failed" ELSE run[r].out
  BY Zenon
<1>4. pc \in {"finish", "advance"} /\ out \in Outcomes
  BY Zenon, <1>2, <1>3 DEF RunStates, Outcomes
<1>5. PICK w : w = [run[r] EXCEPT !.pc = pc, !.out = out]
  BY Zenon
<1>6. w \in RunStates /\ w.pc = pc /\ w.sess = run[r].sess /\ w.out = out
  BY Zenon, <1>2, <1>4, <1>5 DEF RunStates, Inside
<1>7. w \in SoundRuns
  BY Zenon, <1>2, <1>4, <1>6 DEF SoundRuns, Outcomes
<1>8. Moves(r, w)
  BY Zenon, <1>1, <1>2, <1>3, <1>5 DEF Moves, formEpisode, RunStates
<1>9. Stays(r, w) /\ w.pc # "remember" /\ ~MaySpend(w) /\ MaySpend(run[r])
  BY Zenon, <1>1, <1>4, <1>6 DEF Stays, Inside, MaySpend
<1>10. UNCHANGED <<lock, wrote, missed, slice, rows, used, conflict>> /\ record(1)
  BY Zenon DEF formEpisode, tables, history
<1> QED
  BY Zenon, <1>1, <1>7, <1>8, <1>9, <1>10, CallStep DEF TablesTyped

(* The cursor moves.                                                       *)
LEMMA AdvanceKeeps ==
  ASSUME ConsolidatorInv, NEW r \in Runners, advance(r)
  PROVE  ConsolidatorInv'
<1>1. TablesTyped /\ run \in [Runners -> SoundRuns] /\ run[r] \in SoundRuns /\ run[r].pc = "advance"
  BY Zenon DEF ConsolidatorInv, TablesTyped, advance
<1>2. run[r] \in RunStates /\ run[r].sess \in Sessions /\ run[r].out # "none"
  BY Zenon, <1>1 DEF SoundRuns, Inside
<1>3. PICK w : w = [run[r] EXCEPT !.pc = "finish"]
  BY Zenon
<1>4. w \in RunStates /\ w.pc = "finish" /\ w.sess = run[r].sess /\ w.out = run[r].out
  BY Zenon, <1>2, <1>3 DEF RunStates, Inside
<1>5. w \in SoundRuns
  BY Zenon, <1>2, <1>4 DEF SoundRuns
<1>6. Moves(r, w)
  BY Zenon, <1>1, <1>3 DEF Moves, advance
<1>7. Stays(r, w) /\ w.pc # "remember" /\ ~MaySpend(w)
  BY Zenon, <1>1, <1>4 DEF Stays, Inside, MaySpend
<1>8. UNCHANGED <<lock, wrote, missed, budget, slice, rows, conflict, used>>
  BY Zenon DEF advance, history
<1> QED
  BY Zenon, <1>1, <1>5, <1>6, <1>7, <1>8, QuietStep DEF TablesTyped


-----------------------------------------------------------------------------
(* The judge of a conflict.                                                *)
LEMMA JudgeKeeps ==
  ASSUME ConsolidatorInv, NEW r \in Runners, judge(r)
  PROVE  ConsolidatorInv'
<1>1. TablesTyped /\ run \in [Runners -> SoundRuns] /\ run[r] \in SoundRuns /\ run[r].pc = "judge"
  BY Zenon DEF ConsolidatorInv, TablesTyped, judge
<1>2. run[r] \in RunStates /\ run[r].sess \in Sessions /\ run[r].out # "none"
  BY Zenon, <1>1 DEF SoundRuns, Inside
<1>3. PICK verdict \in {"settled", "unparseable", "error"} :
        LET c == IF verdict = "error" THEN 0 ELSE 1
            s == run[r].sess
        IN /\ record(c)
           /\ conflict' = [conflict EXCEPT ![s] =
                IF Throws(c) \/ @ = "closed" THEN @
                ELSE IF verdict = "settled" THEN "closed" ELSE Failed(run[r].seen)]
           /\ run' = [run EXCEPT ![r].pc = "finish", ![r].out = IF Throws(c) THEN "failed" ELSE @]
  BY Zenon DEF judge
<1>4. PICK c \in {0, 1} : c = IF verdict = "error" THEN 0 ELSE 1
  BY Zenon
<1>5. PICK out : out = IF Throws(c) THEN "failed" ELSE run[r].out
  BY Zenon
<1>6. out \in Outcomes
  BY Zenon, <1>2, <1>5 DEF RunStates, Outcomes
<1>7. PICK w : w = [run[r] EXCEPT !.pc = "finish", !.out = out]
  BY Zenon
<1>8. w \in RunStates /\ w.pc = "finish" /\ w.sess = run[r].sess /\ w.out = out
  BY Zenon, <1>2, <1>6, <1>7 DEF RunStates, Inside
<1>9. w \in SoundRuns
  BY Zenon, <1>2, <1>6, <1>8 DEF SoundRuns, Outcomes
<1>10. record(c) /\ run' = [run EXCEPT ![r].pc = "finish", ![r].out = IF Throws(c) THEN "failed" ELSE @]
  BY Zenon, <1>3, <1>4
<1>11. Moves(r, w)
  BY Zenon, <1>1, <1>2, <1>5, <1>7, <1>10 DEF Moves, judge, RunStates
<1>12. Stays(r, w) /\ w.pc # "remember" /\ ~MaySpend(w) /\ MaySpend(run[r])
  BY Zenon, <1>1, <1>8 DEF Stays, Inside, MaySpend
<1>13. UNCHANGED <<lock, wrote, missed, slice, rows, used>>
  BY Zenon DEF judge, history
<1>14. conflict' \in [Sessions -> Conflicts]
  BY ZenonT(30), <1>1, <1>3 DEF TablesTyped, Conflicts, Failed
<1> QED
  BY Zenon, <1>4, <1>9, <1>10, <1>11, <1>12, <1>13, <1>14, CallStep

(* A run that ends gives back no lock but its own.                         *)
LEMMA LocksReleased ==
  ASSUME ConsolidatorInv, NEW r \in Runners, NEW w \in SoundRuns, Moves(r, w), w.pc \notin Inside,
         NEW s \in Sessions, NEW l, l.stale => l.by = "orphan",
         lock' = lock \/ (lock[s].by = r /\ lock' = [lock EXCEPT ![s] = l]),
         used'.takeovers = used.takeovers
  PROVE  OneRun' /\ LocksSound'
<1>1. TablesTyped /\ CountsTyped
  BY Zenon DEF ConsolidatorInv
<1>2. OneRun'
  <2> SUFFICES ASSUME used.takeovers = 0, NEW q \in Runners, InRun(q)'
               PROVE  lock'[run'[q].sess].by = q
    BY Zenon DEF OneRun
  <2>1. q # r
    BY Zenon, <1>1 DEF TablesTyped, Moves, InRun, Inside
  <2>2. run'[q] = run[q]
    BY Zenon, <1>1, <2>1 DEF TablesTyped, Moves
  <2>3. InRun(q) /\ lock[run[q].sess].by = q
    BY Zenon, <2>2 DEF InRun, ConsolidatorInv, OneRun
  <2>4. run[q].sess \in Sessions
    BY Zenon, <1>1, <2>3 DEF TablesTyped, SoundRuns, InRun
  <2>5. lock'[run[q].sess] = lock[run[q].sess]
    BY Zenon, <1>1, <2>1, <2>3, <2>4 DEF CountsTyped
  <2> QED
    BY Zenon, <2>2, <2>3, <2>5
<1>3. LocksSound'
  BY Zenon, <1>1 DEF ConsolidatorInv, CountsTyped, LocksSound
<1> QED
  BY Zenon, <1>2, <1>3

(* A failed batch is put on a row that is free.                            *)
LEMMA EnqueueTyped ==
  ASSUME TablesTyped, NEW v \in RunStates, v.sess \in Sessions, enqueueFailedBatch(v)
  PROVE  rows' \in [RowIds -> RowStates]
<1>1. CASE v.out = "failed" /\ ~Replaying(v) /\ \E i \in RowIds : Unclaimed(i)
  <2>1. PICK i \in RowIds : i = CHOOSE j \in RowIds : Unclaimed(j)
    BY Zenon, <1>1
  <2>2. PICK x : x = Enqueued(v.sess, v.phase)
    BY Zenon
  <2>3. slice[v.sess] \subseteq Messages /\ v.phase \in Phases
    BY Zenon DEF TablesTyped, RunStates
  <2>4. x \in RowStates
    BY Zenon, <2>2, <2>3 DEF Enqueued, NoRow, RowStates, Somewhere
  <2>5. rows' = [rows EXCEPT ![i] = x]
    BY Zenon, <1>1, <2>1, <2>2 DEF enqueueFailedBatch
  <2> QED
    BY Zenon, <2>4, <2>5 DEF TablesTyped
<1>2. CASE ~(v.out = "failed" /\ ~Replaying(v) /\ \E i \in RowIds : Unclaimed(i))
  BY Zenon, <1>2 DEF enqueueFailedBatch, TablesTyped
<1> QED
  BY Zenon, <1>1, <1>2

(* The end of a phase.                                                     *)
LEMMA FinishKeeps ==
  ASSUME ConsolidatorInv, NEW r \in Runners, finish(r)
  PROVE  ConsolidatorInv'
<1>1. TablesTyped /\ CountsTyped /\ run[r] \in SoundRuns /\ run[r].pc = "finish"
  BY Zenon DEF ConsolidatorInv, TablesTyped, finish
<1>2. run[r] \in RunStates /\ run[r].sess \in Sessions /\ run[r].out \in Outcomes
  BY Zenon, <1>1 DEF SoundRuns, RunStates, Inside
<1>3. PICK s \in Sessions : s = run[r].sess
  BY Zenon, <1>2
<1>4. PICK w : w = After(run[r], run[r].out)
  BY Zenon
<1>5. w \in SoundRuns /\ w.pc \in Outside \ {"skip"} /\ (budget.paused => ~MaySpend(w))
  BY Zenon, <1>1, <1>2, <1>4, AfterSound
<1>6. w.pc \notin Inside /\ w.pc # "remember"
  BY <1>5 DEF Inside, Outside
<1>7. Moves(r, w)
  BY Zenon, <1>4 DEF Moves, finish
<1>8. rows' \in [RowIds -> RowStates]
  BY Zenon, <1>1, <1>2, EnqueueTyped DEF finish
<1>9. slice' \in [Sessions -> SUBSET Messages]
  BY Zenon, <1>1, <1>3 DEF finish, TablesTyped
<1>10. UNCHANGED <<wrote, missed, conflict, budget>>
  BY Zenon DEF finish, history
<1>11. /\ used' \in [faults : Nat, takeovers : Nat, crashes : Nat, manual : Nat]
       /\ used'.takeovers = used.takeovers
  <2>1. used' = used \/ Use("faults", cf.maxFaults)
    BY Zenon DEF finish
  <2>2. CASE used' = used
    BY Zenon, <1>1, <2>2 DEF CountsTyped
  <2>3. CASE Use("faults", cf.maxFaults)
    BY Zenon, <1>1, <2>3, UseKeeps
  <2> QED
    BY Zenon, <2>1, <2>2, <2>3
<1>12. TablesTyped'
  BY Zenon, <1>1, <1>5, <1>7, <1>8, <1>9, <1>10, TablesKept DEF TablesTyped
<1>13. \E l \in [by : {"nobody", "orphan"}, stale : BOOLEAN] :
         /\ l.stale => l.by = "orphan"
         /\ lock' = lock \/ (lock[s].by = r /\ lock' = [lock EXCEPT ![s] = l])
  <2>1. PICK o : o = [lock[s] EXCEPT !.by = "orphan"]
    BY Zenon
  <2>2. o \in [by : {"nobody", "orphan"}, stale : BOOLEAN] /\ o.by = "orphan"
    BY Zenon, <1>1, <2>1 DEF CountsTyped
  <2>3. Free \in [by : {"nobody", "orphan"}, stale : BOOLEAN] /\ ~Free.stale
    BY Zenon DEF Free
  <2>4. CASE releaseLock(s, r)
    BY Zenon, <2>3, <2>4 DEF releaseLock
  <2>5. CASE lock' = IF lock[s].by = r THEN [lock EXCEPT ![s].by = "orphan"] ELSE lock
    <3>1. [lock EXCEPT ![s].by = "orphan"] = [lock EXCEPT ![s] = o]
      BY Zenon, <1>1, <2>1 DEF CountsTyped
    <3> QED
      BY Zenon, <2>2, <2>5, <3>1
  <2> QED
    BY Zenon, <1>3, <2>4, <2>5 DEF finish
<1>14. PICK l \in [by : {"nobody", "orphan"}, stale : BOOLEAN] :
         /\ l.stale => l.by = "orphan"
         /\ lock' = lock \/ (lock[s].by = r /\ lock' = [lock EXCEPT ![s] = l])
  BY Zenon, <1>13
<1>15. CountsTyped'
  <2>1. l \in [by : Runners \cup {"nobody", "orphan"}, stale : BOOLEAN]
    BY Zenon, <1>14
  <2> QED
    BY <1>1, <1>10, <1>11, <1>14, <2>1 DEF CountsTyped
<1>16. OneRun' /\ LocksSound'
  BY <1>5, <1>6, <1>7, <1>11, <1>14, LocksReleased
<1>17. FactsOnce' /\ LookupSound'
  BY Zenon, <1>5, <1>6, <1>7, <1>10, <1>11, LookupKept
<1>18. BudgetSound'
  BY Zenon, <1>5, <1>7, <1>10, BudgetKept
<1> QED
  BY Zenon, <1>12, <1>15, <1>16, <1>17, <1>18 DEF ConsolidatorInv


-----------------------------------------------------------------------------
(* A row after its replay.                                                 *)
LEMMA SettledRows ==
  ASSUME TablesTyped, NEW i \in RowIds, NEW n \in Nat
  PROVE  /\ Rescheduled(i, n) \in [RowIds -> RowStates] /\ Exhausted(i, n) \in [RowIds -> RowStates]
         /\ [rows EXCEPT ![i] = NoRow] \in [RowIds -> RowStates]
<1>1. rows \in [RowIds -> RowStates] /\ rows[i] \in RowStates
  BY Zenon DEF TablesTyped
<1>2. PICK x, y : x = [rows[i] EXCEPT !.st = "waiting", !.rc = n] /\ y = [rows[i] EXCEPT !.st = "exhausted", !.rc = n]
  BY Zenon
<1>3. x \in RowStates /\ y \in RowStates
  BY Zenon, <1>1, <1>2 DEF RowStates
<1>4. NoRow \in RowStates
  BY Zenon DEF NoRow, RowStates, Somewhere, Phases
<1>5. [rows EXCEPT ![i].st = "waiting", ![i].rc = n] = [rows EXCEPT ![i] = x]
  BY Zenon, <1>1, <1>2
<1>6. [rows EXCEPT ![i].st = "exhausted", ![i].rc = n] = [rows EXCEPT ![i] = y]
  BY Zenon, <1>1, <1>2
<1> QED
  BY Zenon, <1>1, <1>3, <1>4, <1>5, <1>6 DEF Rescheduled, Exhausted

(* drainDlq settles a row and takes the next.                              *)
LEMMA SettleKeeps ==
  ASSUME ConsolidatorInv, NEW r \in Runners, settle(r)
  PROVE  ConsolidatorInv'
<1>1. TablesTyped /\ run[r] \in SoundRuns /\ run[r].pc = "settle"
  BY Zenon DEF ConsolidatorInv, TablesTyped, settle
<1>2. PICK v \in RunStates : v = run[r] /\ v.sess \in Sessions /\ v.out \in Outcomes /\ v.queue # <<>>
  BY Zenon, <1>1 DEF SoundRuns, RunStates
<1>3. PICK row : row = Head(v.queue)
  BY Zenon
<1>4. v.queue \in Seq(Claims)
  BY Zenon DEF RunStates
<1>5. row \in Claims /\ Tail(v.queue) \in Seq(Claims)
  BY <1>2, <1>3, <1>4
<1>6. row.id \in RowIds /\ row.rc \in Nat
  BY Zenon, <1>5 DEF Claims
<1>7. PICK x : x = Drain(v, Tail(v.queue))
  BY Zenon
<1>8. x \in SoundRuns /\ x.pc \in Outside \ {"skip"} /\ (budget.paused => ~MaySpend(x))
  BY Zenon, <1>2, <1>5, <1>7, DrainSound
<1>9. PICK y : y = [v EXCEPT !.pc = "skip"]
  BY Zenon
<1>10. y \in RunStates /\ y.pc = "skip" /\ y.sess = v.sess /\ y.queue = v.queue
  BY Zenon, <1>9 DEF RunStates, Outside
<1>11. y \in SoundRuns /\ y.pc \in Outside /\ ~MaySpend(y)
  BY Zenon, <1>2, <1>10 DEF SoundRuns, Inside, Outside, MaySpend
<1>12. /\ rows' \in [RowIds -> RowStates]
       /\ run' = [run EXCEPT ![r] = x] \/ run' = [run EXCEPT ![r] = y]
  <2>1. CASE v.out = "completed"
    <3>1. rows' = [rows EXCEPT ![row.id] = NoRow] /\ run' = [run EXCEPT ![r] = x]
      BY Zenon, <1>2, <1>3, <1>7, <2>1 DEF settle
    <3> QED
      BY Zenon, <1>1, <1>6, <3>1, SettledRows
  <2>2. CASE v.out = "deferred"
    <3>1. rows' = Rescheduled(row.id, row.rc) /\ run' = [run EXCEPT ![r] = x]
      BY Zenon, <1>2, <1>3, <1>7, <2>2 DEF settle
    <3> QED
      BY Zenon, <1>1, <1>6, <3>1, SettledRows
  <2>3. CASE v.out = "failed"
    <3>1. PICK n \in Nat : n = row.rc + 1
      BY <1>6
    <3>2. rows' = Exhausted(row.id, n) \/ rows' = Rescheduled(row.id, n)
      BY Zenon, <1>2, <1>3, <2>3, <3>1 DEF settle
    <3>3. run' = [run EXCEPT ![r] = x] \/ run' = [run EXCEPT ![r] = y]
      BY Zenon, <1>2, <1>3, <1>7, <1>9, <2>3 DEF settle
    <3> QED
      BY <1>1, <1>6, <3>1, <3>2, <3>3, SettledRows
  <2> QED
    BY Zenon, <1>2, <2>1, <2>2, <2>3 DEF Outcomes
<1>13. UNCHANGED <<cf, lock, wrote, missed, budget, slice, conflict, used>>
  BY Zenon DEF settle, history
<1>14. conflict' \in [Sessions -> Conflicts]
  BY Zenon, <1>1, <1>13 DEF TablesTyped
<1>15. CASE run' = [run EXCEPT ![r] = x]
  <2>1. Moves(r, x) /\ Stays(r, x) /\ x.pc # "remember"
    BY Zenon, <1>8, <1>13, <1>15 DEF Moves, Stays, Inside, Outside
  <2> QED
    BY Zenon, <1>8, <1>12, <1>13, <1>14, <2>1, QuietStep
<1>16. CASE run' = [run EXCEPT ![r] = y]
  <2>1. Moves(r, y) /\ Stays(r, y) /\ y.pc # "remember"
    BY Zenon, <1>11, <1>13, <1>16 DEF Moves, Stays, Inside, Outside
  <2> QED
    BY Zenon, <1>11, <1>12, <1>13, <1>14, <2>1, QuietStep
<1> QED
  BY Zenon, <1>12, <1>15, <1>16

(* The cursor passes a poison slice, and the drain goes on.                *)
LEMMA SkipKeeps ==
  ASSUME ConsolidatorInv, NEW r \in Runners, skipPoisonSlice(r)
  PROVE  ConsolidatorInv'
<1>1. TablesTyped /\ run[r] \in SoundRuns /\ run[r].pc = "skip"
  BY Zenon DEF ConsolidatorInv, TablesTyped, skipPoisonSlice
<1>2. run[r] \in RunStates /\ run[r].sess \in Sessions /\ run[r].queue # <<>>
  BY Zenon, <1>1 DEF SoundRuns
<1>3. run[r].queue \in Seq(Claims)
  BY Zenon, <1>2 DEF RunStates
<1>4. Tail(run[r].queue) \in Seq(Claims)
  BY <1>2, <1>3
<1>5. PICK w : w = Drain(run[r], Tail(run[r].queue))
  BY Zenon
<1>6. w \in SoundRuns /\ w.pc \in Outside \ {"skip"} /\ (budget.paused => ~MaySpend(w))
  BY Zenon, <1>2, <1>4, <1>5, DrainSound
<1>7. Moves(r, w)
  BY Zenon, <1>5 DEF Moves, skipPoisonSlice
<1>8. Stays(r, w) /\ w.pc # "remember"
  BY <1>6 DEF Stays, Inside, Outside
<1>9. UNCHANGED <<lock, wrote, missed, budget, slice, rows, conflict, used>>
  BY Zenon DEF skipPoisonSlice, history
<1> QED
  BY Zenon, <1>1, <1>6, <1>7, <1>8, <1>9, QuietStep DEF TablesTyped

(* Messages, due rows and cooldowns touch no call.                         *)
LEMMA TimeKeeps ==
  ASSUME ConsolidatorInv,
         \/ \E s \in Sessions : Send(s) \/ CooldownOver(s)
         \/ \E i \in RowIds : RowDue(i)
         \/ UNCHANGED vars
  PROVE  ConsolidatorInv'
<1>1. TablesTyped /\ CountsTyped
  BY Zenon DEF ConsolidatorInv
<1>2. UNCHANGED <<cf, lock, conflict, slice, budget, run, wrote, missed, used>>
  BY Zenon DEF Send, CooldownOver, RowDue, vars, history
<1>3. rows' \in [RowIds -> RowStates]
  <2>1. CASE rows' = rows
    BY Zenon, <1>1, <2>1 DEF TablesTyped
  <2>2. CASE \E i \in RowIds : RowDue(i)
    <3>1. PICK i \in RowIds : RowDue(i)
      BY Zenon, <2>2
    <3>2. PICK x : x = [rows[i] EXCEPT !.st = "due"]
      BY Zenon
    <3>3. x \in RowStates
      BY <1>1, <3>2 DEF TablesTyped, RowStates
    <3>4. rows' = [rows EXCEPT ![i] = x]
      BY Zenon, <1>1, <3>1, <3>2 DEF RowDue, TablesTyped
    <3> QED
      BY Zenon, <1>1, <3>3, <3>4 DEF TablesTyped
  <2> QED
    BY Zenon, <2>1, <2>2 DEF Send, CooldownOver, vars
<1>4. TablesTyped' /\ CountsTyped'
  BY Zenon, <1>1, <1>2, <1>3 DEF TablesTyped, CountsTyped
<1>5. Spenders' = Spenders
  BY Zenon, <1>2 DEF Spenders
<1> QED
  BY Zenon, <1>2, <1>4, <1>5
     DEF ConsolidatorInv, OneRun, InRun, LocksSound, FactsOnce, LookupSound, BudgetSound


(* A new budget window.                                                    *)
LEMMA WindowKeeps ==
  ASSUME ConsolidatorInv, WindowOver
  PROVE  ConsolidatorInv'
<1>1. budget' = [spent |-> 0, paused |-> FALSE] /\ UNCHANGED <<cf, lock, conflict, rows, slice, run, wrote, missed, used>>
  BY Zenon DEF WindowOver, tables, history
<1>2. TablesTyped' /\ CountsTyped'
  BY Zenon, <1>1 DEF ConsolidatorInv, TablesTyped, CountsTyped
<1>3. cf.maxTokens \in Nat
  BY Zenon, ScenarioAssumption DEF ConsolidatorInv, TablesTyped
<1>4. BudgetSound'
  BY <1>1, <1>3 DEF BudgetSound
<1> QED
  BY Zenon, <1>1, <1>2, <1>4 DEF ConsolidatorInv, OneRun, InRun, LocksSound, FactsOnce, LookupSound

(* A lock outlives its age: nobody holds it, or it is a takeover.          *)
LEMMA StaleKeeps ==
  ASSUME ConsolidatorInv, NEW s \in Sessions, LockStale(s)
  PROVE  ConsolidatorInv'
<1>1. TablesTyped /\ CountsTyped
  BY Zenon DEF ConsolidatorInv
<1>2. UNCHANGED <<cf, rows, conflict, slice, budget, run, wrote, missed>>
  BY Zenon DEF LockStale, history
<1>3. PICK l : l = [lock[s] EXCEPT !.stale = TRUE]
  BY Zenon
<1>4. l \in [by : Runners \cup {"nobody", "orphan"}, stale : BOOLEAN] /\ l.by = lock[s].by
  BY Zenon, <1>1, <1>3 DEF CountsTyped
<1>5. lock' = [lock EXCEPT ![s] = l]
  BY Zenon, <1>1, <1>3 DEF LockStale, CountsTyped
<1>6. Spenders' = Spenders
  BY Zenon, <1>2 DEF Spenders
<1>7. TablesTyped' /\ BudgetSound'
  BY Zenon, <1>1, <1>2, <1>6 DEF ConsolidatorInv, TablesTyped, BudgetSound
<1>8. CASE lock[s].by = "orphan"
  <2>1. used' = used
    BY Zenon, <1>8 DEF LockStale
  <2>2. CountsTyped'
    BY Zenon, <1>1, <1>2, <1>4, <1>5, <2>1 DEF CountsTyped
  <2>3. \A t \in Sessions : lock'[t].by = lock[t].by
    BY Zenon, <1>1, <1>4, <1>5 DEF CountsTyped
  <2>4. OneRun'
    <3> SUFFICES ASSUME used.takeovers = 0, NEW q \in Runners, InRun(q)
                 PROVE  lock'[run[q].sess].by = q
      BY Zenon, <1>2, <2>1 DEF OneRun, InRun
    <3>1. run[q].sess \in Sessions
      BY Zenon, <1>1 DEF TablesTyped, SoundRuns, InRun
    <3> QED
      BY Zenon, <2>3, <3>1 DEF ConsolidatorInv, OneRun
  <2>5. LocksSound'
    BY Zenon, <1>1, <1>4, <1>5, <1>8, <2>1 DEF ConsolidatorInv, CountsTyped, LocksSound
  <2> QED
    BY Zenon, <1>2, <1>7, <2>1, <2>2, <2>4, <2>5 DEF ConsolidatorInv, FactsOnce, LookupSound
<1>9. CASE lock[s].by # "orphan"
  <2>1. used' = [used EXCEPT !["takeovers"] = @ + 1]
    BY Zenon, <1>9 DEF LockStale, Use
  <2>2. /\ used' \in [faults : Nat, takeovers : Nat, crashes : Nat, manual : Nat]
        /\ used'.takeovers # 0
    BY <1>1, <2>1 DEF CountsTyped
  <2>3. CountsTyped'
    BY Zenon, <1>1, <1>2, <1>4, <1>5, <2>2 DEF CountsTyped
  <2>4. OneRun' /\ LocksSound' /\ FactsOnce' /\ LookupSound'
    BY Zenon, <2>2 DEF OneRun, LocksSound, FactsOnce, LookupSound
  <2> QED
    BY Zenon, <1>7, <2>3, <2>4 DEF ConsolidatorInv
<1> QED
  BY Zenon, <1>8, <1>9

(* A crash ends every call and orphans the locks.                          *)
LEMMA CrashKeeps ==
  ASSUME ConsolidatorInv, Crash
  PROVE  ConsolidatorInv'
<1>1. TablesTyped /\ CountsTyped
  BY Zenon DEF ConsolidatorInv
<1>2. UNCHANGED <<cf, rows, conflict, wrote, missed>> /\ Use("crashes", cf.maxCrashes)
  BY Zenon DEF Crash, history
<1>3. /\ used' \in [faults : Nat, takeovers : Nat, crashes : Nat, manual : Nat]
      /\ used'.takeovers = used.takeovers
  BY Zenon, <1>1, <1>2, UseKeeps
<1>4. run' = [r \in Runners |-> Idle] /\ budget' = [spent |-> 0, paused |-> FALSE] /\ slice' = [s \in Sessions |-> {}]
  BY Zenon DEF Crash
<1>5. TablesTyped'
  BY Zenon, <1>1, <1>2, <1>4, IdleSound DEF TablesTyped
<1>6. \A s \in Sessions : [lock[s] EXCEPT !.by = "orphan"] \in [by : Runners \cup {"nobody", "orphan"}, stale : BOOLEAN]
  BY Zenon, <1>1 DEF CountsTyped
<1>7. \A s \in Sessions : [lock[s] EXCEPT !.by = "orphan"].by = "orphan"
  BY Zenon, <1>1 DEF CountsTyped
<1>8. Free \in [by : Runners \cup {"nobody", "orphan"}, stale : BOOLEAN] /\ Free.stale = FALSE
  BY Zenon DEF Free
<1>9. lock' = [s \in Sessions |-> IF lock[s] = Free THEN Free ELSE [lock[s] EXCEPT !.by = "orphan"]]
  BY Zenon DEF Crash
<1>10. CountsTyped'
  BY Zenon, <1>1, <1>2, <1>3, <1>6, <1>8, <1>9 DEF CountsTyped
<1>11. LocksSound'
  BY Zenon, <1>7, <1>8, <1>9 DEF LocksSound
<1>12. \A r \in Runners : run'[r].pc = "idle"
  BY Zenon, <1>4, IdleSound
<1>13. OneRun' /\ LookupSound'
  BY Zenon, <1>12 DEF OneRun, InRun, LookupSound
<1>14. FactsOnce'
  BY Zenon, <1>2, <1>3 DEF ConsolidatorInv, FactsOnce
<1>15. cf.maxTokens \in Nat
  BY Zenon, <1>1, ScenarioAssumption DEF TablesTyped
<1>16. BudgetSound'
  BY <1>2, <1>4, <1>15 DEF BudgetSound
<1> QED
  BY Zenon, <1>5, <1>10, <1>11, <1>13, <1>14, <1>16 DEF ConsolidatorInv

(* Every step of the consolidator keeps the invariant.                     *)
LEMMA ConsolidatorStep == ConsolidatorInv /\ [Next]_vars => ConsolidatorInv'
<1> SUFFICES ASSUME ConsolidatorInv, [Next]_vars
             PROVE  ConsolidatorInv'
  BY Zenon
<1>1. ASSUME NEW r \in Runners, Work(r)
      PROVE  ConsolidatorInv'
  BY <1>1, PlanKeeps, AcquireKeeps, DeferredKeeps, ExtractKeeps, FailsKeeps, LookupKeeps, RememberKeeps,
     EpisodeKeeps, AdvanceKeeps, JudgeKeeps, FinishKeeps, SettleKeeps, SkipKeeps DEF Work
<1>2. ASSUME NEW r \in Runners, Triggered(r)
      PROVE  ConsolidatorInv'
  BY Zenon, <1>2, TriggerKeeps, FireKeeps DEF Triggered
<1>3. ASSUME NEW r \in Runners, startFails(r) \/ lookupMisses(r) \/ formEpisodeFails(r)
      PROVE  ConsolidatorInv'
  BY Zenon, <1>3, StartFailsKeeps, MissKeeps, FailsKeeps
<1>4. ASSUME NEW s \in Sessions, Send(s) \/ CooldownOver(s) \/ LockStale(s)
      PROVE  ConsolidatorInv'
  BY Zenon, <1>4, TimeKeeps, StaleKeeps
<1>5. ASSUME NEW i \in RowIds, RowDue(i)
      PROVE  ConsolidatorInv'
  BY Zenon, <1>5, TimeKeeps
<1>6. CASE WindowOver \/ Crash
  BY Zenon, <1>6, WindowKeeps, CrashKeeps
<1>7. CASE UNCHANGED vars
  BY Zenon, <1>7, TimeKeeps
<1> QED
  BY Zenon, <1>1, <1>2, <1>3, <1>4, <1>5, <1>6, <1>7 DEF Next

-----------------------------------------------------------------------------
(* What listMessagesSince returns: messages in a row. *)
Slices == {S \in SUBSET Messages : \E a, b \in Nat : S = {k \in Messages : a < k /\ k <= b}}

CursorsTyped ==
  /\ cursor \in [Sessions -> 0..MaxMessages] /\ sent \in [Sessions -> Nat]
  /\ unread \in [Sessions -> SUBSET Messages]
  /\ slice \in [Sessions -> Slices]
  /\ \A i \in RowIds : rows[i].ids \in Slices

(* The rows a drain has claimed and not settled are as it claimed them. *)
RowSound(v, n) ==
  LET row == rows[v.queue[n].id]
  IN /\ v.queue[n].ids \in Slices /\ row.ids = v.queue[n].ids /\ row.sess = v.queue[n].sess
     /\ row.st = IF n = 1 /\ v.pc = "skip" THEN "exhausted" ELSE "due"
QueueSound(r, v) ==
  /\ v.queue # <<>> => r \in Triggers
  /\ \A n \in DOMAIN v.queue : RowSound(v, n)
  /\ \A m, n \in DOMAIN v.queue : v.queue[m].id = v.queue[n].id => m = n

(* Up to the tip of its batch, what a run has not accounted for is still   *)
(* among its slices or its facts.                                          *)
Working == {"extract", "check", "remember", "episode", "advance"}
Listed(v, k) == \E n \in DOMAIN v.todo : k \in v.todo[n]
Covered(v) ==
  /\ v.batch \in Slices /\ v.batch # {}
  /\ \A k \in 1..Tip(v.batch) : Accounted(v.sess, k) \/ k \in v.facts \/ Listed(v, k)
BatchSound(v) ==
  /\ Covered(v)
  /\ v.pc # "extract" => v.todo = <<>>
  /\ v.pc \in {"check", "remember"} => v.facts # {}
  /\ v.pc \in {"episode", "advance"} => v.facts = {}

(* A slice about to be skipped is accounted for, and so is all before it. *)
SkipSound(v) ==
  Head(v.queue).ids # {} /\ \A k \in 1..Tip(Head(v.queue).ids) : Accounted(v.sess, k)

CallSound(r, v) ==
  /\ QueueSound(r, v)
  /\ v.pc \in Outside => v.facts = {}
  /\ v.pc \in Working => BatchSound(v)
  /\ v.pc = "skip" => SkipSound(v)

CursorInv == CursorsTyped /\ (\A r \in Runners : CallSound(r, run[r])) /\ NothingSkipped

(* The tip of a slice is one of its messages, and the last.                *)
LEMMA TipOf ==
  ASSUME NEW S \in Slices, S # {}
  PROVE  Tip(S) \in S /\ Tip(S) \in Messages /\ \A j \in S : j <= Tip(S)
<1>1. PICK a \in Nat, b \in Nat : S = {k \in Messages : a < k /\ k <= b}
  BY Zenon DEF Slices
<1>2. PICK x \in S : x \in Messages
  BY Zenon DEF Slices
<1>3. MaxMessages \in Nat
  BY Zenon, BoundsAssumption
<1>4. PICK m : m = IF b <= MaxMessages THEN b ELSE MaxMessages
  BY Zenon
<1>5. m \in S /\ \A j \in S : j <= m
  BY <1>1, <1>2, <1>3, <1>4 DEF Messages
<1>6. Tip(S) \in S /\ \A j \in S : j <= Tip(S)
  BY Zenon, <1>5 DEF Tip
<1> QED
  BY Zenon, <1>6 DEF Slices

(* listMessagesSince returns messages in a row.                            *)
LEMMA ListedSlice ==
  ASSUME CursorsTyped, NEW s \in Sessions, NEW limit \in Nat
  PROVE  listMessagesSince(s, limit) \in Slices
<1>1. cursor[s] \in Nat /\ sent[s] \in Nat
  BY BoundsAssumption DEF CursorsTyped
<1>2. PICK b : b = IF sent[s] <= cursor[s] + limit THEN sent[s] ELSE cursor[s] + limit
  BY Zenon
<1>3. b \in Nat
  BY <1>1, <1>2
<1>4. listMessagesSince(s, limit) = {k \in Messages : cursor[s] < k /\ k <= b}
  BY <1>1, <1>2 DEF listMessagesSince, Messages
<1> QED
  BY Zenon, <1>1, <1>3, <1>4 DEF Slices

(* No messages are a slice.                                                *)
LEMMA EmptySlice == {} \in Slices
<1>1. {} = {k \in Messages : 0 < k /\ k <= 0}
  BY SMTT(30), BoundsAssumption DEF Messages
<1> QED
  BY Zenon, <1>1 DEF Slices

(* What a step must leave alone: messages that are accounted for, rows a   *)
(* drain holds.                                                            *)
AccountsKept == \A s \in Sessions, k \in Messages : Accounted(s, k) => Accounted(s, k)'
RowsKept == \A i \in RowIds : rows[i].st \in {"due", "exhausted"} => rows'[i] = rows[i]

(* A message stays accounted for while exhausted rows are left alone.      *)
LEMMA AccountedStays ==
  ASSUME cf' = cf, \A i \in RowIds : rows[i].st = "exhausted" => rows'[i] = rows[i],
         \A s \in Sessions, k \in Messages : wrote[s][k] > 0 => wrote'[s][k] > 0,
         \A s \in Sessions : unread[s] \subseteq unread'[s]
  PROVE  AccountsKept
BY DEF AccountsKept, Accounted

(* The rows a call has claimed are rows.                                   *)
LEMMA ClaimedRows ==
  ASSUME NEW v \in RunStates
  PROVE  v.queue \in Seq(Claims) /\ \A n \in DOMAIN v.queue : v.queue[n] \in Claims /\ v.queue[n].id \in RowIds
<1>1. v.queue \in Seq(Claims)
  BY Zenon DEF RunStates
<1>2. \A n \in DOMAIN v.queue : v.queue[n] \in Claims
  BY <1>1
<1> QED
  BY Zenon, <1>1, <1>2 DEF Claims

(* A claimed row that a step leaves alone is as it was claimed, for a call *)
(* that is not about to skip it or was about to before.                    *)
LEMMA RowStays ==
  ASSUME NEW v, NEW w, NEW n, RowSound(v, n), w.queue = v.queue, w.pc = v.pc \/ "skip" \notin {v.pc, w.pc},
         rows'[v.queue[n].id] = rows[v.queue[n].id]
  PROVE  RowSound(w, n)'
BY Zenon DEF RowSound

(* Calls that a step does not move stay sound.                             *)
LEMMA OthersSound ==
  ASSUME ConsolidatorInv, CursorInv, AccountsKept, NEW q \in Runners, run'[q] = run[q],
         RowsKept \/ run[q].queue = <<>>
  PROVE  CallSound(q, run[q])'
<1>1. PICK v \in SoundRuns : v = run[q]
  BY Zenon DEF ConsolidatorInv, TablesTyped
<1>2. CallSound(q, v) /\ v \in RunStates
  BY Zenon, <1>1 DEF CursorInv, SoundRuns
<1>3. \A n \in DOMAIN v.queue : v.queue[n].id \in RowIds
  BY Zenon, <1>2, ClaimedRows
<1>4. QueueSound(q, v)'
  <2>1. CASE v.queue = <<>>
    <3>1. DOMAIN v.queue = {}
      BY SMTT(30), <2>1
    <3> QED
      BY Zenon, <2>1, <3>1 DEF QueueSound
  <2>2. CASE v.queue # <<>>
    <3>1. RowsKept
      BY Zenon, <1>1, <2>2
    <3>2. \A n \in DOMAIN v.queue : rows'[v.queue[n].id] = rows[v.queue[n].id]
      BY Zenon, <1>2, <1>3, <3>1 DEF CallSound, QueueSound, RowSound, RowsKept
    <3>3. \A n \in DOMAIN v.queue : RowSound(v, n)'
      <4>1. \A n \in DOMAIN v.queue : RowSound(v, n)
        BY Zenon, <1>2 DEF CallSound, QueueSound
      <4> QED
        BY ZenonT(30), <3>2, <4>1, RowStays
    <3> QED
      BY Zenon, <1>2, <3>3 DEF CallSound, QueueSound
  <2> QED
    BY Zenon, <2>1, <2>2
<1>5. v.pc \in Working => BatchSound(v)'
  <2> SUFFICES ASSUME v.pc \in Working
               PROVE  BatchSound(v)'
    BY Zenon
  <2>1. BatchSound(v) /\ v.sess \in Sessions
    BY Zenon, <1>2 DEF CallSound, SoundRuns, Working
  <2>2. Tip(v.batch) \in Messages
    BY Zenon, <2>1, TipOf DEF BatchSound, Covered
  <2>3. \A k \in 1..Tip(v.batch) : k \in Messages
    BY <2>2, BoundsAssumption DEF Messages
  <2> QED
    BY Zenon, <2>1, <2>3 DEF BatchSound, Covered, AccountsKept
<1>6. v.pc = "skip" => SkipSound(v)'
  <2> SUFFICES ASSUME v.pc = "skip"
               PROVE  SkipSound(v)'
    BY Zenon
  <2>1. SkipSound(v) /\ v.sess \in Sessions /\ v.queue # <<>> /\ QueueSound(q, v)
    BY Zenon, <1>2 DEF CallSound, SoundRuns
  <2>2. v.queue \in Seq(Claims)
    BY ZenonT(30), <1>2 DEF RunStates
  <2>3. 1 \in DOMAIN v.queue /\ Head(v.queue) = v.queue[1]
    BY <2>1, <2>2
  <2>4. Head(v.queue).ids \in Slices
    BY Zenon, <2>1, <2>3 DEF QueueSound, RowSound
  <2>5. Tip(Head(v.queue).ids) \in Messages
    BY Zenon, <2>1, <2>4, TipOf DEF SkipSound
  <2>6. \A k \in 1..Tip(Head(v.queue).ids) : k \in Messages
    BY SMTT(30), <2>5, BoundsAssumption DEF Messages
  <2> QED
    BY Zenon, <2>1, <2>6 DEF SkipSound, AccountsKept
<1>7. CallSound(q, v)'
  BY ZenonT(30), <1>2, <1>4, <1>5, <1>6 DEF CallSound
<1> QED
  BY Zenon, <1>1, <1>7

(* A call that is neither at work nor about to skip a slice, and drains    *)
(* what it drained before.                                                 *)
LEMMA OutsideSound ==
  ASSUME ConsolidatorInv, CursorInv, RowsKept, NEW r \in Runners, NEW w \in SoundRuns,
         w.pc \notin Working \cup {"skip"}, run[r].pc # "skip", w.pc \in Outside => w.facts = {},
         w.queue = run[r].queue \/ w.queue = <<>>
  PROVE  CallSound(r, w)'
<1>1. QueueSound(r, w)'
  <2>1. CASE w.queue = <<>>
    <3>1. DOMAIN w.queue = {}
      BY <2>1
    <3> QED
      BY Zenon, <2>1, <3>1 DEF QueueSound
  <2>2. CASE w.queue = run[r].queue
    <3>1. PICK v : v = run[r]
      BY Zenon
    <3>2. QueueSound(r, v) /\ v.queue = w.queue /\ v.pc # "skip"
      BY Zenon, <2>2, <3>1 DEF CursorInv, CallSound
    <3>3. \A n \in DOMAIN w.queue : w.queue[n].id \in RowIds
      BY Zenon, ClaimedRows DEF SoundRuns
    <3>4. \A n \in DOMAIN w.queue : RowSound(v, n) /\ rows[v.queue[n].id].st = "due"
      BY Zenon, <3>2 DEF QueueSound, RowSound
    <3>5. \A n \in DOMAIN w.queue : rows'[v.queue[n].id] = rows[v.queue[n].id]
      BY ZenonT(30), <3>2, <3>3, <3>4 DEF RowsKept
    <3>6. \A n \in DOMAIN w.queue : RowSound(w, n)'
      BY Zenon, <3>2, <3>4, <3>5, RowStays
    <3> QED
      BY Zenon, <3>2, <3>6 DEF QueueSound
  <2> QED
    BY Zenon, <2>1, <2>2
<1> QED
  BY Zenon, <1>1 DEF CallSound

(* What the cursors passed stays accounted for.                            *)
LEMMA SkippedStays ==
  ASSUME CursorInv, AccountsKept, cursor' = cursor
  PROVE  NothingSkipped'
<1>1. \A s \in Sessions : \A k \in 1..cursor[s] : k \in Messages
  <2>1. \A s \in Sessions : cursor[s] \in 0..MaxMessages
    BY Zenon DEF CursorInv, CursorsTyped
  <2>2. MaxMessages \in Nat
    BY Zenon, BoundsAssumption
  <2>3. \A c \in 0..MaxMessages : \A k \in 1..c : k \in Messages
    BY <2>2 DEF Messages
  <2> QED
    BY Zenon, <2>1, <2>3
<1>2. \A s \in Sessions : \A k \in 1..cursor[s] : Accounted(s, k)'
  BY Zenon, <1>1 DEF CursorInv, NothingSkipped, AccountsKept
<1> QED
  BY Zenon, <1>2 DEF NothingSkipped

(* A step of one call: the others stay sound, and no cursor moved.         *)
LEMMA CursorStep ==
  ASSUME ConsolidatorInv, CursorInv, AccountsKept, NEW r \in Runners, NEW w, Moves(r, w), CallSound(r, w)',
         \A q \in Runners \ {r} : RowsKept \/ run[q].queue = <<>>
  PROVE  /\ \A q \in Runners : CallSound(q, run[q])'
         /\ cursor' = cursor => NothingSkipped'
<1>1. run \in [Runners -> SoundRuns]
  BY ZenonT(30) DEF ConsolidatorInv, TablesTyped
<1>2. ASSUME NEW q \in Runners
      PROVE  CallSound(q, run[q])'
  <2>1. CASE q = r
    <3>1. run'[q] = w
      BY Zenon, <1>1, <2>1 DEF Moves
    <3> QED
      BY Zenon, <2>1, <3>1
  <2>2. CASE q # r
    <3>1. run'[q] = run[q]
      BY Zenon, <1>1, <2>2 DEF Moves
    <3> QED
      BY Zenon, <2>2, <3>1, OthersSound
  <2> QED
    BY Zenon, <2>1, <2>2
<1>3. cursor' = cursor => NothingSkipped'
  BY Zenon, SkippedStays
<1> QED
  BY Zenon, <1>2, <1>3

-----------------------------------------------------------------------------
(* What a call drains is not changed on the way to the lock ...            *)
LEMMA EnterQueue ==
  ASSUME NEW v \in RunStates
  PROVE  /\ Enter(v).queue = v.queue \/ Enter(v).queue = <<>>
         /\ v.facts = {} => Enter(v).facts = {}
<1>1. [v EXCEPT !.pc = "acquire"].queue = v.queue /\ [v EXCEPT !.pc = "acquire"].facts = v.facts
  BY Zenon DEF RunStates
<1>2. /\ [v EXCEPT !.pc = "settle", !.out = "deferred"].queue = v.queue
      /\ [v EXCEPT !.pc = "settle", !.out = "deferred"].facts = v.facts
  BY Zenon DEF RunStates
<1> QED
  BY Zenon, <1>1, <1>2, IdleSound DEF Enter

(* ... nor after a phase ...                                               *)
LEMMA AfterQueue ==
  ASSUME NEW v \in SoundRuns, NEW o \in Outcomes
  PROVE  (After(v, o).queue = v.queue \/ After(v, o).queue = <<>>) /\ After(v, o).facts = {}
<1>1. PICK w : w = [v EXCEPT !.batch = {}, !.todo = <<>>, !.facts = {}, !.seen = "closed"]
  BY Zenon
<1>2. v \in RunStates
  BY Zenon DEF SoundRuns
<1>3. PICK e, c : e = <<>> /\ c = "closed"
  BY Zenon
<1>4. e \in Seq(SUBSET Messages) /\ c \in Conflicts /\ w = [v EXCEPT !.batch = {}, !.todo = e, !.facts = {}, !.seen = c]
  BY <1>1, <1>3 DEF Conflicts
<1>5. w \in RunStates /\ w.queue = v.queue /\ w.facts = {}
  BY Zenon, <1>2, <1>4 DEF RunStates
<1>6. CASE Replaying(v)
  <2>1. [w EXCEPT !.pc = "settle", !.out = o].queue = v.queue /\ [w EXCEPT !.pc = "settle", !.out = o].facts = {}
    BY Zenon, <1>5 DEF RunStates
  <2> QED
    BY Zenon, <1>1, <1>6, <2>1 DEF After
<1>7. CASE ~Replaying(v) /\ (o # "completed" \/ v.plan = <<>>)
  BY Zenon, <1>7, IdleSound DEF After
<1>8. CASE ~Replaying(v) /\ ~(o # "completed" \/ v.plan = <<>>)
  <2>1. PICK x : x = [w EXCEPT !.phase = Head(v.plan), !.plan = Tail(v.plan)]
    BY Zenon
  <2>2. Head(v.plan) \in Phases /\ Tail(v.plan) \in Seq(Phases)
    BY <1>2, <1>8 DEF RunStates
  <2>3. x \in RunStates /\ x.queue = v.queue /\ x.facts = {}
    BY Zenon, <1>5, <2>1, <2>2 DEF RunStates
  <2>4. After(v, o) = Enter(x)
    BY Zenon, <1>1, <1>8, <2>1 DEF After
  <2> QED
    BY Zenon, <2>3, <2>4, EnterQueue
<1> QED
  BY Zenon, <1>6, <1>7, <1>8

(* ... and is the queue when a drain goes on.                              *)
LEMMA DrainQueue ==
  ASSUME NEW v \in RunStates, NEW q \in Seq(Claims)
  PROVE  (Drain(v, q).queue = q \/ Drain(v, q).queue = <<>>) /\ (v.facts = {} => Drain(v, q).facts = {})
<1>1. PICK w : w = [v EXCEPT !.queue = q, !.out = "none"]
  BY Zenon
<1>2. w \in RunStates /\ w.queue = q /\ w.facts = v.facts
  BY Zenon, <1>1 DEF RunStates
<1>3. CASE q = <<>>
  <2>1. /\ [w EXCEPT !.pc = "plan", !.phase = "light"].queue = q
        /\ [w EXCEPT !.pc = "plan", !.phase = "light"].facts = v.facts
    BY Zenon, <1>2 DEF RunStates
  <2> QED
    BY Zenon, <1>1, <1>3, <2>1 DEF Drain
<1>4. CASE q # <<>>
  <2>1. PICK x : x = [w EXCEPT !.phase = Head(q).phase]
    BY Zenon
  <2>2. Head(q) \in Claims
    BY <1>4
  <2>3. Head(q).phase \in Phases
    BY Zenon, <2>2 DEF Claims
  <2>4. x \in RunStates /\ x.queue = q /\ x.facts = v.facts
    BY Zenon, <1>2, <2>1, <2>3 DEF RunStates
  <2>5. Drain(v, q) = Enter(x)
    BY Zenon, <1>1, <1>4, <2>1 DEF Drain
  <2> QED
    BY Zenon, <2>4, <2>5, EnterQueue
<1> QED
  BY Zenon, <1>3, <1>4

(* A call that goes on outside its work, with nothing written.             *)
LEMMA QuietCursor ==
  ASSUME ConsolidatorInv, CursorInv, NEW r \in Runners, NEW w \in SoundRuns, Moves(r, w),
         w.pc \notin Working \cup {"skip"}, run[r].pc # "skip", w.pc \in Outside => w.facts = {},
         w.queue = run[r].queue \/ w.queue = <<>>,
         UNCHANGED <<sent, cursor, slice, rows, wrote, unread>>
  PROVE  CursorInv'
<1>1. RowsKept
  BY Zenon DEF RowsKept
<1>2. AccountsKept
  BY Zenon, AccountedStays DEF Moves
<1>3. CallSound(r, w)'
  BY Zenon, <1>1, OutsideSound
<1>4. (\A q \in Runners : CallSound(q, run[q])') /\ NothingSkipped'
  BY Zenon, <1>1, <1>2, <1>3, CursorStep
<1>5. CursorsTyped'
  BY ZenonT(30) DEF CursorInv, CursorsTyped
<1> QED
  BY Zenon, <1>4, <1>5 DEF CursorInv

(* A call that goes on with its batch.                                     *)
LEMMA WorkCursor ==
  ASSUME ConsolidatorInv, CursorInv, NEW r \in Runners, NEW w \in SoundRuns, Moves(r, w),
         w.pc \in Working, BatchSound(w)', run[r].pc # "skip", w.queue = run[r].queue,
         AccountsKept, CursorsTyped', UNCHANGED <<cursor, rows>>
  PROVE  CursorInv'
<1>1. RowsKept
  BY Zenon DEF RowsKept
<1>2. w.pc # "skip"
  BY Zenon DEF Working
<1>3. QueueSound(r, run[r])
  BY Zenon DEF CursorInv, CallSound
<1>4. \A n \in DOMAIN w.queue : RowSound(w, n)'
  BY ZenonT(30), <1>2, <1>3 DEF QueueSound, RowSound
<1>5. QueueSound(r, w)'
  BY ZenonT(30), <1>3, <1>4 DEF QueueSound
<1>6. CallSound(r, w)'
  BY ZenonT(30), <1>2, <1>5 DEF CallSound, Working, Outside
<1>7. (\A q \in Runners : CallSound(q, run[q])') /\ NothingSkipped'
  BY ZenonT(30), <1>1, <1>6, CursorStep
<1> QED
  BY Zenon, <1>7 DEF CursorInv

-----------------------------------------------------------------------------
(* trigger(): the claimed rows are due.                                    *)
LEMMA TriggerCursor ==
  ASSUME ConsolidatorInv, CursorInv, NEW r \in Triggers, NEW s \in Sessions, NEW reason \in {"turn", "cron"},
         trigger(r, s, reason)
  PROVE  CursorInv'
<1>1. TablesTyped /\ r \in Runners
  BY Zenon, SetsAssumption DEF ConsolidatorInv
<1>2. PICK q \in Orders(DueRows) :
        run' = [run EXCEPT ![r] = Drain([Idle EXCEPT !.sess = s, !.reason = reason], Claimed(q))]
  BY Zenon DEF trigger
<1>3. DueRows \subseteq RowIds /\ Counted(RowIds)
  BY Zenon DEF DueRows, ConsolidatorInv, Counts
<1>4. Cardinality(DueRows) \in Nat
  BY Zenon, <1>3 DEF Counted
<1>5. /\ q \in [1..Cardinality(DueRows) -> DueRows] /\ DOMAIN q = 1..Cardinality(DueRows)
      /\ \A m, n \in DOMAIN q : q[m] = q[n] => m = n
  BY Zenon DEF Orders
<1>6. \A n \in DOMAIN q : q[n] \in RowIds /\ rows[q[n]] \in RowStates /\ rows[q[n]].st = "due"
  BY Zenon, <1>1, <1>3, <1>5 DEF TablesTyped, DueRows
<1>7. \A n \in DOMAIN q :
        [id |-> q[n], rc |-> rows[q[n]].rc, sess |-> rows[q[n]].sess, ids |-> rows[q[n]].ids,
         phase |-> rows[q[n]].phase] \in Claims
  BY Zenon, <1>6 DEF RowStates, Claims
<1>8. PICK c : c = Claimed(q)
  BY Zenon
<1>9. c \in [1..Cardinality(DueRows) -> Claims]
  BY Zenon, <1>5, <1>7, <1>8 DEF Claimed
<1>10. c \in Seq(Claims) /\ DOMAIN c = DOMAIN q
  BY SMTT(30), <1>4, <1>5, <1>9
<1>11. \A n \in DOMAIN c : c[n].id = q[n] /\ c[n].sess = rows[q[n]].sess /\ c[n].ids = rows[q[n]].ids
  BY Zenon, <1>8, <1>10 DEF Claimed
<1>12. PICK v : v = [Idle EXCEPT !.sess = s, !.reason = reason]
  BY Zenon
<1>13. v \in RunStates /\ v.sess = s /\ v.facts = {}
  BY ZenonT(30), <1>12, IdleSound DEF SoundRuns, RunStates, Somewhere
<1>14. PICK w : w = Drain(v, c)
  BY Zenon
<1>15. w \in SoundRuns /\ w.pc \in Outside \ {"skip"} /\ (w.queue = c \/ w.queue = <<>>) /\ w.facts = {}
  BY Zenon, <1>10, <1>13, <1>14, DrainSound, DrainQueue
<1>16. w.pc \notin Working \cup {"skip"}
  BY Zenon, <1>15 DEF Working, Outside
<1>17. Moves(r, w)
  BY ZenonT(30), <1>2, <1>8, <1>12, <1>14 DEF Moves, trigger
<1>18. UNCHANGED <<cf, sent, cursor, slice, rows, wrote, unread>>
  BY Zenon DEF trigger, tables, history
<1>19. \A n \in DOMAIN c : rows[c[n].id].ids \in Slices
  BY <1>6, <1>10, <1>11 DEF CursorInv, CursorsTyped
<1>20. QueueSound(r, w)'
  <2>1. CASE w.queue = <<>>
    <3>1. DOMAIN w.queue = {}
      BY <2>1
    <3> QED
      BY Zenon, <2>1, <3>1 DEF QueueSound
  <2>2. CASE w.queue = c
    <3>1. \A n \in DOMAIN c : RowSound(w, n)'
      BY SMTT(30), <1>6, <1>10, <1>11, <1>15, <1>18, <1>19, <2>2 DEF RowSound
    <3>2. \A m, n \in DOMAIN c : c[m].id = c[n].id => m = n
      BY Zenon, <1>5, <1>10, <1>11
    <3> QED
      BY Zenon, <2>2, <3>1, <3>2 DEF QueueSound
  <2> QED
    BY Zenon, <1>15, <2>1, <2>2
<1>21. CallSound(r, w)'
  BY ZenonT(30), <1>15, <1>16, <1>20 DEF CallSound
<1>22. RowsKept /\ AccountsKept
  BY Zenon, <1>18, AccountedStays DEF RowsKept
<1>23. (\A p \in Runners : CallSound(p, run[p])') /\ NothingSkipped'
  BY Zenon, <1>1, <1>17, <1>18, <1>21, <1>22, CursorStep
<1>24. CursorsTyped'
  BY Zenon, <1>18 DEF CursorInv, CursorsTyped
<1> QED
  BY Zenon, <1>23, <1>24 DEF CursorInv

(* fireNow() and the live phases drain nothing.                            *)
LEMMA FireCursor ==
  ASSUME ConsolidatorInv, CursorInv, NEW r \in Runners, NEW s \in Sessions, NEW phase \in Phases,
         fireNow(r, s, phase)
  PROVE  CursorInv'
<1>1. PICK v : v = [Idle EXCEPT !.sess = s, !.phase = phase]
  BY Zenon
<1>2. v \in RunStates /\ v.sess = s /\ v.queue = <<>> /\ v.facts = {}
  BY Zenon, <1>1, IdleSound DEF SoundRuns, RunStates, Somewhere
<1>3. PICK w : w = Enter(v)
  BY Zenon
<1>4. w \in SoundRuns /\ w.pc \in Outside \ {"skip"} /\ w.queue = <<>> /\ w.facts = {}
  BY Zenon, <1>2, <1>3, EnterSound, EnterQueue
<1>5. Moves(r, w) /\ w.pc \notin Working \cup {"skip"} /\ run[r].pc # "skip"
  BY Zenon, <1>1, <1>3, <1>4 DEF Moves, fireNow, Working, Outside
<1>6. UNCHANGED <<sent, cursor, slice, rows, wrote, unread>>
  BY Zenon DEF fireNow, tables, history
<1> QED
  BY <1>4, <1>5, <1>6, QuietCursor

(* The live phases of a trigger.                                           *)
LEMMA PlanCursor ==
  ASSUME ConsolidatorInv, ConsolidatorInv', CursorInv, NEW r \in Runners, Plan(r)
  PROVE  CursorInv'
<1>1. run \in [Runners -> SoundRuns] /\ run[r] \in RunStates /\ run[r].pc = "plan"
  BY Zenon DEF ConsolidatorInv, TablesTyped, Plan, SoundRuns
<1>2. PICK plan : plan = planPhases(run[r].reason)
  BY Zenon
<1>3. PICK v : v = [run[r] EXCEPT !.reason = "turn", !.phase = Head(plan), !.plan = Tail(plan)]
  BY Zenon
<1>4. PICK w : w = IF plan = <<>> \/ cooling[run[r].sess] THEN Idle ELSE Enter(v)
  BY Zenon
<1>5. Moves(r, w)
  BY Zenon, <1>2, <1>3, <1>4 DEF Moves, Plan
<1>6. w \in SoundRuns
  <2>1. run'[r] = w /\ run'[r] \in SoundRuns
    BY Zenon, <1>1, <1>5 DEF Moves, ConsolidatorInv, TablesTyped
  <2> QED
    BY Zenon, <2>1
<1>7. (w.queue = run[r].queue \/ w.queue = <<>>) /\ w.facts = {}
  <2>1. v.queue = run[r].queue /\ v.facts = run[r].facts /\ run[r].facts = {}
    BY Zenon, <1>1, <1>3 DEF RunStates, CursorInv, CallSound, Outside
  <2>2. [v EXCEPT !.pc = "acquire"].queue = v.queue /\ [v EXCEPT !.pc = "acquire"].facts = v.facts
    BY Zenon, <1>1, <1>3 DEF RunStates
  <2>3. /\ [v EXCEPT !.pc = "settle", !.out = "deferred"].queue = v.queue
        /\ [v EXCEPT !.pc = "settle", !.out = "deferred"].facts = v.facts
    BY Zenon, <1>1, <1>3 DEF RunStates
  <2> QED
    BY Zenon, <1>4, <2>1, <2>2, <2>3, IdleSound DEF Enter
<1>8. w.pc \in {"idle", "acquire", "settle"}
  <2>1. [v EXCEPT !.pc = "acquire"].pc = "acquire"
    BY Zenon, <1>1, <1>3 DEF RunStates
  <2>2. [v EXCEPT !.pc = "settle", !.out = "deferred"].pc = "settle"
    BY Zenon, <1>1, <1>3 DEF RunStates
  <2> QED
    BY Zenon, <1>4, <2>1, <2>2, IdleSound DEF Enter
<1>9. UNCHANGED <<sent, cursor, slice, rows, wrote, unread>>
  BY Zenon DEF Plan, history
<1> QED
  BY Zenon, <1>1, <1>5, <1>6, <1>7, <1>8, <1>9, QuietCursor DEF Working

(* A call that does not get to its work.                                   *)
LEMMA DeferredCursor ==
  ASSUME ConsolidatorInv, CursorInv, NEW r \in Runners, deferred(r) \/ startFails(r)
  PROVE  CursorInv'
<1>1. run \in [Runners -> SoundRuns] /\ run[r] \in SoundRuns /\ run[r].pc = "acquire"
  BY Zenon DEF ConsolidatorInv, TablesTyped, deferred, startFails
<1>2. PICK w : (w = After(run[r], "deferred") \/ w = After(run[r], "failed") \/ w = Idle)
               /\ run' = [run EXCEPT ![r] = w]
  BY Zenon DEF deferred, startFails
<1>3. /\ w \in SoundRuns /\ w.pc \in Outside \ {"skip"} /\ (w.queue = run[r].queue \/ w.queue = <<>>)
      /\ w.facts = {}
  BY ZenonT(30), <1>1, <1>2, AfterSound, AfterQueue, IdleSound DEF Outcomes, Outside
<1>4. Moves(r, w) /\ w.pc \notin Working \cup {"skip"}
  BY ZenonT(30), <1>2, <1>3 DEF Moves, deferred, startFails, Working, Outside
<1>5. UNCHANGED <<sent, cursor, slice, rows, wrote, unread>>
  BY Zenon DEF deferred, startFails, tables, history
<1> QED
  BY Zenon, <1>1, <1>3, <1>4, <1>5, QuietCursor

(* A run that goes to its end.                                             *)
LEMMA FailsCursor ==
  ASSUME ConsolidatorInv, CursorInv, ConsolidatorInv', NEW r \in Runners,
         extractFails(r) \/ formEpisodeFails(r) \/ judge(r)
  PROVE  CursorInv'
<1>1. /\ run \in [Runners -> SoundRuns] /\ run[r] \in RunStates /\ run[r].pc # "skip"
      /\ run' \in [Runners -> SoundRuns]
  BY Zenon DEF ConsolidatorInv, TablesTyped, extractFails, formEpisodeFails, judge, SoundRuns
<1>2. PICK out : run' = [run EXCEPT ![r].pc = "finish", ![r].out = out]
  BY Zenon DEF extractFails, formEpisodeFails, judge
<1>3. PICK w : w = [run[r] EXCEPT !.pc = "finish", !.out = out]
  BY Zenon
<1>4. run' = [run EXCEPT ![r] = w]
  BY ZenonT(30), <1>1, <1>2, <1>3
<1>5. w.pc = "finish" /\ w.queue = run[r].queue
  BY Zenon, <1>1, <1>3 DEF RunStates
<1>6. w \in SoundRuns
  BY Zenon, <1>1, <1>4
<1>7. Moves(r, w) /\ w.pc \notin Working \cup {"skip"} \cup Outside
  BY Zenon, <1>4, <1>5 DEF Moves, extractFails, formEpisodeFails, judge, Working, Outside
<1>8. UNCHANGED <<sent, cursor, slice, rows, wrote, unread>>
  BY Zenon DEF extractFails, formEpisodeFails, judge, tables, history
<1> QED
  BY ZenonT(30), <1>1, <1>5, <1>6, <1>7, <1>8, QuietCursor

-----------------------------------------------------------------------------
(* A batch stays sound while accounts are kept.                            *)
LEMMA BatchStays ==
  ASSUME AccountsKept, NEW v, v.sess \in Sessions, BatchSound(v)
  PROVE  BatchSound(v)'
<1>1. Tip(v.batch) \in Messages
  BY Zenon, TipOf DEF BatchSound, Covered
<1>2. \A k \in 1..Tip(v.batch) : k \in Messages
  BY SMTT(30), <1>1, BoundsAssumption DEF Messages
<1> QED
  BY Zenon, <1>2 DEF BatchSound, Covered, AccountsKept

(* The batch of a new run: before it all is accounted for, and in it what  *)
(* is not noise is to be extracted.                                        *)
LEMMA DispatchedBatch ==
  ASSUME ConsolidatorInv, CursorInv, NEW v \in SoundRuns, v.pc = "acquire", v.facts = {}
  PROVE  /\ Dispatched(v).queue = v.queue
         /\ Dispatched(v).pc \in Working => BatchSound(Dispatched(v))
<1>1. v \in RunStates /\ v.sess \in Sessions /\ v.phase \in Phases
  BY Zenon DEF SoundRuns, RunStates
<1>2. PICK w : w = [v EXCEPT !.out = "completed"]
  BY Zenon
<1>3. w \in RunStates /\ w.sess = v.sess /\ w.queue = v.queue /\ w.facts = {}
  BY Zenon, <1>1, <1>2 DEF RunStates, Outcomes
<1>4. CASE v.phase = "light"
  <2>1. PICK x : x = [w EXCEPT !.pc = "finish"]
    BY Zenon
  <2>2. x.pc = "finish" /\ x.queue = v.queue
    BY Zenon, <1>3, <2>1 DEF RunStates
  <2>3. Dispatched(v) = x
    BY Zenon, <1>2, <1>4, <2>1 DEF Dispatched
  <2> QED
    BY Zenon, <2>2, <2>3 DEF Working
<1>5. CASE v.phase = "deep"
  <2>1. PICK seen, pc : /\ seen = conflict[v.sess]
                        /\ pc = IF conflict[v.sess] = "closed" \/ budget.paused THEN "finish" ELSE "judge"
    BY Zenon
  <2>2. PICK x : x = [w EXCEPT !.seen = seen, !.pc = pc]
    BY Zenon
  <2>3. x.pc = pc /\ x.queue = v.queue
    BY Zenon, <1>3, <2>2 DEF RunStates
  <2>4. Dispatched(v) = x
    BY Zenon, <1>2, <1>5, <2>1, <2>2 DEF Dispatched
  <2> QED
    BY Zenon, <2>1, <2>3, <2>4 DEF Working
<1>6. CASE v.phase = "standard"
  <2>0. PICK batch : batch = listMessagesSince(v.sess, cf.maxBatch)
    BY Zenon
  <2>1. PICK kept : kept = Kept(v.sess, batch)
    BY Zenon
  <2>2. batch \in Slices /\ batch \subseteq Messages
    BY ZenonT(30), <1>1, <2>0, ListedSlice, ScenarioAssumption DEF CursorInv, ConsolidatorInv, TablesTyped, Slices
  <2>3. PICK todo : todo = IF kept = {} THEN <<>> ELSE <<kept>>
    BY ZenonT(30)
  <2>4. PICK pc : pc = IF batch = {} THEN "finish" ELSE IF kept = {} THEN "advance" ELSE "extract"
    BY Zenon
  <2>5. PICK x : x = [w EXCEPT !.batch = batch, !.todo = todo, !.pc = pc]
    BY Zenon
  <2>6. /\ x.pc = pc /\ x.sess = v.sess /\ x.queue = v.queue /\ x.facts = {}
        /\ x.todo = todo /\ x.batch = batch
    BY Zenon, <1>3, <2>5 DEF RunStates
  <2>7. Dispatched(v) = x
    BY <1>2, <1>6, <2>0, <2>1, <2>3, <2>4, <2>5 DEF Dispatched
  <2>8. ASSUME x.pc \in Working
        PROVE  BatchSound(x)
    <3>1. batch # {}
      BY Zenon, <2>4, <2>6, <2>8 DEF Working
    <3>2. Tip(batch) \in batch /\ Tip(batch) \in Nat
      BY <2>2, <3>1, TipOf, BoundsAssumption DEF Messages
    <3>3. cursor[v.sess] \in Nat /\ sent[v.sess] \in Nat
      BY <1>1, BoundsAssumption DEF CursorInv, CursorsTyped
    <3>4. cf.maxBatch \in Nat
      BY Zenon, ScenarioAssumption DEF ConsolidatorInv, TablesTyped
    <3>5. ASSUME NEW k \in 1..Tip(batch)
          PROVE  Accounted(v.sess, k) \/ Listed(x, k)
      <4>1. CASE k <= cursor[v.sess]
        <5>1. k \in 1..cursor[v.sess]
          BY <3>2, <3>3, <4>1
        <5> QED
          BY Zenon, <1>1, <5>1 DEF CursorInv, NothingSkipped
      <4>2. CASE ~(k <= cursor[v.sess])
        <5>1. k \in batch
          <6>1. PICK t : t = Tip(batch)
            BY Zenon
          <6>2. t \in Messages /\ t <= sent[v.sess] /\ t <= cursor[v.sess] + cf.maxBatch
            BY ZenonT(30), <2>0, <3>2, <6>1 DEF listMessagesSince
          <6>3. k \in Nat /\ 1 <= k /\ k <= t /\ t \in Nat
            BY <3>2, <6>1
          <6>4. MaxMessages \in Nat
            BY Zenon, BoundsAssumption
          <6>5. k \in Messages /\ cursor[v.sess] < k /\ k <= sent[v.sess] /\ k <= cursor[v.sess] + cf.maxBatch
            BY <3>3, <3>4, <4>2, <6>2, <6>3, <6>4 DEF Messages
          <6> QED
            BY Zenon, <2>0, <6>5 DEF listMessagesSince
        <5>2. CASE cf.kind[v.sess][k] = "noise"
          BY Zenon, <5>2 DEF Accounted
        <5>3. CASE cf.kind[v.sess][k] # "noise"
          <6>1. k \in kept
            BY Zenon, <2>1, <5>1, <5>3 DEF Kept
          <6>2. todo = <<kept>>
            BY Zenon, <2>3, <6>1
          <6>3. 1 \in DOMAIN todo /\ todo[1] = kept
            BY <6>2
          <6> QED
            BY Zenon, <2>6, <6>1, <6>3 DEF Listed
        <5> QED
          BY Zenon, <5>2, <5>3
      <4> QED
        BY Zenon, <4>1, <4>2
    <3>6. x.pc # "extract" => x.todo = <<>>
      BY Zenon, <2>3, <2>4, <2>6, <3>1
    <3>7. x.pc \in {"extract", "advance"}
      BY Zenon, <2>4, <2>6, <3>1
    <3> QED
      BY Zenon, <2>2, <2>6, <3>1, <3>5, <3>6, <3>7 DEF BatchSound, Covered
  <2> QED
    BY Zenon, <2>6, <2>7, <2>8
<1> QED
  BY Zenon, <1>1, <1>4, <1>5, <1>6 DEF Phases

(* acquire: the slice of the run, and its batch.                           *)
LEMMA AcquireCursor ==
  ASSUME ConsolidatorInv, CursorInv, NEW r \in Runners, acquire(r)
  PROVE  CursorInv'
<1>1. TablesTyped /\ run[r] \in SoundRuns /\ run[r].pc = "acquire" /\ run[r].facts = {}
  BY ZenonT(30) DEF ConsolidatorInv, TablesTyped, acquire, CursorInv, CallSound, Outside
<1>2. PICK s \in Sessions : s = run[r].sess
  BY Zenon, <1>1 DEF SoundRuns
<1>3. PICK w : w = Dispatched(run[r])
  BY Zenon
<1>4. w \in SoundRuns /\ w.pc \in Inside /\ w.sess = s /\ w.queue = run[r].queue
  BY ZenonT(30), <1>1, <1>2, <1>3, DispatchedSound, DispatchedBatch
<1>5. w.pc \in Working => BatchSound(w)
  BY Zenon, <1>1, <1>3, DispatchedBatch
<1>6. Moves(r, w)
  BY Zenon, <1>3 DEF Moves, acquire
<1>7. UNCHANGED <<sent, cursor, rows, wrote, unread>>
  BY Zenon DEF acquire, history
<1>8. RowsKept /\ AccountsKept
  BY Zenon, <1>6, <1>7, AccountedStays DEF RowsKept, Moves
<1>9. CursorsTyped'
  <2>1. cf.maxBatch \in Nat
    BY Zenon, <1>1, ScenarioAssumption DEF TablesTyped
  <2>2. listMessagesSince(s, cf.maxBatch) \in Slices
    BY Zenon, <2>1, ListedSlice DEF CursorInv
  <2>3. slice' \in [Sessions -> Slices]
    BY ZenonT(30), <1>2, <2>2, EmptySlice DEF acquire, CursorInv, CursorsTyped
  <2> QED
    BY Zenon, <1>7, <2>3 DEF CursorInv, CursorsTyped
<1>10. CASE w.pc \in Working
  <2>1. BatchSound(w)'
    BY ZenonT(30), <1>4, <1>5, <1>8, <1>10, BatchStays
  <2> QED
    BY ZenonT(30), <1>1, <1>4, <1>6, <1>7, <1>8, <1>9, <1>10, <2>1, WorkCursor
<1>11. CASE w.pc \notin Working
  <2>1. w.pc \notin Working \cup {"skip"} \cup Outside
    BY Zenon, <1>4, <1>11 DEF Inside, Outside
  <2>2. CallSound(r, w)'
    BY Zenon, <1>1, <1>4, <1>8, <2>1, OutsideSound
  <2>3. (\A q \in Runners : CallSound(q, run[q])') /\ NothingSkipped'
    BY ZenonT(30), <1>6, <1>7, <1>8, <2>2, CursorStep
  <2> QED
    BY Zenon, <1>9, <2>3 DEF CursorInv
<1> QED
  BY Zenon, <1>10, <1>11

-----------------------------------------------------------------------------
(* Two states of a run with the same batch, slices and rows.               *)
SameBatch(v, x) == x.sess = v.sess /\ x.batch = v.batch /\ x.todo = v.todo /\ x.queue = v.queue

(* The batch of a run with its facts stored.                               *)
LEMMA StoredBatch ==
  ASSUME NEW v \in RunStates, NEW p \in BOOLEAN
  PROVE  /\ SameBatch(v, Stored(v, p)) /\ Stored(v, p).facts = v.facts
         /\ Stored(v, p).pc \in {"episode", "advance"}
<1>1. PICK pc : pc = IF cf.formEpisodes /\ ~p THEN "episode" ELSE "advance"
  BY Zenon
<1>2. PICK x : x = [v EXCEPT !.pc = pc]
  BY ZenonT(30)
<1>3. x.pc = pc /\ SameBatch(v, x) /\ x.facts = v.facts
  BY Zenon, <1>2 DEF RunStates, SameBatch
<1>4. Stored(v, p) = x
  BY Zenon, <1>1, <1>2 DEF Stored
<1> QED
  BY Zenon, <1>1, <1>3, <1>4

(* The batch of a run after a slice.                                       *)
LEMMA ExtractedBatch ==
  ASSUME NEW v \in RunStates, v.pc = "extract", NEW p \in BOOLEAN
  PROVE  LET x == Extracted(v, p)
         IN /\ SameBatch(v, x) /\ x.facts = v.facts
            /\ x.pc \in {"finish", "extract", "check", "episode", "advance"}
            /\ x.pc \in {"check", "episode", "advance"} => x.todo = <<>>
            /\ x.pc = "check" => x.facts # {}
            /\ x.pc \in {"episode", "advance"} => x.facts = {}
<1>1. CASE v.todo # <<>> /\ p
  <2>1. PICK x : x = [v EXCEPT !.pc = "finish", !.out = "failed"]
    BY Zenon
  <2>2. x.pc = "finish" /\ SameBatch(v, x) /\ x.facts = v.facts
    BY Zenon, <2>1 DEF RunStates, SameBatch
  <2>3. Extracted(v, p) = x
    BY Zenon, <1>1, <2>1 DEF Extracted
  <2> QED
    BY Zenon, <2>2, <2>3
<1>2. CASE v.todo # <<>> /\ ~p
  <2>1. Extracted(v, p) = v
    BY Zenon, <1>2 DEF Extracted
  <2> QED
    BY Zenon, <1>2, <2>1 DEF SameBatch
<1>3. CASE v.todo = <<>> /\ v.facts = {}
  <2>1. PICK x : x = Stored(v, p)
    BY Zenon
  <2>2. SameBatch(v, x) /\ x.facts = v.facts /\ x.pc \in {"episode", "advance"}
    BY Zenon, <2>1, StoredBatch
  <2>3. Extracted(v, p) = x
    BY Zenon, <1>3, <2>1 DEF Extracted
  <2> QED
    BY Zenon, <1>3, <2>2, <2>3 DEF SameBatch
<1>4. CASE v.todo = <<>> /\ v.facts # {}
  <2>1. PICK x : x = [v EXCEPT !.pc = "check"]
    BY Zenon
  <2>2. x.pc = "check" /\ SameBatch(v, x) /\ x.facts = v.facts
    BY Zenon, <2>1 DEF RunStates, SameBatch
  <2>3. Extracted(v, p) = x
    BY Zenon, <1>4, <2>1 DEF Extracted
  <2> QED
    BY Zenon, <1>4, <2>2, <2>3 DEF SameBatch
<1> QED
  BY Zenon, <1>1, <1>2, <1>3, <1>4

(* The batch of a run that is done with a fact.                            *)
LEMMA WrittenBatch ==
  ASSUME TablesTyped, NEW v \in RunStates
  PROVE  LET x == Written(v)
         IN /\ SameBatch(v, x) /\ x.facts = v.facts \ {First(v.facts)}
            /\ x.pc \in {"check", "episode", "advance"}
            /\ x.pc = "check" => x.facts # {}
            /\ x.pc \in {"episode", "advance"} => x.facts = {}
<1>1. v.facts \subseteq Messages
  BY Zenon DEF RunStates
<1>2. PICK facts : facts = v.facts \ {First(v.facts)}
  BY Zenon
<1>3. PICK w : w = [v EXCEPT !.facts = facts]
  BY Zenon
<1>4. facts \subseteq Messages
  BY Zenon, <1>1, <1>2
<1>5. w \in RunStates /\ SameBatch(v, w) /\ w.facts = facts
  BY Zenon, <1>3, <1>4 DEF RunStates, SameBatch
<1>6. w = [v EXCEPT !.facts = @ \ {First(@)}]
  BY Zenon, <1>2, <1>3
<1>7. budget.paused \in BOOLEAN
  BY Zenon DEF TablesTyped
<1>8. CASE facts = {}
  <2>1. PICK x : x = Stored(w, budget.paused)
    BY Zenon
  <2>2. SameBatch(w, x) /\ x.facts = facts /\ x.pc \in {"episode", "advance"}
    BY Zenon, <1>5, <1>7, <2>1, StoredBatch
  <2>3. Written(v) = x
    BY Zenon, <1>5, <1>6, <1>8, <2>1 DEF Written
  <2> QED
    BY Zenon, <1>2, <1>5, <1>8, <2>2, <2>3 DEF SameBatch
<1>9. CASE facts # {}
  <2>1. PICK x : x = [w EXCEPT !.pc = "check"]
    BY Zenon
  <2>2. x.pc = "check" /\ SameBatch(w, x) /\ x.facts = facts
    BY Zenon, <1>5, <2>1 DEF RunStates, SameBatch
  <2>3. Written(v) = x
    BY Zenon, <1>5, <1>6, <1>9, <2>1 DEF Written
  <2> QED
    BY Zenon, <1>2, <1>5, <1>9, <2>2, <2>3 DEF SameBatch
<1> QED
  BY Zenon, <1>8, <1>9
================================================================================
