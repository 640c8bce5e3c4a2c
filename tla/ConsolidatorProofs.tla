--------------------------- MODULE ConsolidatorProofs ---------------------------
(***************************************************************************)
(* The consolidator for any number of sessions, calls, rows and messages:  *)
(* the lock of a session, the facts it stores, the budget it spends and    *)
(* the messages its cursor passes.                                         *)
(*                                                                         *)
(* OneRun rests on who makes a lock stale, FactsOnce on OneRun and on what *)
(* a lookup found, CeilingHolds on how many calls may still spend when the *)
(* budget pauses. The cursor passes no message that was not worked off,    *)
(* left out of an answer or exhausted, while at most one drain of the dead letters is   *)
(* under way: with two of them a row that ran out of retries may be        *)
(* scheduled again from a count claimed before, and deleted.               *)
(***************************************************************************)
EXTENDS ConsolidatorSteps, FiniteSetTheorems

(* The subsets of the calls and of the rows are finite and can be counted. *)
LEMMA FiniteCounted ==
  ASSUME NEW A, IsFiniteSet(A)
  PROVE  Counted(A)
<1>1. \A S \in SUBSET A : IsFiniteSet(S)
  BY Zenon, FS_Subset
<1>2. \A S \in SUBSET A : Cardinality(S) \in Nat
  BY Zenon, <1>1, FS_CardinalityType
<1>3. \A S, T \in SUBSET A : S \subseteq T => Cardinality(S) <= Cardinality(T)
  BY Zenon, <1>1, FS_Subset
<1>4. \A S \in SUBSET A : \A x \in S : Cardinality(S \ {x}) = Cardinality(S) - 1
  BY Zenon, <1>1, FS_RemoveElement
<1> QED
  BY <1>2, <1>3, <1>4 DEF Counted

-----------------------------------------------------------------------------
(* A fresh process with empty tables.                                      *)
LEMMA ConsolidatorStarts == Init => ConsolidatorInv
<1> SUFFICES ASSUME Init
             PROVE  ConsolidatorInv
  BY Zenon
<1>1. NoRow \in RowStates
  BY Zenon DEF NoRow, RowStates, Somewhere, Phases
<1>2. Free \in [by : Runners \cup {"nobody", "orphan"}, stale : BOOLEAN] /\ ~Free.stale
  BY Zenon DEF Free
<1>3. conflict \in [Sessions -> Conflicts]
  BY Zenon DEF Init, Conflicts
<1>4. TablesTyped
  BY <1>1, <1>3, IdleSound DEF Init, TablesTyped
<1>5. CountsTyped
  BY <1>2 DEF Init, CountsTyped
<1>6. \A r \in Runners : run[r].pc = "idle"
  BY Zenon, IdleSound DEF Init
<1>7. OneRun /\ LookupSound
  BY Zenon, <1>6 DEF OneRun, InRun, LookupSound
<1>8. LocksSound
  BY Zenon, <1>2 DEF Init, LocksSound
<1>9. FactsOnce
  BY DEF Init, FactsOnce
<1>10. cf.maxTokens \in Nat
  BY <1>4, ScenarioAssumption DEF TablesTyped
<1>11. BudgetSound
  BY <1>10 DEF Init, BudgetSound
<1>12. Counts
  BY SetsAssumption, FiniteCounted DEF Counts
<1> QED
  BY <1>12, <1>4, <1>5, <1>7, <1>8, <1>9, <1>11 DEF ConsolidatorInv

(* The invariant holds at every moment.                                    *)
THEOREM ConsolidatorSafe == Spec => []ConsolidatorInv
BY ConsolidatorStarts, ConsolidatorStep, PTL DEF Spec

(* acquireLock: for any number of sessions and calls, every run between    *)
(* its lock and its release holds the lock of its session, until a slow    *)
(* run is taken over.                                                      *)
THEOREM OneRunSafe == Spec => []OneRun
<1>1. ConsolidatorInv => OneRun
  BY DEF ConsolidatorInv
<1> QED
  BY <1>1, ConsolidatorSafe, PTL

(* findExactTextDuplicate: however often crashes, failures and replays     *)
(* work its slice off again, a fact is stored a second time only after a   *)
(* lookup that failed or missed it, until a slow run is taken over.        *)
THEOREM FactsSafe == Spec => []FactsOnce
<1>1. ConsolidatorInv => FactsOnce
  BY DEF ConsolidatorInv
<1> QED
  BY <1>1, ConsolidatorSafe, PTL

(* BudgetTracker 'pause': the spending stays within one call per runner of *)
(* its ceiling.                                                            *)
THEOREM CeilingSafe == Spec => []CeilingHolds
<1>1. ConsolidatorInv => CeilingHolds
  <2> SUFFICES ASSUME ConsolidatorInv, cf.onExceed = "pause"
               PROVE  budget.spent <= cf.maxTokens + Cardinality(Runners)
    BY Zenon DEF CeilingHolds
  <2>1. budget.spent \in Nat /\ cf.maxTokens \in Nat /\ budget.paused \in BOOLEAN
    BY Zenon, ScenarioAssumption DEF ConsolidatorInv, TablesTyped
  <2>2. Spenders \subseteq Runners
    BY Zenon DEF Spenders
  <2>3. Counted(Runners)
    BY Zenon DEF ConsolidatorInv, Counts
  <2>4. Cardinality(Runners) \in Nat /\ Cardinality(Spenders) \in Nat
    BY Zenon, <2>2, <2>3 DEF Counted
  <2> QED
    BY <2>1, <2>4 DEF ConsolidatorInv, BudgetSound
<1> QED
  BY <1>1, ConsolidatorSafe, PTL

-----------------------------------------------------------------------------
(* At most one drain of the dead letters is under way at a time. *)
OneDrain == \A p, q \in Triggers : p = q

(* The parts of two lists put together. *)
LEMMA Joined ==
  ASSUME NEW M, NEW h \in Seq(M), NEW z \in Seq(M), NEW l \in Nat, Len(h) = l
  PROVE  /\ h \o z \in Seq(M) /\ Len(h \o z) = l + Len(z)
         /\ \A m \in 1..l : (h \o z)[m] = h[m]
         /\ \A m \in 1..Len(z) : (h \o z)[l + m] = z[m]
<1>1. h \o z \in Seq(M) /\ Len(h \o z) = l + Len(z)
  OBVIOUS
<1>2. ASSUME NEW m \in 1..l
      PROVE  (h \o z)[m] = h[m]
  BY <1>2
<1>3. ASSUME NEW m \in 1..Len(z)
      PROVE  (h \o z)[l + m] = z[m]
  BY <1>3
<1> QED
  BY <1>1, <1>2, <1>3

(* A slice split in two, or done with: the others stay listed.             *)
LEMMA ListedRest ==
  ASSUME NEW t \in Seq(SUBSET Messages), t # <<>>, NEW k, NEW n \in DOMAIN t, k \in t[n]
  PROVE  /\ k \in Head(t) \/ \E m \in DOMAIN Tail(t) : k \in Tail(t)[m]
         /\ \E m \in DOMAIN (Halves(Head(t)) \o Tail(t)) : k \in (Halves(Head(t)) \o Tail(t))[m]
<1>1. Head(t) = t[1] /\ Head(t) \subseteq Messages /\ Tail(t) \in Seq(SUBSET Messages) /\ Len(Tail(t)) = Len(t) - 1
  OBVIOUS
<1>2. PICK A, B : Halves(Head(t)) = <<A, B>> /\ A \subseteq Head(t) /\ B = Head(t) \ A
  BY Zenon DEF Halves
<1>3. PICK h : h = <<A, B>>
  BY Zenon
<1>4. h \in Seq(SUBSET Messages) /\ Len(h) = 2 /\ h[1] = A /\ h[2] = B
  BY <1>1, <1>2, <1>3
<1>5. PICK u : u = h \o Tail(t)
  BY Zenon
<1>6. /\ DOMAIN u = 1..(2 + Len(Tail(t))) /\ u[1] = A /\ u[2] = B
      /\ \A m \in 1..Len(Tail(t)) : u[2 + m] = Tail(t)[m]
  <2>1. PICK z \in Seq(SUBSET Messages) : z = Tail(t)
    BY Zenon, <1>1
  <2>2. Len(z) \in Nat /\ u = h \o z
    BY <1>5, <2>1
  <2>3. PICK l \in Nat : l = 2 /\ Len(h) = l
    BY Zenon, <1>4
  <2>4. /\ u \in Seq(SUBSET Messages) /\ Len(u) = l + Len(z)
        /\ (\A m \in 1..l : u[m] = h[m]) /\ (\A m \in 1..Len(z) : u[l + m] = z[m])
    <3>1. /\ h \o z \in Seq(SUBSET Messages) /\ Len(h \o z) = l + Len(z)
          /\ (\A m \in 1..l : (h \o z)[m] = h[m]) /\ (\A m \in 1..Len(z) : (h \o z)[l + m] = z[m])
      <4>1. h \in Seq(SUBSET Messages) /\ z \in Seq(SUBSET Messages)
        BY <1>4, <2>1
      <4>2. l \in Nat /\ Len(h) = l
        BY <2>3
      <4>3. PICK M : M = SUBSET Messages
        BY Zenon
      <4>4. h \in Seq(M) /\ z \in Seq(M)
        BY <4>1, <4>3
      <4>5. /\ h \o z \in Seq(M) /\ Len(h \o z) = l + Len(z)
            /\ (\A m \in 1..l : (h \o z)[m] = h[m]) /\ (\A m \in 1..Len(z) : (h \o z)[l + m] = z[m])
        BY <4>2, <4>4, Joined
      <4> QED
        BY <4>3, <4>5
    <3> QED
      BY <2>2, <3>1
  <2>5. u[1] = h[1] /\ u[2] = h[2]
    BY <2>3, <2>4
  <2>6. DOMAIN u = 1..(2 + Len(z)) /\ \A m \in 1..Len(z) : u[2 + m] = z[m]
    BY <2>3, <2>4
  <2> QED
    BY <1>4, <2>1, <2>5, <2>6
<1>7. CASE n = 1
  <2>1. k \in A \/ k \in B
    BY <1>1, <1>2, <1>7
  <2>2. 1 \in DOMAIN u /\ 2 \in DOMAIN u
    BY <1>1, <1>6
  <2>3. \E m \in DOMAIN u : k \in u[m]
    BY Zenon, <1>6, <2>1, <2>2
  <2> QED
    BY Zenon, <1>1, <1>2, <1>3, <1>5, <1>7, <2>3
<1>8. CASE n # 1
  <2>1. n - 1 \in 1..Len(Tail(t)) /\ Tail(t)[n - 1] = t[n]
    BY <1>1, <1>8
  <2>2. n + 1 \in DOMAIN u /\ u[n + 1] = t[n]
    BY <1>1, <1>6, <2>1
  <2>3. \E m \in DOMAIN Tail(t) : k \in Tail(t)[m]
    BY <1>1, <2>1
  <2>4. \E m \in DOMAIN u : k \in u[m]
    BY Zenon, <2>2
  <2> QED
    BY Zenon, <1>2, <1>3, <1>5, <2>3, <2>4
<1> QED
  BY Zenon, <1>7, <1>8

(* A run that is done with some of its messages and keeps the others.      *)
LEMMA CoverKept ==
  ASSUME AccountsKept, NEW v, v.sess \in Sessions, Covered(v), NEW x, x.sess = v.sess, x.batch = v.batch,
         \A k \in Messages : k \in v.facts \/ Listed(v, k) =>
                               Accounted(v.sess, k)' \/ k \in x.facts \/ Listed(x, k)
  PROVE  Covered(x)'
<1>1. Tip(v.batch) \in Messages
  BY TipOf DEF Covered
<1>2. \A k \in 1..Tip(v.batch) : k \in Messages
  BY <1>1, BoundsAssumption DEF Messages
<1>3. \A k \in 1..Tip(v.batch) : Accounted(v.sess, k)' \/ k \in x.facts \/ Listed(x, k)
  BY <1>2 DEF Covered, AccountsKept
<1> QED
  BY <1>3 DEF Covered, Listed

(* A run at work goes on with its batch, or to its end.                    *)
LEMMA GoesOn ==
  ASSUME ConsolidatorInv, CursorInv, NEW r \in Runners, NEW w \in SoundRuns, Moves(r, w),
         run[r].pc \in Working, w.pc \in Working \cup {"finish"}, w.queue = run[r].queue,
         w.pc \in Working => BatchSound(w)',
         AccountsKept, CursorsTyped', UNCHANGED <<cursor, rows>>
  PROVE  CursorInv'
<1>1. run[r].pc # "skip"
  BY Zenon DEF Working
<1>2. CASE w.pc \in Working
  BY <1>1, <1>2, WorkCursor
<1>3. CASE w.pc = "finish"
  <2>1. RowsKept /\ w.pc \notin Working \cup {"skip"} \cup Outside
    BY Zenon, <1>3 DEF RowsKept, Working, Outside
  <2>2. CallSound(r, w)'
    BY <1>1, <2>1, OutsideSound
  <2>3. (\A q \in Runners : CallSound(q, run[q])') /\ NothingSkipped'
    BY <2>1, <2>2, CursorStep
  <2> QED
    BY <2>3 DEF CursorInv
<1> QED
  BY <1>2, <1>3

(* A run that goes on after a slice, with its batch covered.               *)
LEMMA ExtractedGoesOn ==
  ASSUME NEW x \in RunStates, x.pc = "extract", NEW p \in BOOLEAN, Covered(x)', NEW w, w = Extracted(x, p)
  PROVE  w.queue = x.queue /\ w.pc \in Working \cup {"finish"} /\ (w.pc \in Working => BatchSound(w)')
<1>1. /\ SameBatch(x, w) /\ w.facts = x.facts
      /\ w.pc \in {"finish", "extract", "check", "episode", "advance"}
      /\ w.pc \in {"check", "episode", "advance"} => w.todo = <<>>
      /\ w.pc = "check" => w.facts # {}
      /\ w.pc \in {"episode", "advance"} => w.facts = {}
  BY Zenon, ExtractedBatch
<1>2. Covered(w)'
  BY <1>1 DEF SameBatch, Covered, Listed
<1> QED
  BY Zenon, <1>1, <1>2 DEF SameBatch, BatchSound, Working

(* extract: a slice is split, or its messages are facts or left out of     *)
(* their answer.                                                           *)
LEMMA ExtractCursor ==
  ASSUME ConsolidatorInv, CursorInv, ConsolidatorInv', NEW r \in Runners, extract(r)
  PROVE  CursorInv'
<1>1. TablesTyped /\ run[r] \in SoundRuns /\ run[r].pc = "extract" /\ run \in [Runners -> SoundRuns]
  BY Zenon DEF ConsolidatorInv, TablesTyped, extract
<1>2. PICK v \in RunStates : v = run[r] /\ v.sess \in Sessions /\ v.todo # <<>> /\ v.pc = "extract"
  BY Zenon, <1>1 DEF SoundRuns, Inside
<1>3. PICK S : S = Head(v.todo)
  BY Zenon
<1>4. v.todo \in Seq(SUBSET Messages) /\ S \subseteq Messages /\ v.facts \subseteq Messages
  BY SMTT(30), <1>2, <1>3 DEF RunStates
<1>5. PICK c \in {0, 1}, split \in BOOLEAN, got \in SUBSET S :
        /\ record(c)
        /\ unread' = [unread EXCEPT ![v.sess] = IF split \/ Throws(c) THEN @ ELSE @ \cup (S \ got)]
        /\ run' = [run EXCEPT ![r] =
             IF Throws(c) THEN [v EXCEPT !.pc = "finish", !.out = "failed"]
             ELSE IF split
               THEN Extracted([v EXCEPT !.todo = Halves(S) \o Tail(@)], budget'.paused)
             ELSE Extracted([v EXCEPT !.todo = Tail(@), !.facts = @ \cup got], budget'.paused)]
  BY ZenonT(30), <1>2, <1>3 DEF extract
<1>6. PICK w : w = IF Throws(c) THEN [v EXCEPT !.pc = "finish", !.out = "failed"]
                   ELSE IF split
                     THEN Extracted([v EXCEPT !.todo = Halves(S) \o Tail(@)], budget'.paused)
                   ELSE Extracted([v EXCEPT !.todo = Tail(@), !.facts = @ \cup got], budget'.paused)
  BY Zenon
<1>7. Moves(r, w) /\ UNCHANGED <<sent, cursor, rows, slice, wrote, cf>>
  BY ZenonT(30), <1>5, <1>6 DEF Moves, extract, tables
<1>8. w \in SoundRuns
  <2>1. run' \in [Runners -> SoundRuns] /\ run'[r] = w
    BY <1>1, <1>7 DEF ConsolidatorInv, TablesTyped, Moves
  <2> QED
    BY Zenon, <2>1
<1>9. unread \in [Sessions -> SUBSET Messages]
  BY Zenon DEF CursorInv, CursorsTyped
<1>10. unread' \in [Sessions -> SUBSET Messages] /\ \A s \in Sessions : unread[s] \subseteq unread'[s]
  BY <1>2, <1>4, <1>5, <1>9
<1>11. CursorsTyped'
  BY <1>7, <1>10 DEF CursorInv, CursorsTyped
<1>12. AccountsKept
  BY <1>7, <1>10, AccountedStays
<1>13. BatchSound(v) /\ budget'.paused \in BOOLEAN
  BY <1>1, <1>2 DEF CursorInv, CallSound, Working, ConsolidatorInv, TablesTyped
<1>14. w.queue = v.queue /\ w.pc \in Working \cup {"finish"} /\ (w.pc \in Working => BatchSound(w)')
  <2>1. CASE Throws(c)
    <3>1. PICK x : x = [v EXCEPT !.pc = "finish", !.out = "failed"]
      OBVIOUS
    <3>2. x.pc = "finish" /\ x.queue = v.queue
      BY <3>1 DEF RunStates
    <3> QED
      BY <1>6, <2>1, <3>1, <3>2 DEF Working
  <2>2. CASE ~Throws(c) /\ split
    <3>1. Halves(S) \in Seq(SUBSET Messages)
      BY <1>4 DEF Halves
    <3>2. PICK todo : todo = Halves(S) \o Tail(v.todo)
      BY Zenon
    <3>3. todo \in Seq(SUBSET Messages)
      BY <1>2, <1>4, <3>1, <3>2
    <3>4. PICK x : x = [v EXCEPT !.todo = todo]
      BY Zenon
    <3>5. /\ x \in RunStates /\ x.pc = "extract" /\ x.sess = v.sess /\ x.batch = v.batch
          /\ x.queue = v.queue /\ x.facts = v.facts /\ x.todo = todo
      BY ZenonT(30), <1>2, <3>3, <3>4 DEF RunStates
    <3>6. w = Extracted(x, budget'.paused)
      BY <1>6, <2>2, <3>2, <3>4
    <3>7. \A k \in Messages : Listed(v, k) => Listed(x, k)
      <4> SUFFICES ASSUME NEW k \in Messages, NEW n \in DOMAIN v.todo, k \in v.todo[n]
                   PROVE  Listed(x, k)
        BY Zenon DEF Listed
      <4>1. v.todo \in Seq(SUBSET Messages) /\ v.todo # <<>> /\ S = Head(v.todo)
        BY <1>2, <1>3, <1>4
      <4>2. \E m \in DOMAIN (Halves(Head(v.todo)) \o Tail(v.todo)) : k \in (Halves(Head(v.todo)) \o Tail(v.todo))[m]
        BY <4>1, ListedRest, Zenon
      <4> QED
        BY ZenonT(30), <3>2, <3>5, <4>1, <4>2 DEF Listed
    <3>8. Covered(x)'
      BY SMTT(30), <1>2, <1>12, <1>13, <3>5, <3>7, CoverKept DEF BatchSound
    <3> QED
      BY <1>13, <3>5, <3>6, <3>8, ExtractedGoesOn
  <2>3. CASE ~Throws(c) /\ ~split
    <3>1. PICK todo, facts : todo = Tail(v.todo) /\ facts = v.facts \cup got
      BY Zenon
    <3>2. todo \in Seq(SUBSET Messages) /\ facts \subseteq Messages
      BY <1>2, <1>4, <3>1
    <3>3. PICK x : x = [v EXCEPT !.todo = todo, !.facts = facts]
      BY Zenon
    <3>4. /\ x \in RunStates /\ x.pc = "extract" /\ x.sess = v.sess /\ x.batch = v.batch
          /\ x.queue = v.queue /\ x.facts = facts /\ x.todo = todo
      BY ZenonT(30), <1>2, <3>2, <3>3 DEF RunStates
    <3>5. x = [v EXCEPT !.todo = Tail(@), !.facts = @ \cup got]
      BY <3>1, <3>3
    <3>6. w = Extracted(x, budget'.paused)
      BY <1>6, <2>3, <3>5
    <3>7. \A k \in Messages : Listed(v, k) => k \in S \/ Listed(x, k)
      BY <1>2, <1>3, <1>4, <3>1, <3>4, ListedRest DEF Listed
    <3>8. \A k \in S : k \in x.facts \/ Accounted(v.sess, k)'
      <4>1. S \ got \subseteq unread'[v.sess]
        BY <1>2, <1>5, <1>9, <2>3
      <4>2. \A k \in S \ got : Accounted(v.sess, k)'
        BY Zenon, <4>1 DEF Accounted
      <4> QED
        BY Zenon, <3>1, <3>4, <4>2
    <3>9. \A k \in Messages : k \in v.facts \/ Listed(v, k) =>
                                Accounted(v.sess, k)' \/ k \in x.facts \/ Listed(x, k)
      BY SMTT(30), <3>1, <3>4, <3>7, <3>8
    <3>10. Covered(x)'
      BY <1>2, <1>12, <1>13, <3>4, <3>9, CoverKept DEF BatchSound
    <3> QED
      BY SMTT(30), <1>13, <3>4, <3>6, <3>10, ExtractedGoesOn
  <2> QED
    BY <2>1, <2>2, <2>3
<1> QED
  BY <1>1, <1>2, <1>7, <1>8, <1>11, <1>12, <1>14, GoesOn DEF Working

(* A run done with a fact that is stored.                                  *)
LEMMA WrittenGoesOn ==
  ASSUME TablesTyped, AccountsKept, NEW v \in RunStates, v.sess \in Sessions, BatchSound(v),
         v.pc \in {"check", "remember"}, NEW w, w = Written(v), Accounted(v.sess, First(v.facts))'
  PROVE  w.queue = v.queue /\ w.pc \in Working /\ BatchSound(w)'
<1>1. /\ SameBatch(v, w) /\ w.facts = v.facts \ {First(v.facts)}
      /\ w.pc \in {"check", "episode", "advance"}
      /\ w.pc = "check" => w.facts # {}
      /\ w.pc \in {"episode", "advance"} => w.facts = {}
  BY Zenon, WrittenBatch
<1>2. \A k \in Messages : k \in v.facts \/ Listed(v, k) => Accounted(v.sess, k)' \/ k \in w.facts \/ Listed(w, k)
  BY Zenon, <1>1 DEF SameBatch, Listed
<1>3. Covered(v) /\ v.todo = <<>>
  BY Zenon DEF BatchSound
<1>4. Covered(w)'
  BY SMTT(30), <1>1, <1>2, <1>3, CoverKept DEF SameBatch
<1> QED
  BY <1>1, <1>3, <1>4 DEF SameBatch, BatchSound, Working

(* findExactTextDuplicate: a fact that is stored is accounted for.         *)
LEMMA LookupCursor ==
  ASSUME ConsolidatorInv, CursorInv, ConsolidatorInv', NEW r \in Runners, findExactTextDuplicate(r)
  PROVE  CursorInv'
<1>1. TablesTyped /\ run[r] \in SoundRuns /\ run[r].pc = "check" /\ run \in [Runners -> SoundRuns]
  BY Zenon DEF ConsolidatorInv, TablesTyped, findExactTextDuplicate
<1>2. PICK v \in RunStates : v = run[r] /\ v.sess \in Sessions /\ v.pc = "check"
  BY <1>1 DEF SoundRuns, Inside
<1>3. UNCHANGED <<cf, sent, cursor, rows, slice, wrote, unread>>
  BY Zenon DEF findExactTextDuplicate, tables, history
<1>4. BatchSound(v)
  BY Zenon, <1>2 DEF CursorInv, CallSound, Working
<1>5. AccountsKept
  BY <1>3, AccountedStays
<1>6. CursorsTyped'
  BY Zenon, <1>3 DEF CursorInv, CursorsTyped
<1>7. PICK w : w = IF wrote[v.sess][First(v.facts)] > 0 THEN Written(v) ELSE [v EXCEPT !.pc = "remember"]
  BY ZenonT(30)
<1>8. Moves(r, w)
  BY <1>2, <1>3, <1>7 DEF Moves, findExactTextDuplicate
<1>9. w \in SoundRuns
  <2>1. run' \in [Runners -> SoundRuns] /\ run'[r] = w
    BY <1>1, <1>8 DEF ConsolidatorInv, TablesTyped, Moves
  <2> QED
    BY Zenon, <2>1
<1>10. w.queue = v.queue /\ w.pc \in Working /\ BatchSound(w)'
  <2>1. CASE wrote[v.sess][First(v.facts)] > 0
    <3>1. Accounted(v.sess, First(v.facts))'
      BY <1>3, <2>1 DEF Accounted
    <3>2. w = Written(v)
      BY <1>7, <2>1
    <3> QED
      BY <1>1, <1>2, <1>4, <1>5, <3>1, <3>2, WrittenGoesOn
  <2>2. CASE ~(wrote[v.sess][First(v.facts)] > 0)
    <3>1. w = [v EXCEPT !.pc = "remember"]
      BY <1>7, <2>2
    <3>2. w.pc = "remember" /\ w.queue = v.queue /\ w.facts = v.facts /\ SameBatch(v, w)
      BY Zenon, <3>1 DEF RunStates, SameBatch
    <3>3. BatchSound(v)'
      BY SMTT(30), <1>2, <1>4, <1>5, BatchStays
    <3>4. BatchSound(w)'
      BY <1>2, <3>2, <3>3 DEF BatchSound, Covered, Listed, SameBatch
    <3> QED
      BY <3>2, <3>4 DEF Working
  <2> QED
    BY <2>1, <2>2
<1> QED
  BY <1>2, <1>3, <1>5, <1>6, <1>8, <1>9, <1>10, GoesOn DEF Working

(* A lookup that misses: the run goes on with the facts it has.            *)
LEMMA MissCursor ==
  ASSUME ConsolidatorInv, CursorInv, ConsolidatorInv', NEW r \in Runners, lookupMisses(r)
  PROVE  CursorInv'
<1>1. TablesTyped /\ run[r] \in SoundRuns /\ run[r].pc = "check" /\ run \in [Runners -> SoundRuns]
  BY Zenon DEF ConsolidatorInv, TablesTyped, lookupMisses
<1>2. PICK v \in RunStates : v = run[r] /\ v.sess \in Sessions /\ v.pc = "check"
  BY <1>1 DEF SoundRuns, Inside
<1>3. UNCHANGED <<cf, sent, cursor, rows, slice, wrote, unread>>
  BY Zenon DEF lookupMisses, tables
<1>4. BatchSound(v)
  BY Zenon, <1>2 DEF CursorInv, CallSound, Working
<1>5. AccountsKept
  BY <1>3, AccountedStays
<1>6. CursorsTyped'
  BY Zenon, <1>3 DEF CursorInv, CursorsTyped
<1>7. PICK w : w = [v EXCEPT !.pc = "remember"]
  BY Zenon
<1>8. Moves(r, w)
  BY Zenon, <1>1, <1>2, <1>3, <1>7 DEF Moves, lookupMisses
<1>9. w \in SoundRuns
  <2>1. run' \in [Runners -> SoundRuns] /\ run'[r] = w
    BY <1>1, <1>8 DEF ConsolidatorInv, TablesTyped, Moves
  <2> QED
    BY Zenon, <2>1
<1>10. w.pc = "remember" /\ w.queue = v.queue /\ w.facts = v.facts /\ SameBatch(v, w)
  BY Zenon, <1>7 DEF RunStates, SameBatch
<1>11. BatchSound(v)'
  BY SMTT(30), <1>2, <1>4, <1>5, BatchStays
<1>12. BatchSound(w)'
  BY <1>2, <1>10, <1>11 DEF BatchSound, Covered, Listed, SameBatch
<1> QED
  BY <1>2, <1>3, <1>5, <1>6, <1>8, <1>9, <1>10, <1>12, GoesOn DEF Working

(* remember(): the fact is stored.                                         *)
LEMMA RememberCursor ==
  ASSUME ConsolidatorInv, CursorInv, ConsolidatorInv', NEW r \in Runners, remember(r)
  PROVE  CursorInv'
<1>1. TablesTyped /\ run[r] \in SoundRuns /\ run[r].pc = "remember" /\ run \in [Runners -> SoundRuns]
  BY Zenon DEF ConsolidatorInv, TablesTyped, remember
<1>2. PICK v \in RunStates : v = run[r] /\ v.sess \in Sessions /\ v.pc = "remember"
  BY Zenon, <1>1 DEF SoundRuns, Inside
<1>3. UNCHANGED <<cf, sent, cursor, rows, slice, unread>>
  BY Zenon DEF remember, tables
<1>4. BatchSound(v) /\ v.facts # {}
  BY Zenon, <1>2 DEF CursorInv, CallSound, Working, BatchSound
<1>5. PICK f \in Messages : f = First(v.facts)
  BY <1>2, <1>4 DEF First, RunStates
<1>6. wrote \in [Sessions -> [Messages -> 0..2]]
  BY Zenon DEF ConsolidatorInv, CountsTyped
<1>7. wrote' = [wrote EXCEPT ![v.sess][f] = IF @ < 2 THEN @ + 1 ELSE @]
  BY SMTT(30), <1>2, <1>5 DEF remember
<1>8. wrote'[v.sess][f] > 0
  <2>1. wrote[v.sess][f] \in 0..2
    BY SMTT(30), <1>2, <1>6
  <2>2. wrote'[v.sess][f] = IF wrote[v.sess][f] < 2 THEN wrote[v.sess][f] + 1 ELSE wrote[v.sess][f]
    BY <1>2, <1>6, <1>7
  <2> QED
    BY <2>1, <2>2
<1>9. \A s \in Sessions, k \in Messages : wrote[s][k] > 0 => wrote'[s][k] > 0
  <2>1. \A s \in Sessions, k \in Messages : ~(s = v.sess /\ k = f) => wrote'[s][k] = wrote[s][k]
    BY <1>6, <1>7
  <2> QED
    BY <1>8, <2>1
<1>10. AccountsKept
  BY <1>3, <1>9, AccountedStays
<1>11. CursorsTyped'
  BY Zenon, <1>3 DEF CursorInv, CursorsTyped
<1>12. PICK w : w = Written(v)
  BY Zenon
<1>13. Moves(r, w)
  BY <1>2, <1>3, <1>12 DEF Moves, remember
<1>14. w \in SoundRuns
  BY <1>1, <1>2, <1>12, WrittenSound
<1>15. Accounted(v.sess, First(v.facts))'
  BY <1>5, <1>8 DEF Accounted
<1>16. w.queue = v.queue /\ w.pc \in Working /\ BatchSound(w)'
  BY <1>1, <1>2, <1>4, <1>10, <1>12, <1>15, WrittenGoesOn
<1> QED
  BY <1>2, <1>3, <1>10, <1>11, <1>13, <1>14, <1>16, GoesOn DEF Working

(* The episode call.                                                       *)
LEMMA EpisodeCursor ==
  ASSUME ConsolidatorInv, CursorInv, ConsolidatorInv', NEW r \in Runners, formEpisode(r)
  PROVE  CursorInv'
<1>1. run[r] \in SoundRuns /\ run[r].pc = "episode" /\ run \in [Runners -> SoundRuns]
  BY Zenon DEF ConsolidatorInv, TablesTyped, formEpisode
<1>2. PICK v \in RunStates : v = run[r] /\ v.sess \in Sessions /\ v.pc = "episode"
  BY Zenon, <1>1 DEF SoundRuns, Inside
<1>3. UNCHANGED <<cf, sent, cursor, rows, slice, wrote, unread>>
  BY Zenon DEF formEpisode, tables, history
<1>4. BatchSound(v) /\ v.facts = {} /\ v.todo = <<>>
  BY <1>2 DEF CursorInv, CallSound, Working, BatchSound
<1>5. AccountsKept
  BY <1>3, AccountedStays
<1>6. CursorsTyped'
  BY <1>3 DEF CursorInv, CursorsTyped
<1>7. PICK pc, out : pc = (IF Throws(1) THEN "finish" ELSE "advance")
                     /\ out = IF Throws(1) THEN "failed" ELSE v.out
  BY Zenon
<1>8. PICK w : w = [v EXCEPT !.pc = pc, !.out = out]
  BY Zenon
<1>9. Moves(r, w)
  BY Zenon, <1>1, <1>2, <1>3, <1>7, <1>8 DEF Moves, formEpisode, RunStates
<1>10. w \in SoundRuns
  <2>1. run' \in [Runners -> SoundRuns] /\ run'[r] = w
    BY <1>1, <1>9 DEF ConsolidatorInv, TablesTyped, Moves
  <2> QED
    BY <2>1
<1>11. w.pc = pc /\ w.queue = v.queue /\ w.facts = v.facts /\ SameBatch(v, w)
  BY Zenon, <1>8 DEF RunStates, SameBatch
<1>12. BatchSound(v)'
  BY <1>2, <1>4, <1>5, BatchStays
<1>13. w.pc \in Working => BatchSound(w)'
  BY <1>4, <1>7, <1>11, <1>12 DEF BatchSound, Covered, Listed, SameBatch, Working
<1> QED
  BY <1>2, <1>3, <1>5, <1>6, <1>7, <1>9, <1>10, <1>11, <1>13, GoesOn DEF Working

-----------------------------------------------------------------------------
(* A cursor moves to a message up to which all is accounted for.           *)
LEMMA CursorMoves ==
  ASSUME CursorInv, NEW s \in Sessions, NEW t \in Messages, cursor' = [cursor EXCEPT ![s] = t],
         \A k \in 1..t : Accounted(s, k), UNCHANGED <<cf, rows, sent, slice, wrote, unread>>
  PROVE  AccountsKept /\ RowsKept /\ CursorsTyped' /\ NothingSkipped'
<1>1. \A q \in Sessions : \A k : Accounted(q, k)' <=> Accounted(q, k)
  BY Zenon DEF Accounted
<1>2. AccountsKept /\ RowsKept
  BY Zenon, <1>1 DEF AccountsKept, RowsKept
<1>3. MaxMessages \in Nat /\ t \in 0..MaxMessages
  BY BoundsAssumption DEF Messages
<1>4. cursor \in [Sessions -> 0..MaxMessages]
  BY Zenon DEF CursorInv, CursorsTyped
<1>5. CursorsTyped'
  BY <1>3, <1>4 DEF CursorInv, CursorsTyped
<1>6. NothingSkipped'
  <2> SUFFICES ASSUME NEW q \in Sessions, NEW k \in 1..cursor'[q]
               PROVE  Accounted(q, k)
    BY Zenon, <1>1 DEF NothingSkipped
  <2>1. CASE q = s
    BY <1>4, <2>1
  <2>2. CASE q # s
    BY <1>4, <2>2 DEF CursorInv, NothingSkipped
  <2> QED
    BY <2>1, <2>2
<1> QED
  BY <1>2, <1>5, <1>6

(* advance: the batch is accounted for.                                    *)
LEMMA AdvanceCursor ==
  ASSUME ConsolidatorInv, CursorInv, NEW r \in Runners, advance(r)
  PROVE  CursorInv'
<1>1. run[r] \in SoundRuns /\ run[r].pc = "advance" /\ run \in [Runners -> SoundRuns]
  BY Zenon DEF ConsolidatorInv, TablesTyped, advance
<1>2. PICK v \in RunStates : v = run[r] /\ v.sess \in Sessions /\ v.pc = "advance" /\ v.out # "none"
  BY Zenon, <1>1 DEF SoundRuns, Inside
<1>3. UNCHANGED <<cf, sent, rows, slice, wrote, unread>>
  BY Zenon DEF advance, history
<1>4. BatchSound(v)
  BY Zenon, <1>2 DEF CursorInv, CallSound, Working
<1>5. v.facts = {} /\ v.todo = <<>> /\ v.batch \in Slices /\ v.batch # {}
  BY <1>2, <1>4 DEF BatchSound, Covered
<1>6. PICK t : t = Tip(v.batch)
  BY Zenon
<1>7. t \in Messages
  BY <1>5, <1>6, TipOf
<1>8. \A k : ~Listed(v, k)
  BY <1>5 DEF Listed
<1>9. \A k \in 1..t : Accounted(v.sess, k)
  BY <1>4, <1>5, <1>6, <1>8 DEF BatchSound, Covered
<1>10. cursor' = [cursor EXCEPT ![v.sess] = t]
  BY <1>2, <1>6 DEF advance
<1>11. AccountsKept /\ RowsKept /\ CursorsTyped' /\ NothingSkipped'
  BY Zenon, <1>2, <1>3, <1>7, <1>9, <1>10, CursorMoves
<1>12. PICK w : w = [v EXCEPT !.pc = "finish"]
  BY Zenon
<1>13. w \in RunStates /\ w.pc = "finish" /\ w.queue = v.queue /\ w.sess = v.sess /\ w.out = v.out
  BY Zenon, <1>12 DEF RunStates, Inside
<1>14. w \in SoundRuns /\ w.pc \notin Working \cup {"skip"} \cup Outside
  BY <1>2, <1>13 DEF SoundRuns, Working, Outside
<1>15. Moves(r, w)
  BY <1>1, <1>2, <1>3, <1>12 DEF Moves, advance
<1>16. CallSound(r, w)'
  BY <1>2, <1>11, <1>13, <1>14, OutsideSound
<1>17. \A q \in Runners : CallSound(q, run[q])'
  BY <1>11, <1>15, <1>16, CursorStep
<1> QED
  BY <1>11, <1>17 DEF CursorInv

(* The end of a phase: a new row is one that no drain holds.               *)
LEMMA FinishCursor ==
  ASSUME ConsolidatorInv, CursorInv, NEW r \in Runners, finish(r)
  PROVE  CursorInv'
<1>1. TablesTyped /\ run[r] \in SoundRuns /\ run[r].pc = "finish" /\ run \in [Runners -> SoundRuns]
  BY Zenon DEF ConsolidatorInv, TablesTyped, finish
<1>2. run[r] \in RunStates /\ run[r].sess \in Sessions /\ run[r].out \in Outcomes
  BY Zenon, <1>1 DEF SoundRuns, RunStates, Inside
<1>3. PICK w : w = After(run[r], run[r].out)
  BY Zenon
<1>4. /\ w \in SoundRuns /\ w.pc \in Outside \ {"skip"} /\ (w.queue = run[r].queue \/ w.queue = <<>>)
      /\ w.facts = {}
  BY SMTT(30), <1>1, <1>2, <1>3, AfterSound, AfterQueue
<1>5. Moves(r, w) /\ w.pc \notin Working \cup {"skip"}
  BY <1>3, <1>4 DEF Moves, finish, Working, Outside
<1>6. UNCHANGED <<cf, sent, cursor, wrote, unread>> /\ enqueueFailedBatch(run[r])
  BY Zenon DEF finish, history
<1>7. CursorsTyped
  BY Zenon DEF CursorInv
<1>8. RowsKept /\ \A i \in RowIds : rows'[i].ids \in Slices
  <2>1. CASE rows' = rows
    BY Zenon, <1>7, <2>1 DEF RowsKept, CursorsTyped
  <2>2. CASE rows' # rows
    <3>1. /\ \E i \in RowIds : Unclaimed(i)
          /\ rows' = [rows EXCEPT ![CHOOSE i \in RowIds : Unclaimed(i)] = Enqueued(run[r].sess, run[r].phase)]
      BY Zenon, <1>6, <2>2 DEF enqueueFailedBatch
    <3>2. PICK i \in RowIds : i = (CHOOSE j \in RowIds : Unclaimed(j)) /\ Unclaimed(i)
      BY Zenon, <3>1
    <3>3. PICK x : x = Enqueued(run[r].sess, run[r].phase)
      BY Zenon
    <3>4. x.ids = slice[run[r].sess]
      BY Zenon, <3>3 DEF Enqueued, NoRow
    <3>5. x.ids \in Slices
      BY SMTT(30), <1>2, <1>7, <3>4 DEF CursorsTyped
    <3>6. rows' = [rows EXCEPT ![i] = x] /\ rows[i].st = "none"
      BY ZenonT(30), <3>1, <3>2, <3>3 DEF Unclaimed
    <3> QED
      BY SMTT(30), <1>1, <1>7, <3>5, <3>6 DEF RowsKept, CursorsTyped, TablesTyped
  <2> QED
    BY <2>1, <2>2
<1>9. AccountsKept
  BY <1>6, <1>8, AccountedStays DEF RowsKept
<1>10. CursorsTyped'
  <2>1. slice' \in [Sessions -> Slices]
    BY <1>2, <1>7, EmptySlice DEF finish, CursorsTyped
  <2> QED
    BY <1>6, <1>7, <1>8, <2>1 DEF CursorsTyped
<1>11. run[r].pc # "skip"
  BY Zenon, <1>1
<1>12. CallSound(r, w)'
  BY SMTT(30), <1>4, <1>5, <1>8, <1>11, OutsideSound
<1>13. (\A q \in Runners : CallSound(q, run[q])') /\ NothingSkipped'
  BY <1>5, <1>6, <1>8, <1>9, <1>12, CursorStep
<1> QED
  BY <1>10, <1>13 DEF CursorInv

-----------------------------------------------------------------------------
(* The rows of a queue: the first is its head, the others are its tail.    *)
LEMMA QueueParts ==
  ASSUME NEW v \in RunStates, v.queue # <<>>
  PROVE  /\ v.queue \in Seq(Claims) /\ Tail(v.queue) \in Seq(Claims) /\ Head(v.queue) \in Claims
         /\ 1 \in DOMAIN v.queue /\ Head(v.queue) = v.queue[1] /\ Head(v.queue).id \in RowIds
         /\ \A n \in DOMAIN Tail(v.queue) : /\ n \in Nat \ {0} /\ n + 1 \in DOMAIN v.queue
                                            /\ Tail(v.queue)[n] = v.queue[n + 1]
<1>1. v.queue \in Seq(Claims)
  BY Zenon DEF RunStates
<1>2. Tail(v.queue) \in Seq(Claims) /\ Head(v.queue) \in Claims /\ 1 \in DOMAIN v.queue /\ Head(v.queue) = v.queue[1]
  BY <1>1
<1>3. Head(v.queue).id \in RowIds
  BY Zenon, <1>2 DEF Claims
<1>4. \A n \in DOMAIN Tail(v.queue) : /\ n \in Nat \ {0} /\ n + 1 \in DOMAIN v.queue
                                      /\ Tail(v.queue)[n] = v.queue[n + 1]
  BY <1>1
<1> QED
  BY <1>1, <1>2, <1>3, <1>4

(* A drain goes on with the rows that are left, which are due.             *)
LEMMA DrainCursor ==
  ASSUME ConsolidatorInv, CursorInv, NEW r \in Runners, run[r].pc \in {"settle", "skip"}, NEW w,
         w = Drain(run[r], Tail(run[r].queue)),
         \A i \in RowIds : i # Head(run[r].queue).id => rows'[i] = rows[i]
  PROVE  w \in SoundRuns /\ w.pc \in Outside \ {"skip"} /\ CallSound(r, w)'
<1>1. run[r] \in SoundRuns /\ CallSound(r, run[r])
  BY Zenon DEF ConsolidatorInv, TablesTyped, CursorInv
<1>2. PICK v \in RunStates : v = run[r] /\ v.sess \in Sessions /\ v.queue # <<>>
  BY Zenon, <1>1 DEF SoundRuns
<1>3. v.facts = {} /\ QueueSound(r, v)
  BY <1>1, <1>2 DEF CallSound, Outside
<1>4. PICK q : q = Tail(v.queue)
  BY ZenonT(30)
<1>5. /\ q \in Seq(Claims) /\ 1 \in DOMAIN v.queue /\ Head(v.queue) = v.queue[1]
      /\ \A n \in DOMAIN q : n \in Nat \ {0} /\ n + 1 \in DOMAIN v.queue /\ q[n] = v.queue[n + 1]
  BY <1>2, <1>4, QueueParts
<1>6. w = Drain(v, q)
  BY <1>2, <1>4
<1>7. w \in SoundRuns /\ w.pc \in Outside \ {"skip"} /\ (w.queue = q \/ w.queue = <<>>) /\ w.facts = {}
  BY SMTT(30), <1>2, <1>3, <1>5, <1>6, DrainSound, DrainQueue
<1>8. \A n \in DOMAIN q : /\ n + 1 # 1 /\ q[n].id \in RowIds /\ q[n].id # Head(v.queue).id
                          /\ RowSound(v, n + 1)
  <2>1. \A n \in DOMAIN v.queue : v.queue[n].id \in RowIds
    BY Zenon, <1>2, ClaimedRows
  <2>2. \A n \in DOMAIN q : n + 1 # 1
    BY SMTT(30), <1>5
  <2> QED
    BY <1>3, <1>5, <2>1, <2>2 DEF QueueSound
<1>9. \A n \in DOMAIN q : /\ q[n].ids \in Slices /\ rows'[q[n].id].ids = q[n].ids
                          /\ rows'[q[n].id].sess = q[n].sess /\ rows'[q[n].id].st = "due"
  BY SMTT(30), <1>2, <1>5, <1>8 DEF RowSound
<1>10. QueueSound(r, w)'
  <2>1. CASE w.queue = <<>>
    <3>1. DOMAIN w.queue = {}
      BY <2>1
    <3> QED
      BY <2>1, <3>1 DEF QueueSound
  <2>2. CASE w.queue = q
    <3>1. \A n \in DOMAIN q : RowSound(w, n)'
      BY ZenonT(30), <1>7, <1>9, <2>2 DEF RowSound
    <3>2. \A m, n \in DOMAIN q : q[m].id = q[n].id => m = n
      <4> SUFFICES ASSUME NEW m \in DOMAIN q, NEW n \in DOMAIN q, q[m].id = q[n].id
                   PROVE  m = n
        BY Zenon
      <4>1. m + 1 = n + 1
        BY <1>3, <1>5 DEF QueueSound
      <4>2. m \in Nat /\ n \in Nat
        BY Zenon, <1>5
      <4> QED
        BY <4>1, <4>2
    <3>3. r \in Triggers
      BY Zenon, <1>2, <1>3 DEF QueueSound
    <3> QED
      BY SMTT(30), <2>2, <3>1, <3>2, <3>3 DEF QueueSound
  <2> QED
    BY SMTT(30), <1>7, <2>1, <2>2
<1>11. w.pc \notin Working \cup {"skip"}
  BY Zenon, <1>7 DEF Working, Outside
<1>12. CallSound(r, w)'
  BY <1>7, <1>10, <1>11 DEF CallSound
<1> QED
  BY Zenon, <1>7, <1>12

(* The only drain: no other call holds rows.                               *)
LEMMA OnlyDrain ==
  ASSUME CursorInv, OneDrain, NEW r \in Runners, run[r].queue # <<>>
  PROVE  \A q \in Runners \ {r} : run[q].queue = <<>>
BY DEF CursorInv, CallSound, QueueSound, OneDrain

(* #skipPoisonSlice: the cursor passes an exhausted slice.                 *)
LEMMA SkipCursor ==
  ASSUME ConsolidatorInv, CursorInv, NEW r \in Runners, skipPoisonSlice(r)
  PROVE  CursorInv'
<1>1. run[r] \in SoundRuns /\ run[r].pc = "skip" /\ CallSound(r, run[r])
  BY Zenon DEF ConsolidatorInv, TablesTyped, CursorInv, skipPoisonSlice
<1>2. PICK v \in RunStates : v = run[r] /\ v.sess \in Sessions /\ v.queue # <<>> /\ v.pc = "skip"
  BY Zenon, <1>1 DEF SoundRuns
<1>3. QueueSound(r, v) /\ SkipSound(v)
  BY <1>1, <1>2 DEF CallSound
<1>4. Head(v.queue) = v.queue[1] /\ 1 \in DOMAIN v.queue
  BY <1>2, QueueParts
<1>5. PICK t : t = Tip(Head(v.queue).ids)
  BY Zenon
<1>6. Head(v.queue).ids \in Slices /\ Head(v.queue).ids # {}
  BY <1>3, <1>4 DEF QueueSound, RowSound, SkipSound
<1>7. t \in Messages
  BY <1>5, <1>6, TipOf
<1>8. \A k \in 1..t : Accounted(v.sess, k)
  BY Zenon, <1>3, <1>5 DEF SkipSound
<1>9. UNCHANGED <<cf, rows, sent, slice, wrote, unread>>
  BY Zenon DEF skipPoisonSlice, history
<1>10. cursor' = [cursor EXCEPT ![v.sess] = t]
  BY Zenon, <1>2, <1>5 DEF skipPoisonSlice
<1>11. AccountsKept /\ RowsKept /\ CursorsTyped' /\ NothingSkipped'
  BY ZenonT(30), <1>2, <1>7, <1>8, <1>9, <1>10, CursorMoves
<1>12. PICK w : w = Drain(run[r], Tail(run[r].queue))
  BY Zenon
<1>13. CallSound(r, w)'
  BY <1>1, <1>9, <1>12, DrainCursor
<1>14. Moves(r, w)
  BY <1>9, <1>12 DEF Moves, skipPoisonSlice
<1>15. \A q \in Runners : CallSound(q, run[q])'
  BY SMTT(30), <1>11, <1>13, <1>14, CursorStep
<1> QED
  BY <1>11, <1>15 DEF CursorInv

(* A slice that holds the next message: with the slice listed on an        *)
(* exhausted row, all up to its tip is accounted for.                      *)
LEMMA SkipsAccounted ==
  ASSUME CursorInv, AccountsKept, NEW s \in Sessions, NEW row, row.ids \in Slices, SkipsSlice(s, row),
         NEW i \in RowIds, rows'[i].st = "exhausted", rows'[i].sess = s, rows'[i].ids = row.ids
  PROVE  row.ids # {} /\ \A k \in 1..Tip(row.ids) : Accounted(s, k)'
<1>1. row.ids # {} /\ listMessagesSince(s, 1) # {} /\ listMessagesSince(s, 1) \subseteq row.ids
  BY Zenon DEF SkipsSlice
<1>2. PICK c \in Nat : c = cursor[s]
  BY BoundsAssumption DEF CursorInv, CursorsTyped
<1>3. PICK j \in Messages : j \in row.ids /\ c < j /\ j <= c + 1
  BY Zenon, <1>1, <1>2 DEF listMessagesSince
<1>4. PICK a \in Nat, b \in Nat : row.ids = {k \in Messages : a < k /\ k <= b}
  BY Zenon DEF Slices
<1>5. PICK t \in Messages : t = Tip(row.ids) /\ t \in row.ids
  BY <1>1, TipOf
<1>6. MaxMessages \in Nat
  BY Zenon, BoundsAssumption
<1>7. ASSUME NEW k \in 1..t
      PROVE  Accounted(s, k)'
  <2>1. k \in Messages
    BY <1>6 DEF Messages
  <2>2. CASE k <= c
    <3>1. k \in 1..cursor[s]
      BY SMTT(30), <1>2, <2>2, <1>6 DEF Messages
    <3> QED
      BY <2>1, <3>1 DEF CursorInv, NothingSkipped, AccountsKept
  <2>3. CASE ~(k <= c)
    <3>1. a < j /\ j <= k /\ k <= t /\ t <= b
      BY <1>2, <1>3, <1>4, <1>5, <1>6, <2>1, <2>3 DEF Messages
    <3>2. k \in row.ids
      BY <1>3, <1>4, <1>6, <2>1, <3>1 DEF Messages
    <3> QED
      BY Zenon, <3>2 DEF Accounted
  <2> QED
    BY <2>2, <2>3
<1> QED
  BY <1>1, <1>5, <1>7

(* drainDlq settles the row of its replay: no other drain holds it.        *)
LEMMA SettleCursor ==
  ASSUME ConsolidatorInv, CursorInv, OneDrain, NEW r \in Runners, settle(r)
  PROVE  CursorInv'
<1>1. TablesTyped /\ run[r] \in SoundRuns /\ run[r].pc = "settle" /\ CallSound(r, run[r])
  BY Zenon DEF ConsolidatorInv, TablesTyped, CursorInv, settle
<1>2. PICK v \in RunStates : /\ v = run[r] /\ v.sess \in Sessions /\ v.queue # <<>> /\ v.pc = "settle"
                             /\ v.out \in Outcomes
  BY Zenon, <1>1 DEF SoundRuns, RunStates
<1>3. PICK row : row = Head(v.queue)
  BY Zenon
<1>4. QueueSound(r, v) /\ v.facts = {}
  BY <1>1, <1>2 DEF CallSound, Outside
<1>5. row = v.queue[1] /\ 1 \in DOMAIN v.queue /\ row \in Claims /\ row.id \in RowIds
  BY <1>2, <1>3, QueueParts
<1>6. row.rc \in Nat
  BY Zenon, <1>5 DEF Claims
<1>7. /\ row.ids \in Slices /\ rows[row.id].ids = row.ids /\ rows[row.id].sess = row.sess
      /\ rows[row.id].st = "due"
  BY ZenonT(30), <1>2, <1>4, <1>5 DEF QueueSound, RowSound
<1>8. PICK x : x = Drain(run[r], Tail(run[r].queue))
  BY Zenon
<1>9. PICK y : y = [v EXCEPT !.pc = "skip"]
  BY ZenonT(30)
<1>10. PICK st, n, e :
         /\ \/ e = NoRow
            \/ st \in {"waiting", "exhausted"} /\ n \in Nat /\ e = [rows[row.id] EXCEPT !.st = st, !.rc = n]
         /\ rows' = [rows EXCEPT ![row.id] = e]
         /\ \/ run' = [run EXCEPT ![r] = x]
            \/ /\ run' = [run EXCEPT ![r] = y] /\ SkipsSlice(v.sess, row)
               /\ n \in Nat /\ e = [rows[row.id] EXCEPT !.st = "exhausted", !.rc = n]
  <2>1. rows \in [RowIds -> RowStates] /\ rows[row.id] \in RowStates /\ rows[row.id].st # "none"
    BY SMTT(30), <1>1, <1>5, <1>7 DEF TablesTyped
  <2>2. ASSUME NEW m \in Nat
        PROVE  /\ Rescheduled(row.id, m) = [rows EXCEPT ![row.id] = [rows[row.id] EXCEPT !.st = "waiting", !.rc = m]]
               /\ Exhausted(row.id, m) = [rows EXCEPT ![row.id] = [rows[row.id] EXCEPT !.st = "exhausted", !.rc = m]]
    BY ZenonT(30), <1>5, <2>1 DEF Rescheduled, Exhausted, RowStates
  <2>3. CASE v.out = "completed"
    <3>1. rows' = [rows EXCEPT ![row.id] = NoRow] /\ run' = [run EXCEPT ![r] = x]
      BY SMTT(30), <1>2, <1>3, <1>8, <2>3 DEF settle
    <3> QED
      BY ZenonT(30), <3>1
  <2>4. CASE v.out = "deferred"
    <3>1. rows' = Rescheduled(row.id, row.rc) /\ run' = [run EXCEPT ![r] = x]
      BY SMTT(30), <1>2, <1>3, <1>8, <2>4 DEF settle
    <3>2. rows' = [rows EXCEPT ![row.id] = [rows[row.id] EXCEPT !.st = "waiting", !.rc = row.rc]]
      BY ZenonT(30), <1>6, <2>2, <3>1
    <3> QED
      BY ZenonT(30), <1>6, <3>1, <3>2
  <2>5. CASE v.out = "failed"
    <3>1. PICK m \in Nat : m = row.rc + 1
      BY SMTT(30), <1>6
    <3>2. CASE m >= cf.maxRetries
      <4>1. rows' = Exhausted(row.id, m)
        BY <1>2, <1>3, <2>5, <3>1, <3>2 DEF settle
      <4>2. rows' = [rows EXCEPT ![row.id] = [rows[row.id] EXCEPT !.st = "exhausted", !.rc = m]]
        BY ZenonT(30), <2>2, <4>1
      <4>3. run' = [run EXCEPT ![r] = x] \/ (run' = [run EXCEPT ![r] = y] /\ SkipsSlice(v.sess, row))
        BY <1>2, <1>3, <1>8, <1>9, <2>5, <3>1, <3>2 DEF settle
      <4> QED
        BY ZenonT(30), <4>2, <4>3
    <3>3. CASE ~(m >= cf.maxRetries)
      <4>1. rows' = Rescheduled(row.id, m) /\ run' = [run EXCEPT ![r] = x]
        BY <1>2, <1>3, <1>8, <2>5, <3>1, <3>3 DEF settle
      <4>2. rows' = [rows EXCEPT ![row.id] = [rows[row.id] EXCEPT !.st = "waiting", !.rc = m]]
        BY ZenonT(30), <2>2, <4>1
      <4> QED
        BY ZenonT(30), <4>1, <4>2
    <3> QED
      BY ZenonT(30), <3>2, <3>3
  <2> QED
    BY Zenon, <1>2, <2>3, <2>4, <2>5 DEF Outcomes
<1>11. rows \in [RowIds -> RowStates] /\ rows[row.id] \in RowStates
  BY <1>1, <1>5 DEF TablesTyped
<1>12. rows'[row.id] = e /\ \A i \in RowIds : i # row.id => rows'[i] = rows[i]
  BY <1>5, <1>10, <1>11
<1>13. e.ids \in Slices
  <2>1. NoRow.ids \in Slices
    BY EmptySlice DEF NoRow
  <2>2. CASE e = NoRow
    BY <2>1, <2>2
  <2>3. CASE e = [rows[row.id] EXCEPT !.st = st, !.rc = n]
    BY SMTT(30), <1>7, <1>11, <2>3 DEF RowStates
  <2> QED
    BY <1>10, <2>2, <2>3
<1>14. UNCHANGED <<cf, sent, cursor, slice, wrote, unread>>
  BY Zenon DEF settle, history
<1>15. CursorsTyped'
  BY <1>12, <1>13, <1>14 DEF CursorInv, CursorsTyped
<1>16. AccountsKept
  <2>1. \A i \in RowIds : rows[i].st = "exhausted" => rows'[i] = rows[i]
    BY <1>7, <1>12
  <2> QED
    BY <1>14, <2>1, AccountedStays
<1>17. \A q \in Runners \ {r} : run[q].queue = <<>>
  BY <1>2, OnlyDrain
<1>18. ASSUME NEW w, run' = [run EXCEPT ![r] = w], CallSound(r, w)'
       PROVE  CursorInv'
  <2>1. Moves(r, w)
    BY <1>14, <1>18 DEF Moves
  <2>2. (\A q \in Runners : CallSound(q, run[q])') /\ NothingSkipped'
    BY <1>14, <1>16, <1>17, <1>18, <2>1, CursorStep
  <2> QED
    BY <1>15, <2>2 DEF CursorInv
<1>19. CASE run' = [run EXCEPT ![r] = x]
  <2>1. CallSound(r, x)'
    BY <1>1, <1>2, <1>3, <1>8, <1>12, DrainCursor
  <2> QED
    BY ZenonT(30), <1>18, <1>19, <2>1
<1>20. CASE /\ run' = [run EXCEPT ![r] = y] /\ SkipsSlice(v.sess, row)
            /\ n \in Nat /\ e = [rows[row.id] EXCEPT !.st = "exhausted", !.rc = n]
  <2>1. y.pc = "skip" /\ y.queue = v.queue /\ y.sess = v.sess /\ y.facts = {}
    BY <1>4, <1>9 DEF RunStates
  <2>2. e.st = "exhausted" /\ e.ids = row.ids /\ e.sess = row.sess
    BY <1>7, <1>11, <1>20 DEF RowStates
  <2>3. row.sess = v.sess
    BY Zenon, <1>20 DEF SkipsSlice
  <2>4. SkipSound(y)'
    <3>0. PICK i \in RowIds : /\ rows'[i].st = "exhausted" /\ rows'[i].sess = v.sess
                              /\ rows'[i].ids = row.ids
      BY <1>5, <1>12, <2>2, <2>3
    <3>1. row.ids # {} /\ \A k \in 1..Tip(row.ids) : Accounted(v.sess, k)'
      BY <1>2, <1>7, <1>16, <1>20, <3>0, SkipsAccounted
    <3> QED
      BY <1>3, <2>1, <3>1 DEF SkipSound
  <2>5. \A k \in DOMAIN v.queue : v.queue[k].id \in RowIds
    BY <1>2, ClaimedRows
  <2>6. \A k \in DOMAIN v.queue : k # 1 => v.queue[k].id # row.id
    BY <1>4, <1>5 DEF QueueSound
  <2>7. \A k \in DOMAIN v.queue : RowSound(y, k)'
    <3> SUFFICES ASSUME NEW k \in DOMAIN v.queue
                 PROVE  RowSound(y, k)'
      BY Zenon
    <3>1. CASE k = 1
      BY <1>5, <1>7, <1>12, <2>1, <2>2, <3>1 DEF RowSound
    <3>2. CASE k # 1
      <4>1. rows'[v.queue[k].id] = rows[v.queue[k].id]
        BY <1>12, <2>5, <2>6, <3>2
      <4>2. RowSound(v, k)
        BY <1>4 DEF QueueSound
      <4> QED
        BY SMTT(30), <2>1, <3>2, <4>1, <4>2 DEF RowSound
    <3> QED
      BY <3>1, <3>2
  <2>8. QueueSound(r, y)'
    BY <1>4, <2>1, <2>7 DEF QueueSound
  <2>9. CallSound(r, y)'
    BY <2>1, <2>4, <2>8 DEF CallSound, Working
  <2> QED
    BY Zenon, <1>18, <1>20, <2>9
<1> QED
  BY SMTT(30), <1>10, <1>19, <1>20

-----------------------------------------------------------------------------
(* Messages, due rows, cooldowns, locks and windows: no call moves, and    *)
(* the rows a drain holds stay as they are.                                *)
LEMMA TimeCursor ==
  ASSUME ConsolidatorInv, CursorInv,
         \/ \E s \in Sessions : Send(s) \/ CooldownOver(s) \/ LockStale(s)
         \/ \E i \in RowIds : RowDue(i)
         \/ WindowOver
         \/ UNCHANGED vars
  PROVE  CursorInv'
<1>1. TablesTyped /\ CursorsTyped
  BY Zenon DEF ConsolidatorInv, CursorInv
<1>2. UNCHANGED <<cf, cursor, slice, run, wrote, unread>>
  BY Zenon DEF Send, CooldownOver, RowDue, LockStale, WindowOver, vars, history, tables
<1>3. sent' \in [Sessions -> Nat]
  BY <1>1 DEF CursorsTyped, Send, CooldownOver, RowDue, LockStale, WindowOver, vars, tables
<1>4. RowsKept /\ \A i \in RowIds : rows'[i].ids \in Slices
  <2>1. CASE rows' = rows
    BY <1>1, <2>1 DEF RowsKept, CursorsTyped
  <2>2. CASE \E i \in RowIds : RowDue(i)
    <3>1. PICK i \in RowIds : RowDue(i)
      BY Zenon, <2>2
    <3>2. PICK x : x = [rows[i] EXCEPT !.st = "due"]
      BY ZenonT(30)
    <3>3. x.ids = rows[i].ids
      BY <1>1, <3>2 DEF TablesTyped, RowStates
    <3>4. rows' = [rows EXCEPT ![i] = x] /\ rows[i].st = "waiting"
      BY <1>1, <3>1, <3>2 DEF RowDue, TablesTyped
    <3> QED
      BY <1>1, <3>3, <3>4 DEF TablesTyped, CursorsTyped, RowsKept
  <2> QED
    BY Zenon, <2>1, <2>2 DEF Send, CooldownOver, LockStale, WindowOver, vars, tables
<1>5. AccountsKept
  BY <1>2, <1>4, AccountedStays DEF RowsKept
<1>6. CursorsTyped'
  BY <1>1, <1>2, <1>3, <1>4 DEF CursorsTyped
<1>7. \A q \in Runners : CallSound(q, run[q])'
  BY <1>2, <1>4, <1>5, OthersSound
<1>8. NothingSkipped'
  BY <1>2, <1>5, SkippedStays
<1> QED
  BY <1>6, <1>7, <1>8 DEF CursorInv

(* An idle call holds nothing.                                             *)
LEMMA IdleCall == \A r : CallSound(r, Idle)
<1>1. DOMAIN Idle.queue = {}
  BY IdleSound
<1> QED
  BY <1>1, IdleSound DEF CallSound, QueueSound, Outside, Working

(* A crash ends every call; the cursors and the rows stay.                 *)
LEMMA CrashCursor ==
  ASSUME ConsolidatorInv, CursorInv, Crash
  PROVE  CursorInv'
<1>1. UNCHANGED <<cf, sent, cursor, rows, wrote, unread>>
  BY Zenon DEF Crash, history
<1>2. run' = [r \in Runners |-> Idle] /\ slice' = [s \in Sessions |-> {}]
  BY Zenon DEF Crash
<1>3. CursorsTyped'
  BY <1>1, <1>2, EmptySlice DEF CursorInv, CursorsTyped
<1>4. AccountsKept
  BY <1>1, AccountedStays
<1>5. NothingSkipped'
  BY <1>1, <1>4, SkippedStays
<1>6. \A r \in Runners : CallSound(r, run[r])'
  <2> SUFFICES ASSUME NEW r \in Runners
               PROVE  CallSound(r, run[r])'
    BY Zenon
  <2>1. run'[r] = Idle
    BY Zenon, <1>2
  <2>2. CallSound(r, Idle)'
    <3>1. DOMAIN Idle.queue = {}
      BY IdleSound
    <3> QED
      BY <3>1, IdleSound DEF CallSound, QueueSound, Outside, Working
  <2> QED
    BY <2>1, <2>2
<1> QED
  BY <1>3, <1>5, <1>6 DEF CursorInv

(* At the start the cursors are before the first message.                  *)
LEMMA CursorStarts == Init => CursorInv
<1> SUFFICES ASSUME Init
             PROVE  CursorInv
  OBVIOUS
<1>1. MaxMessages \in Nat
  BY Zenon, BoundsAssumption
<1>2. \A i \in RowIds : rows[i].ids \in Slices
  BY ZenonT(30), EmptySlice DEF Init, NoRow
<1>3. CursorsTyped
  <2>1. /\ cursor \in [Sessions -> 0..MaxMessages] /\ sent \in [Sessions -> Nat]
        /\ unread \in [Sessions -> SUBSET Messages]
    BY <1>1 DEF Init
  <2>2. slice \in [Sessions -> Slices]
    BY Zenon, EmptySlice DEF Init
  <2> QED
    BY <1>2, <2>1, <2>2 DEF CursorsTyped
<1>4. \A r \in Runners : CallSound(r, run[r])
  BY Zenon, IdleCall DEF Init
<1>5. NothingSkipped
  BY DEF Init, NothingSkipped
<1> QED
  BY <1>3, <1>4, <1>5 DEF CursorInv

(* Every step keeps what the cursors have passed accounted for, while one  *)
(* drain is under way.                                                     *)
LEMMA CursorNext == OneDrain /\ ConsolidatorInv /\ CursorInv /\ [Next]_vars => CursorInv'
<1> SUFFICES ASSUME OneDrain, ConsolidatorInv, CursorInv, [Next]_vars
             PROVE  CursorInv'
  BY Zenon
<1>0. ConsolidatorInv'
  BY Zenon, ConsolidatorStep
<1>1. ASSUME NEW r \in Runners, Work(r)
      PROVE  CursorInv'
  BY <1>0, <1>1, PlanCursor, AcquireCursor, DeferredCursor, ExtractCursor, FailsCursor, LookupCursor,
     RememberCursor, EpisodeCursor, AdvanceCursor, FinishCursor, SettleCursor, SkipCursor DEF Work
<1>2. ASSUME NEW r \in Runners, Triggered(r)
      PROVE  CursorInv'
  BY <1>2, TriggerCursor, FireCursor DEF Triggered
<1>3. ASSUME NEW r \in Runners, startFails(r) \/ lookupMisses(r) \/ formEpisodeFails(r)
      PROVE  CursorInv'
  BY <1>0, <1>3, DeferredCursor, MissCursor, FailsCursor
<1>4. CASE Crash
  BY <1>4, CrashCursor
<1>5. CASE \/ \E s \in Sessions : Send(s) \/ CooldownOver(s) \/ LockStale(s)
           \/ \E i \in RowIds : RowDue(i)
           \/ WindowOver
           \/ UNCHANGED vars
  BY <1>5, TimeCursor
<1> QED
  BY <1>1, <1>2, <1>3, <1>4, <1>5 DEF Next

(* runStandardPhase, drainDlq and #skipPoisonSlice: for any number of      *)
(* sessions, calls and messages, however calls fail, crash and take locks  *)
(* over, a cursor passes no message that is not noise unless its fact is   *)
(* stored, an answer of the provider gave no fact for it, or it is listed  *)
(* on an exhausted row - while one drain of the dead letters is under way  *)
(* at a time.                                                              *)
THEOREM NothingSkippedSafe == OneDrain /\ Spec => []NothingSkipped
<1> SUFFICES ASSUME OneDrain
             PROVE  Spec => []NothingSkipped
  BY Zenon
<1>1. ConsolidatorInv /\ CursorInv /\ [Next]_vars => CursorInv'
  BY Zenon, CursorNext
<1>2. CursorInv => NothingSkipped
  BY Zenon DEF CursorInv
<1> QED
  BY <1>1, <1>2, CursorStarts, ConsolidatorSafe, PTL DEF Spec
================================================================================
