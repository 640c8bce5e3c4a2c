------------------------ MODULE SemanticMemoryProofs ------------------------
(* Proofs about SemanticMemory: its types, the chains of superseded facts    *)
(* lead forward, and the trust gate and the quarantine hold, for any set of  *)
(* callers, any number of facts and any scenario.                            *)
EXTENDS SemanticMemory, TLAPS

-----------------------------------------------------------------------------
(* Type correctness.                                                         *)

(* Whatever the pipeline decides about hits that are stored rows, the row it *)
(* names is stored.                                                          *)
LEMMA OrchestrateStored ==
    ASSUME NEW t, NEW hits \in SUBSET (Ids \cap DOMAIN facts), NEW tops \in SUBSET hits,
           NEW zoneOf \in [hits -> SUBSET (Cold..Hot)],
           NEW d \in Orchestrate(t, hits, tops, zoneOf)
    PROVE  \/ d = Admit
           \/ \E i \in Ids \cap DOMAIN facts :
                 d = DedupTo(i) \/ d = SupersedeOf(i) \/ d = PendingOn(i)
<1>1. CASE hits = {}
  BY Zenon, <1>1 DEF Orchestrate
<1>2. CASE hits # {} /\ \E i \in hits : TextOf(i) = t
  BY Zenon, <1>2 DEF Orchestrate
<1>3. CASE hits # {} /\ ~ \E i \in hits : TextOf(i) = t
  <2>1. PICK i \in tops : \E z \in zoneOf[i] : d \in Staged(t, hits, i, z)
    BY <1>3 DEF Orchestrate
  <2>2. PICK z \in zoneOf[i] : d \in Staged(t, hits, i, z)
    BY Zenon, <2>1
  <2>3. z \in 0..3 /\ i \in Ids \cap DOMAIN facts
    BY Zenon, <2>2 DEF Cold, Hot
  <2>4. SameSubject(t, hits) \subseteq Ids \cap DOMAIN facts
    BY Zenon DEF SameSubject
  <2>. QED
    BY <2>2, <2>3, <2>4 DEF Staged, Cold, Check, Near, Hot
<1>. QED
  BY Zenon, <1>1, <1>2, <1>3

(* Both searches of the pipeline look at stored rows only.                   *)
LEMMA DecisionsStored ==
    ASSUME TypeOK, NEW t \in cf.texts,
           NEW d \in VectorDecisions(t) \cup TextDecisions(t)
    PROVE  \/ d = Admit
           \/ \E i \in Ids \cap DOMAIN facts :
                 d = DedupTo(i) \/ d = SupersedeOf(i) \/ d = PendingOn(i)
<1>1. TextHits \in SUBSET (Ids \cap DOMAIN facts) /\ VectorHits \in SUBSET (Ids \cap DOMAIN facts)
  BY Zenon DEF TextHits, VectorHits, Recalled, Current, Stored
<1>2. CASE d \in TextDecisions(t)
  <2>1. [i \in TextHits |-> Cold..Hot] \in [TextHits -> SUBSET (Cold..Hot)]
    BY Zenon
  <2>2. PICK zone : zone = [i \in TextHits |-> Cold..Hot]
    BY Zenon
  <2>3. d \in Orchestrate(t, TextHits, TextHits, zone)
    BY Zenon, <1>2, <2>2 DEF TextDecisions
  <2>4. zone \in [TextHits -> SUBSET (Cold..Hot)] /\ TextHits \in SUBSET TextHits
    BY Zenon, <2>1, <2>2
  <2>. QED
    BY <1>1, <2>3, <2>4, OrchestrateStored
<1>3. CASE d \in VectorDecisions(t)
  <2>. DEFINE zone == [i \in VectorHits |-> {cf.zone[<<t, TextOf(i)>>]}]
              tops == {i \in VectorHits : \A j \in VectorHits :
                          cf.zone[<<t, TextOf(j)>>] <= cf.zone[<<t, TextOf(i)>>]}
  <2>1. \A i \in VectorHits : TextOf(i) \in cf.texts
    BY Zenon, <1>1 DEF TypeOK, TextOf, Rows, Facts
  <2>2. cf.zone \in [cf.texts \X cf.texts -> 0..3]
    BY Zenon, FactsAssumption DEF TypeOK
  <2>3. zone \in [VectorHits -> SUBSET (Cold..Hot)]
    BY Zenon, <2>1, <2>2 DEF Cold, Hot
  <2>4. tops \in SUBSET VectorHits
    BY Zenon
  <2>5. d \in Orchestrate(t, VectorHits, tops, zone)
    BY Zenon, <1>3 DEF VectorDecisions
  <2>. HIDE DEF zone, tops
  <2>. QED
    BY <1>1, <2>3, <2>4, <2>5, OrchestrateStored
<1>. QED
  BY Zenon, <1>2, <1>3

(* The scenario never changes, so neither do the sets it gives.              *)
LEMMA Frame == cf' = cf => Facts' = Facts /\ Rows' = Rows /\ Ops' = Ops
  BY Zenon DEF Facts, Rows, Ops

(* The bounds of a scenario.                                                 *)
LEMMA Bounds ==
    ASSUME TypeOK
    PROVE  /\ cf.maxWrites \in 0..MaxFacts
           /\ cf.maxCalls \in Nat
           /\ cf.maxFaults \in Nat
           /\ cf.auto \in BOOLEAN
           /\ cf.embedder \in BOOLEAN
           /\ MaxFacts \in Nat
  BY Zenon, FactsAssumption DEF TypeOK

(* A stored fact is not the absent one.                                      *)
LEMMA FactNotNull == \A f \in Facts : f # NoFact
  BY DEF Facts, NoFact, Provenances

(* What an actor may be in.                                                  *)
Held(op) ==
    /\ op \in Ops
    /\ op.fact = NoFact => op.pc \in {"idle", "promote", "verdict", "resolve"}
    /\ op.id = 0 => op.pc = "idle"

OpsOK == ops \in [Actors -> Ops] /\ \A a \in Actors : Held(ops[a])

(* Between two statements an actor is in no call or in one of the right type.*)
LEMMA NoOpHeld == MaxFacts \in Nat => Held(NoOp)
  BY DEF Held, NoOp, NoFact, Ops

(* A step that moves one actor keeps every call's type.                      *)
LEMMA MoveOps ==
    ASSUME OpsOK, cf' = cf, NEW a \in Actors, NEW op, Held(op), Move(a, op)
    PROVE  OpsOK'
<1>1. Ops' = Ops
  BY Zenon, Frame
<1>2. ops' \in [Actors -> Ops]
  BY Zenon DEF OpsOK, Held, Move
<1>3. \A b \in Actors : Held(ops'[b])
  BY Zenon DEF OpsOK, Move
<1>. QED
  BY Zenon, <1>1, <1>2, <1>3 DEF OpsOK, Held

(* The rest of the types.                                                    *)
TablesOK ==
    /\ DOMAIN facts \subseteq Ids
    /\ facts \in [DOMAIN facts -> Rows]
    /\ pending \in [Ids -> [against : 0..MaxFacts,
                            state : {"none", "open", "attempted", "resolved"}]]
    /\ commits \in [at : [Ids -> Nat], n : Nat]

CountersOK ==
    /\ history \in [piped : SUBSET Ids, promoted : SUBSET Ids,
                    forced : SUBSET Ids, auto : SUBSET Ids, purged : SUBSET Ids]
    /\ used \in [facts : 0..cf.maxWrites, calls : 0..cf.maxCalls, faults : 0..cf.maxFaults]

(* TypeOK in its parts: the calls, the tables, the history and counters.     *)
LEMMA TypeParts == TypeOK <=> cf \in Scenarios /\ OpsOK /\ TablesOK /\ CountersOK
  BY Zenon DEF TypeOK, OpsOK, TablesOK, CountersOK, Held

(* The same after a step.                                                    *)
LEMMA TypeParts2 ==
    cf' \in Scenarios /\ OpsOK' /\ TablesOK' /\ CountersOK' => TypeOK'
  BY Zenon DEF TypeOK, OpsOK, TablesOK, CountersOK, Held

(* The initial states have the types.                                        *)
LEMMA InitType == Init => TypeOK
<1>. SUFFICES ASSUME Init PROVE TypeOK
  BY Zenon
<1>1. cf \in Scenarios /\ MaxFacts \in Nat /\ cf.maxWrites \in 0..MaxFacts
      /\ cf.maxCalls \in Nat /\ cf.maxFaults \in Nat
  BY Zenon, FactsAssumption DEF Init
<1>2. OpsOK
  BY Zenon, <1>1, NoOpHeld DEF Init, OpsOK, Held
<1>3. TablesOK
  BY <1>1 DEF Init, TablesOK, Ids
<1>4. CountersOK
  BY <1>1 DEF Init, CountersOK
<1>. QED
  BY Zenon, <1>1, <1>2, <1>3, <1>4, TypeParts

(* A write call draws an id and builds a fact of the right type.             *)
LEMMA WriteType ==
    ASSUME TypeOK, NEW a \in Callers, NEW kind \in {"remember", "supersede"},
           NEW pc \in {"search", "text", "commit"}, NEW t \in cf.texts,
           NEW prov \in Provenances, NEW auto \in BOOLEAN, NEW old \in 0..MaxFacts,
           Write(a, kind, pc, t, prov, auto, old)
    PROVE  TypeOK'
<1>0. PICK held \in BOOLEAN :
         Move(a, [kind |-> kind, pc |-> pc, id |-> used.facts + 1, target |-> old,
                  fact |-> NewFact(t, prov, auto, held, old)])
  BY Zenon DEF Write
<1>1. PICK f : f = NewFact(t, prov, auto, held, old)
  BY Zenon
<1>2. f \in Facts /\ f # NoFact
  <2>1. Status(t, prov, auto, held) \in Statuses
    BY Zenon DEF Status, Statuses
  <2>2. f \in Facts
    BY <1>1, <2>1, Bounds DEF NewFact, Facts
  <2>. QED
    BY Zenon, <2>2, FactNotNull
<1>3. used.facts \in 0..cf.maxWrites /\ used.facts < cf.maxWrites
  BY Zenon DEF TypeOK, Write
<1>4. used.facts + 1 \in 1..MaxFacts /\ used.facts + 1 \in 0..cf.maxWrites
  BY <1>3, Bounds
<1>5. PICK op : op = [kind |-> kind, pc |-> pc, id |-> used.facts + 1, target |-> old,
                      fact |-> f]
  BY Zenon
<1>6. Held(op)
  BY <1>2, <1>4, <1>5 DEF Held, Ops
<1>7. OpsOK'
  BY Zenon, <1>0, <1>1, <1>5, <1>6, MoveOps, TypeParts DEF Write, Actors
<1>8. TablesOK'
  BY Zenon, TypeParts, Frame DEF Write, TablesOK
<1>9. CountersOK'
  BY Zenon, <1>4, TypeParts DEF Write, CountersOK, Ids
<1>. QED
  BY Zenon, <1>7, <1>8, <1>9, TypeParts, TypeParts2 DEF Write

(* The pipeline's decision moves the call on and may enqueue a pending row.  *)
LEMMA DecidedType ==
    ASSUME TypeOK, NEW a \in Actors, ops[a].pc \in {"search", "text"},
           NEW d \in VectorDecisions(ops[a].fact.text) \cup TextDecisions(ops[a].fact.text),
           Decided(a, d)
    PROVE  TypeOK'
<1>1. ops[a] \in Ops /\ ops[a].fact \in Facts /\ ops[a].id \in Ids
  BY DEF TypeOK, Ops, Ids
<1>2. d = Admit \/ \E i \in Ids \cap DOMAIN facts :
         d = DedupTo(i) \/ d = SupersedeOf(i) \/ d = PendingOn(i)
  <2>1. ops[a].fact.text \in cf.texts
    BY Zenon, <1>1 DEF Facts
  <2>. QED
    BY Zenon, <2>1, DecisionsStored
<1>3. d.id \in 0..MaxFacts
  BY <1>2, Bounds DEF Admit, DedupTo, SupersedeOf, PendingOn, Ids
<1>4. OpsOK'
  <2>0. PICK old : old = IF d.kind = "supersede" THEN d.id ELSE 0
    BY Zenon
  <2>1. PICK op : op = [ops[a] EXCEPT !.pc = "commit", !.target = old]
    BY Zenon
  <2>2. Held(op)
    <3>1. old \in 0..MaxFacts
      BY <1>3, <2>0, Bounds
    <3>2. op \in Ops
      BY Zenon, <1>1, <2>1, <3>1 DEF Ops
    <3>3. op.fact # NoFact /\ op.id # 0
      BY <1>1, <2>1, FactNotNull DEF Ops, Ids
    <3>. QED
      BY Zenon, <3>2, <3>3 DEF Held
  <2>3. Move(a, NoOp) \/ Move(a, op)
    BY Zenon, <2>0, <2>1 DEF Decided
  <2>4. cf' = cf /\ OpsOK
    BY Zenon, TypeParts DEF Decided
  <2>5. CASE Move(a, NoOp)
    BY Zenon, <2>4, <2>5, NoOpHeld, MoveOps, Bounds
  <2>6. CASE Move(a, op)
    BY Zenon, <2>2, <2>4, <2>6, MoveOps
  <2>. QED
    BY Zenon, <2>3, <2>5, <2>6
<1>5. TablesOK'
  BY Zenon, <1>1, <1>3, TypeParts, Frame DEF Decided, TablesOK
<1>6. CountersOK'
  BY Zenon, <1>1, TypeParts DEF Decided, CountersOK
<1>. QED
  BY Zenon, <1>4, <1>5, <1>6, TypeParts, TypeParts2 DEF Decided

(* The store's upsert keeps the tables' types.                               *)
LEMMA UpsertTables ==
    ASSUME TablesOK, cf' = cf, pending' = pending, NEW i \in Ids, NEW f \in Facts,
           NEW embedded \in BOOLEAN, Upsert(i, f, embedded)
    PROVE  TablesOK'
<1>1. [f |-> f, deleted |-> FALSE, archived |-> FALSE, vec |-> embedded] \in Rows
  BY Zenon DEF Rows
<1>2. ASSUME Stored(i)
      PROVE  [facts[i] EXCEPT !.f = f, !.vec = @ \/ embedded] \in Rows
  <2>1. facts[i] \in Rows
    BY Zenon, <1>2 DEF TablesOK, Stored
  <2>2. PICK v : v = (facts[i].vec \/ embedded)
    BY Zenon
  <2>3. v \in BOOLEAN
    BY <2>2, Zenon
  <2>4. [facts[i] EXCEPT !.f = f, !.vec = v] \in Rows
    BY Zenon, <2>1, <2>3 DEF Rows
  <2>. QED
    BY Zenon, <2>2, <2>4
<1>3. DOMAIN facts' = DOMAIN facts \cup {i} /\ facts' \in [DOMAIN facts \cup {i} -> Rows]
  BY Zenon, <1>1, <1>2 DEF Upsert, TablesOK, Stored
<1>4. commits' \in [at : [Ids -> Nat], n : Nat]
  BY DEF Upsert, TablesOK
<1>. QED
  BY Zenon, <1>3, <1>4, Frame DEF TablesOK

(* A statement that changes one stored row keeps the tables' types.          *)
LEMMA RowTables ==
    ASSUME TablesOK, cf' = cf, UNCHANGED commits, UNCHANGED pending,
           NEW i, NEW r \in Rows,
           facts' = [facts EXCEPT ![i] = r]
    PROVE  TablesOK'
  BY Zenon, Frame DEF TablesOK

(* The single-field updates of a fact and of its row.                        *)
LEMMA FactEdits ==
    ASSUME NEW f \in Facts, NEW n \in 0..MaxFacts
    PROVE  /\ [f EXCEPT !.by = n] \in Facts
           /\ [f EXCEPT !.of = n] \in Facts
           /\ [f EXCEPT !.status = "active"] \in Facts
  BY Zenon DEF Facts, Statuses

(* The same for a row.                                                       *)
LEMMA RowEdits ==
    ASSUME NEW r \in Rows, NEW n \in 0..MaxFacts
    PROVE  /\ [r EXCEPT !.f.by = n] \in Rows
           /\ [r EXCEPT !.f.of = n] \in Rows
           /\ [r EXCEPT !.f.status = "active"] \in Rows
<1>1. r.f \in Facts
  BY Zenon DEF Rows
<1>2. \A g \in Facts : [r EXCEPT !.f = g] \in Rows
  BY Zenon DEF Rows
<1>. QED
  BY Zenon, <1>1, <1>2, FactEdits

(* A call that goes on to its next statement.                                *)
LEMMA PcHeld ==
    ASSUME NEW op, Held(op), op.pc # "idle", op.fact # NoFact,
           NEW pc \in {"text", "rewrite", "close", "resolve"}
    PROVE  Held([op EXCEPT !.pc = pc])
  BY Zenon DEF Held, Ops

(* A step that leaves the tables alone and the counters in range.            *)
LEMMA OpsStep ==
    ASSUME TypeOK, cf' = cf, OpsOK', UNCHANGED <<facts, pending, commits>>, CountersOK'
    PROVE  TypeOK'
<1>1. TablesOK'
  BY Zenon, TypeParts, Frame DEF TablesOK
<1>. QED
  BY Zenon, <1>1, TypeParts, TypeParts2

(* Without a change, the counters stay in range.                             *)
LEMMA SameCounters ==
    ASSUME TypeOK, UNCHANGED <<cf, history, used>>
    PROVE  CountersOK'
  BY Zenon, TypeParts DEF CountersOK

(* The steps of the pipeline.                                                *)
LEMMA SearchType ==
    ASSUME TypeOK, NEW a \in Actors, SearchVectors(a) \/ SearchText(a)
    PROVE  TypeOK'
<1>1. CASE SearchText(a)
  BY Zenon, <1>1, DecidedType DEF SearchText, At
<1>2. CASE SearchVectors(a) /\ VectorHits # {}
  BY Zenon, <1>2, DecidedType DEF SearchVectors, At
<1>3. CASE SearchVectors(a) /\ VectorHits = {}
  <2>1. Held(ops[a]) /\ OpsOK /\ cf' = cf /\ ops[a].pc = "search"
    BY Zenon, <1>3, TypeParts DEF SearchVectors, OpsOK, At
  <2>2. ops[a].fact # NoFact
    BY Zenon, <2>1 DEF Held
  <2>3. OpsOK'
    BY Zenon, <1>3, <2>1, <2>2, PcHeld, MoveOps DEF SearchVectors, To
  <2>. QED
    BY Zenon, <1>3, <2>3, OpsStep, SameCounters DEF SearchVectors
<1>. QED
  BY Zenon, <1>1, <1>2, <1>3

(* The statements of the store's remember and supersede.                     *)
LEMMA StatementType ==
    ASSUME TypeOK, NEW a \in Actors, CommitFact(a) \/ Rewrite(a) \/ Close(a)
    PROVE  TypeOK'
<1>1. /\ cf' = cf /\ pending' = pending /\ history' = history /\ used' = used
      /\ ops[a].pc \in {"commit", "rewrite", "close"}
  BY Zenon DEF CommitFact, Rewrite, Close, At
<1>2. Held(ops[a]) /\ OpsOK /\ TablesOK
  BY Zenon, TypeParts DEF OpsOK
<1>3. ops[a].fact # NoFact /\ ops[a].fact \in Facts /\ ops[a].id \in Ids
  BY <1>1, <1>2 DEF Held, Ops, Ids
<1>4. OpsOK'
  <2>1. \/ Move(a, NoOp)
        \/ \E pc \in {"text", "rewrite", "close", "resolve"} : Move(a, [ops[a] EXCEPT !.pc = pc])
    BY Zenon DEF CommitFact, Rewrite, Close, To
  <2>. QED
    BY Zenon, <1>1, <1>2, <1>3, <2>1, NoOpHeld, PcHeld, MoveOps, Bounds
<1>5. TablesOK'
  <2>1. CASE CommitFact(a)
    BY Zenon, <1>1, <1>2, <1>3, <2>1, UpsertTables, Bounds DEF CommitFact
  <2>2. CASE Rewrite(a)
    BY Zenon, <1>1, <1>2, <1>3, <2>2, UpsertTables DEF Rewrite
  <2>3. CASE Close(a)
    <3>1. ASSUME Stored(ops[a].target)
          PROVE  [facts[ops[a].target] EXCEPT !.f.by = ops[a].id] \in Rows
      <4>1. facts[ops[a].target] \in Rows
        BY Zenon, <1>2, <3>1 DEF TablesOK, Stored
      <4>2. ops[a].id \in 0..MaxFacts
        BY <1>3 DEF Ids
      <4>. QED
        BY Zenon, <4>1, <4>2, RowEdits
    <3>2. CASE Stored(ops[a].target)
      <4>1. PICK r : r = [facts[ops[a].target] EXCEPT !.f.by = ops[a].id]
        BY Zenon
      <4>2. facts' = [facts EXCEPT ![ops[a].target] = r]
        BY Zenon, <2>3, <3>2, <4>1 DEF Close, CloseRow
      <4>3. r \in Rows /\ commits' = commits
        BY Zenon, <2>3, <3>1, <3>2, <4>1 DEF Close
      <4>. QED
        BY Zenon, <1>1, <1>2, <4>2, <4>3, RowTables
    <3>3. CASE ~Stored(ops[a].target)
      BY Zenon, <1>1, <1>2, <2>3, <3>3, Frame DEF Close, CloseRow, TablesOK
    <3>. QED
      BY Zenon, <3>2, <3>3
  <2>. QED
    BY Zenon, <2>1, <2>2, <2>3
<1>. QED
  BY Zenon, <1>1, <1>4, <1>5, SameCounters, TypeParts, TypeParts2

(* A call is counted within its bound.                                       *)
LEMMA CallCounters ==
    ASSUME TypeOK, NEW a, Call(a), cf' = cf,
           history' \in [piped : SUBSET Ids, promoted : SUBSET Ids,
                         forced : SUBSET Ids, auto : SUBSET Ids, purged : SUBSET Ids]
    PROVE  CountersOK'
<1>1. used.calls \in 0..cf.maxCalls /\ used.calls < cf.maxCalls /\ cf.maxCalls \in Nat
  BY Zenon, Bounds, TypeParts DEF CountersOK, Call
<1>2. used.calls + 1 \in 0..cf.maxCalls
  BY <1>1
<1>. QED
  BY Zenon, <1>2, TypeParts DEF CountersOK, Call

(* validate() and the reads that follow it.                                  *)
LEMMA ValidateType ==
    ASSUME TypeOK, NEW a \in Actors, NEW i \in Ids, NEW force \in BOOLEAN, Validate(a, i, force)
    PROVE  TypeOK'
<1>1. cf' = cf /\ UNCHANGED <<facts, pending, commits>> /\ OpsOK /\ TablesOK /\ CountersOK
  BY Zenon, TypeParts DEF Validate
<1>2. PICK f : f = IF Gettable(i) THEN facts[i].f ELSE NoFact
  BY Zenon
<1>3. f \in Facts \cup {NoFact}
  BY Zenon, <1>1, <1>2 DEF Gettable, Stored, TablesOK, Rows
<1>4. PICK op : op = [kind |-> "validate", pc |-> "promote", id |-> i, target |-> 0, fact |-> f]
  BY Zenon
<1>5. Held(op)
  BY <1>3, <1>4, Bounds DEF Held, Ops, Ids
<1>6. OpsOK'
  <2>1. CASE Refused(i, force)
    BY Zenon, <1>1, <2>1, Frame DEF Validate, OpsOK, Held
  <2>2. CASE ~Refused(i, force)
    BY Zenon, <1>1, <1>2, <1>4, <1>5, <2>2, MoveOps DEF Validate
  <2>. QED
    BY Zenon, <2>1, <2>2
<1>7. history' \in [piped : SUBSET Ids, promoted : SUBSET Ids,
                    forced : SUBSET Ids, auto : SUBSET Ids, purged : SUBSET Ids]
  <2>1. PICK fs : fs = IF force THEN history.forced \cup {i} ELSE history.forced
    BY Zenon
  <2>2. fs \in SUBSET Ids
    BY Zenon, <1>1, <2>1 DEF CountersOK
  <2>3. history' = history
        \/ history' = [history EXCEPT !.promoted = @ \cup {i}, !.forced = fs]
    BY Zenon, <2>1 DEF Validate
  <2>4. PICK ps : ps = history.promoted \cup {i}
    BY Zenon
  <2>5. ps \in SUBSET Ids
    BY Zenon, <1>1, <2>4 DEF CountersOK
  <2>6. history' = history \/ history' = [history EXCEPT !.promoted = ps, !.forced = fs]
    BY Zenon, <2>3, <2>4
  <2>. QED
    BY Zenon, <1>1, <2>2, <2>5, <2>6 DEF CountersOK
<1>8. CountersOK'
  BY Zenon, <1>1, <1>7, CallCounters DEF Validate
<1>. QED
  BY Zenon, <1>1, <1>6, <1>8, OpsStep

(* setStatus.                                                                *)
LEMMA PromoteType ==
    ASSUME TypeOK, NEW a \in Actors, Promote(a)
    PROVE  TypeOK'
<1>1. UNCHANGED <<cf, pending, commits, history, used>> /\ OpsOK /\ TablesOK
      /\ Held(ops[a]) /\ ops[a].pc = "promote" /\ ops[a].id \in 0..MaxFacts
  BY Zenon, TypeParts DEF Promote, OpsOK, At, Held, Ops
<1>2. OpsOK'
  <2>1. CASE Move(a, NoOp)
    BY Zenon, <1>1, <2>1, NoOpHeld, MoveOps, Bounds
  <2>2. CASE ops[a].fact # NoFact /\ Move(a, [ops[a] EXCEPT !.pc = "fetchOld", !.target = ops[a].fact.of])
    <3>1. ops[a].fact.of \in 0..MaxFacts
      BY Zenon, <1>1, <2>2 DEF Held, Ops, Facts
    <3>2. Held([ops[a] EXCEPT !.pc = "fetchOld", !.target = ops[a].fact.of])
      BY Zenon, <1>1, <2>2, <3>1 DEF Held, Ops
    <3>. QED
      BY Zenon, <1>1, <2>2, <3>2, MoveOps
  <2>. QED
    BY Zenon, <2>1, <2>2 DEF Promote
<1>3. TablesOK'
  <2>1. CASE ~Stored(ops[a].id)
    BY Zenon, <1>1, <2>1, Frame DEF Promote, SetActive, TablesOK
  <2>2. CASE Stored(ops[a].id)
    <3>1. PICK r : r = [facts[ops[a].id] EXCEPT !.f.status = "active"]
      BY Zenon
    <3>2. facts[ops[a].id] \in Rows
      BY Zenon, <1>1, <2>2 DEF TablesOK, Stored
    <3>3. r \in Rows
      BY Zenon, <1>1, <3>1, <3>2, RowEdits
    <3>4. facts' = [facts EXCEPT ![ops[a].id] = r]
      BY Zenon, <2>2, <3>1 DEF Promote, SetActive
    <3>. QED
      BY Zenon, <1>1, <3>3, <3>4, RowTables
  <2>. QED
    BY Zenon, <2>1, <2>2
<1>. QED
  BY Zenon, <1>1, <1>2, <1>3, SameCounters, TypeParts, TypeParts2

(* The read of the fact a pending supersede will close.                      *)
LEMMA FetchOldType ==
    ASSUME TypeOK, NEW a \in Actors, FetchOld(a)
    PROVE  TypeOK'
<1>1. UNCHANGED <<cf, facts, pending, commits, history, used>> /\ OpsOK
      /\ Held(ops[a]) /\ ops[a].pc = "fetchOld"
  BY Zenon, TypeParts DEF FetchOld, OpsOK, At
<1>2. ops[a].fact \in Facts
  BY Zenon, <1>1 DEF Held, Ops
<1>3. PICK f : f = [ops[a].fact EXCEPT !.status = "active"]
  BY Zenon
<1>4. f \in Facts /\ f # NoFact
  <2>1. f \in Facts
    BY Zenon, <1>2, <1>3, Bounds, FactEdits
  <2>. QED
    BY Zenon, <2>1, FactNotNull
<1>5. PICK op : op = [ops[a] EXCEPT !.pc = "rewrite", !.fact = f]
  BY Zenon
<1>6. Held(op)
  BY Zenon, <1>1, <1>4, <1>5 DEF Held, Ops
<1>7. Move(a, NoOp) \/ Move(a, op)
  BY Zenon, <1>3, <1>5 DEF FetchOld
<1>8. OpsOK'
  BY Zenon, <1>1, <1>6, <1>7, NoOpHeld, MoveOps, Bounds
<1>. QED
  BY Zenon, <1>1, <1>8, SameCounters, OpsStep

(* forget, archive and purge: one statement each.                            *)
LEMMA RemoveType ==
    ASSUME TypeOK, NEW a, NEW i \in Ids, Forget(a, i) \/ ArchiveFact(a, i) \/ Purge(a, i)
    PROVE  TypeOK'
<1>1. UNCHANGED <<cf, ops, pending, commits>> /\ OpsOK /\ TablesOK /\ CountersOK /\ i \in DOMAIN facts
  BY Zenon, TypeParts DEF Forget, ArchiveFact, Purge, Gettable, Recalled, Current, Stored
<1>2. OpsOK'
  BY Zenon, <1>1, Frame DEF OpsOK, Held
<1>3. TablesOK'
  <2>. facts[i] \in Rows
    BY Zenon, <1>1 DEF TablesOK
  <2>1. CASE Forget(a, i)
    <3>1. PICK r : r = [facts[i] EXCEPT !.deleted = TRUE, !.archived = TRUE, !.vec = FALSE]
      BY Zenon
    <3>2. r \in Rows
      BY Zenon, <3>1 DEF Rows
    <3>3. facts' = [facts EXCEPT ![i] = r]
      BY Zenon, <1>1, <2>1, <3>1 DEF Forget, Tombstone, Stored
    <3>. QED
      BY Zenon, <1>1, <3>2, <3>3, RowTables
  <2>2. CASE ArchiveFact(a, i)
    <3>1. PICK r : r = [facts[i] EXCEPT !.archived = TRUE]
      BY Zenon
    <3>2. r \in Rows
      BY Zenon, <3>1 DEF Rows
    <3>3. facts' = [facts EXCEPT ![i] = r]
      BY Zenon, <2>2, <3>1 DEF ArchiveFact
    <3>. QED
      BY Zenon, <1>1, <3>2, <3>3, RowTables
  <2>3. CASE Purge(a, i)
    BY Zenon, <1>1, <2>3, Frame DEF Purge, TablesOK
  <2>. QED
    BY Zenon, <2>1, <2>2, <2>3
<1>4. CountersOK'
  <2>1. history' \in [piped : SUBSET Ids, promoted : SUBSET Ids,
                      forced : SUBSET Ids, auto : SUBSET Ids, purged : SUBSET Ids]
    BY <1>1 DEF Forget, ArchiveFact, Purge, CountersOK
  <2>. QED
    BY Zenon, <1>1, <2>1, CallCounters DEF Forget, ArchiveFact, Purge
<1>. QED
  BY Zenon, <1>1, <1>2, <1>3, <1>4, TypeParts, TypeParts2

(* A pending row whose state changes.                                        *)
LEMMA PendingTables ==
    ASSUME TablesOK, cf' = cf, UNCHANGED <<facts, commits>>, NEW i \in Ids,
           NEW st \in {"attempted", "resolved"}, pending' = [pending EXCEPT ![i].state = st]
    PROVE  TablesOK'
  BY Zenon, Frame DEF TablesOK

(* The steps of the judge.                                                   *)
LEMMA JudgeType ==
    ASSUME TypeOK,
           \/ \E i \in Ids : JudgeNext(i)
           \/ VerdictSupersede \/ VerdictDedup \/ VerdictAdmit \/ VerdictFails \/ MarkResolved
    PROVE  TypeOK'
<1>1. UNCHANGED <<cf, commits, history, used>> /\ OpsOK /\ TablesOK /\ Judge \in Actors
      /\ Held(ops[Judge]) /\ ops[Judge].id \in 0..MaxFacts /\ ops[Judge].target \in 0..MaxFacts
  BY Zenon, TypeParts DEF JudgeNext, VerdictSupersede, VerdictDedup, VerdictAdmit, VerdictFails,
                   MarkResolved, OpsOK, Actors, Held, Ops
<1>2. CountersOK'
  BY Zenon, <1>1, SameCounters
<1>3. CASE \E i \in Ids : JudgeNext(i)
  <2>1. PICK i \in Ids : JudgeNext(i)
    BY Zenon, <1>3
  <2>2. CASE Gettable(pending[i].against)
    <3>1. PICK op : op = [NoOp EXCEPT !.kind = "judge", !.pc = "verdict", !.id = i,
                                      !.target = pending[i].against]
      BY Zenon
    <3>2. pending[i].against \in 0..MaxFacts
      BY Zenon, <1>1 DEF TablesOK
    <3>3. Held(op)
      <4>1. op = [kind |-> "judge", pc |-> "verdict", id |-> i,
                  target |-> pending[i].against, fact |-> NoFact]
        BY Zenon, <3>1 DEF NoOp
      <4>. QED
        BY <3>2, <4>1 DEF Held, Ops, Ids
    <3>4. OpsOK'
      BY Zenon, <1>1, <2>1, <2>2, <3>1, <3>3, MoveOps DEF JudgeNext
    <3>. QED
      BY Zenon, <1>1, <1>2, <2>1, <2>2, <3>4, OpsStep DEF JudgeNext
  <2>3. CASE ~Gettable(pending[i].against)
    <3>1. OpsOK'
      BY ZenonT(30), <1>1, <2>1, <2>3, Frame DEF JudgeNext, OpsOK, Held
    <3>2. TablesOK'
      BY Zenon, <1>1, <2>1, <2>3, PendingTables DEF JudgeNext, Resolve
    <3>. QED
      BY Zenon, <1>1, <1>2, <3>1, <3>2, TypeParts, TypeParts2
  <2>. QED
    BY Zenon, <2>2, <2>3
<1>4. ASSUME ops[Judge].pc = "verdict"
      PROVE  ops[Judge].id \in Ids /\ Held([ops[Judge] EXCEPT !.pc = "resolve"])
  BY <1>1, <1>4 DEF Held, Ops, Ids
<1>. DEFINE i == ops[Judge].id
<1>5. CASE VerdictSupersede
  <2>0. ops[Judge].pc = "verdict" /\ UNCHANGED pending
    BY Zenon, <1>5 DEF VerdictSupersede, At
  <2>1. CASE ~Gettable(i)
    <3>1. To(Judge, "resolve") /\ UNCHANGED facts
      BY Zenon, <1>5, <2>1 DEF VerdictSupersede
    <3>2. OpsOK'
      BY Zenon, <1>1, <1>4, <2>0, <3>1, MoveOps DEF To
    <3>. QED
      BY Zenon, <1>1, <1>2, <2>0, <3>1, <3>2, OpsStep
  <2>2. CASE Gettable(i)
    <3>1. facts[i] \in Rows /\ facts[i].f \in Facts /\ facts[i].f # NoFact
      <4>1. facts[i] \in Rows
        BY Zenon, <1>1, <2>2 DEF Gettable, Stored, TablesOK
      <4>2. facts[i].f \in Facts
        BY Zenon, <4>1 DEF Rows
      <4>. QED
        BY Zenon, <4>1, <4>2, FactNotNull
    <3>2. CASE facts[i].f.status = "quarantined"
      <4>1. To(Judge, "resolve") /\ LinkPendingSupersede(i, ops[Judge].target)
        BY Zenon, <1>5, <2>2, <3>2 DEF VerdictSupersede
      <4>2. OpsOK'
        BY Zenon, <1>1, <1>4, <2>0, <4>1, MoveOps DEF To
      <4>3. PICK r : r = [facts[i] EXCEPT !.f.of = ops[Judge].target]
        BY Zenon
      <4>4. r \in Rows
        BY Zenon, <1>1, <3>1, <4>3, RowEdits
      <4>5. facts' = [facts EXCEPT ![i] = r]
        BY Zenon, <2>2, <4>1, <4>3 DEF LinkPendingSupersede, Gettable, Stored
      <4>6. TablesOK'
        BY Zenon, <1>1, <2>0, <4>4, <4>5, RowTables
      <4>. QED
        BY Zenon, <1>1, <1>2, <4>2, <4>6, TypeParts, TypeParts2
    <3>3. CASE facts[i].f.status = "active"
      <4>1. PICK op : op = [ops[Judge] EXCEPT !.pc = "rewrite", !.fact = facts[i].f]
        BY Zenon
      <4>2. Move(Judge, op) /\ UNCHANGED facts
        BY Zenon, <1>5, <2>2, <3>3, <4>1 DEF VerdictSupersede
      <4>3. Held(op)
        BY Zenon, <1>1, <1>4, <2>0, <3>1, <4>1 DEF Held, Ops, Ids
      <4>4. OpsOK'
        BY Zenon, <1>1, <4>2, <4>3, MoveOps
      <4>. QED
        BY Zenon, <1>1, <1>2, <2>0, <4>2, <4>4, OpsStep
    <3>4. facts[i].f.status \in {"active", "quarantined"}
      BY Zenon, <3>1 DEF Facts, Statuses
    <3>. QED
      BY Zenon, <3>2, <3>3, <3>4
  <2>. QED
    BY Zenon, <2>1, <2>2
<1>6. CASE VerdictDedup
  <2>1. ops[Judge].pc = "verdict" /\ To(Judge, "resolve") /\ UNCHANGED pending
    BY Zenon, <1>6 DEF VerdictDedup, At
  <2>2. OpsOK'
    BY Zenon, <1>1, <1>4, <2>1, MoveOps DEF To
  <2>3. CASE ~Stored(i)
    BY Zenon, <1>1, <1>2, <1>6, <2>1, <2>2, <2>3, OpsStep DEF VerdictDedup, Tombstone
  <2>4. CASE Stored(i)
    <3>1. PICK r : r = [facts[i] EXCEPT !.deleted = TRUE, !.archived = TRUE, !.vec = FALSE]
      BY Zenon
    <3>2. facts[i] \in Rows
      BY Zenon, <1>1, <2>4 DEF Stored, TablesOK
    <3>3. r \in Rows
      BY Zenon, <3>1, <3>2 DEF Rows
    <3>4. facts' = [facts EXCEPT ![i] = r]
      BY Zenon, <1>6, <2>4, <3>1 DEF VerdictDedup, Tombstone
    <3>5. TablesOK'
      BY Zenon, <1>1, <2>1, <3>3, <3>4, RowTables
    <3>. QED
      BY <1>1, <1>2, <2>2, <3>5, TypeParts, TypeParts2
  <2>. QED
    BY <2>3, <2>4
<1>7. CASE VerdictAdmit
  <2>1. OpsOK'
    BY Zenon, <1>1, <1>4, <1>7, MoveOps DEF VerdictAdmit, To, At
  <2>. QED
    BY Zenon, <1>1, <1>2, <1>7, <2>1, OpsStep DEF VerdictAdmit
<1>8. CASE VerdictFails \/ MarkResolved
  <2>1. OpsOK'
    BY Zenon, <1>1, <1>8, NoOpHeld, MoveOps, Bounds DEF VerdictFails, MarkResolved
  <2>2. i \in Ids /\ UNCHANGED facts
    BY <1>1, <1>8 DEF VerdictFails, MarkResolved, At, Held, Ops, Ids
  <2>3. \E st \in {"attempted", "resolved"} : pending' = [pending EXCEPT ![i].state = st]
    BY Zenon, <1>8 DEF VerdictFails, MarkResolved, Resolve
  <2>4. TablesOK'
    BY Zenon, <1>1, <2>2, <2>3, PendingTables
  <2>. QED
    BY <1>1, <1>2, <2>1, <2>4, TypeParts, TypeParts2
<1>. QED
  BY Zenon, <1>3, <1>5, <1>6, <1>7, <1>8

(* Every step keeps the types.                                               *)
LEMMA TypeStep == TypeOK /\ [Next]_vars => TypeOK'
<1>. SUFFICES ASSUME TypeOK, [Next]_vars PROVE TypeOK'
  BY Zenon
<1>1. CASE UNCHANGED vars
  BY Zenon, <1>1, Frame DEF vars, TypeOK
<1>2. ASSUME NEW a \in Callers, CallerStep(a)
      PROVE  TypeOK'
  <2>0. a \in Actors
    BY Zenon DEF Actors
  <2>1. ASSUME NEW t \in cf.texts, NEW prov \in Provenances, Remember(a, t, prov)
        PROVE  TypeOK'
    <3>1. PICK pc \in {"search", "text"} : pc = IF cf.embedder THEN "search" ELSE "text"
      BY Zenon
    <3>2. Write(a, "remember", pc, t, prov, FALSE, 0)
      BY Zenon, <2>1, <3>1 DEF Remember
    <3>3. 0 \in 0..MaxFacts
      BY Bounds
    <3>. QED
      BY Zenon, <3>1, <3>2, <3>3, WriteType
  <2>2. ASSUME NEW t \in cf.texts, Add(a, t)
        PROVE  TypeOK'
    BY <2>2, WriteType, Bounds DEF Add, Provenances
  <2>3. ASSUME NEW t \in cf.texts, NEW prov \in Provenances, NEW old \in Ids,
               Supersede(a, t, prov, old)
        PROVE  TypeOK'
    <3>1. PICK auto : auto = (prov = "extraction" /\ AllowImmediateSupersede(old))
      BY Zenon
    <3>2. auto \in BOOLEAN
      BY <3>1, Zenon
    <3>3. old \in 0..MaxFacts
      BY DEF Ids
    <3>4. Write(a, "supersede", "commit", t, prov, auto, old)
      BY Zenon, <2>3, <3>1 DEF Supersede
    <3>. QED
      BY Zenon, <3>2, <3>3, <3>4, WriteType
  <2>4. ASSUME NEW i \in Ids, NEW force \in BOOLEAN, Validate(a, i, force)
        PROVE  TypeOK'
    BY Zenon, <2>0, <2>4, ValidateType
  <2>5. ASSUME NEW i \in Ids, Forget(a, i) \/ ArchiveFact(a, i) \/ Purge(a, i)
        PROVE  TypeOK'
    BY Zenon, <2>5, RemoveType
  <2>6. CASE Continue(a)
    BY Zenon, <2>0, <2>6, SearchType, StatementType, PromoteType, FetchOldType DEF Continue
  <2>. QED
    BY Zenon, <1>2, <2>1, <2>2, <2>3, <2>4, <2>5, <2>6 DEF CallerStep
<1>3. CASE JudgeStep
  <2>1. Judge \in Actors
    BY Zenon DEF Actors
  <2>. QED
    BY Zenon, <1>3, <2>1, JudgeType, StatementType DEF JudgeStep
<1>4. ASSUME NEW a \in Actors, Abandon(a)
      PROVE  TypeOK'
  <2>1. OpsOK'
    BY Zenon, <1>4, TypeParts, NoOpHeld, MoveOps, Bounds DEF Abandon
  <2>2. used.faults + 1 \in 0..cf.maxFaults
    <3>1. used.faults \in 0..cf.maxFaults /\ used.faults < cf.maxFaults /\ cf.maxFaults \in Nat
      BY Zenon, <1>4, Bounds, TypeParts DEF CountersOK, Abandon
    <3>. QED
      BY <3>1
  <2>3. CountersOK'
    BY Zenon, <1>4, <2>2, TypeParts DEF CountersOK, Abandon
  <2>. QED
    BY Zenon, <1>4, <2>1, <2>3, OpsStep DEF Abandon
<1>. QED
  BY Zenon, <1>1, <1>2, <1>3, <1>4 DEF Next

(* The table, the calls in progress and the counters keep their types: in    *)
(* particular no call writes back a fact that get() did not return.          *)
THEOREM TypeSafe == Spec => []TypeOK
  BY InitType, TypeStep, PTL DEF Spec


-----------------------------------------------------------------------------
(* The order of the insertions and the links between the rows.               *)

(* With at[i] the number of i's insertion, 0 before it: o is inserted, and   *)
(* before i.                                                                 *)
Older(at, o, i) == at[o] # 0 /\ (at[i] # 0 => at[o] < at[i])

Linked(at, i, f) ==
    /\ f.by # 0 => at[i] # 0 /\ at[i] < at[f.by]
    /\ f.of # 0 => Older(at, f.of, i)

Writing(op) == op.pc \in {"search", "text", "commit"}

(* A call that writes a fact for the first time has an id that is not in the *)
(* table yet; the others work on one that was inserted.                      *)
Doing(at, n, op) ==
    /\ op.id <= n
    /\ op.pc = "idle" => op.target = 0 /\ op.fact = NoFact
    /\ op.target # 0 => Older(at, op.target, op.id)
    /\ op.fact # NoFact => Linked(at, op.id, op.fact)
    /\ Writing(op) => at[op.id] = 0
    /\ op.pc \in {"rewrite", "close", "promote", "fetchOld"} => at[op.id] # 0

OrderInv ==
    /\ \A i \in Ids : commits.at[i] <= commits.n
    /\ \A i \in Ids : commits.at[i] # 0 =>
          i <= used.facts /\ i \in DOMAIN facts \cup history.purged
    /\ \A i \in DOMAIN facts \cup history.purged : commits.at[i] # 0

LinkInv ==
    /\ \A i \in DOMAIN facts : Linked(commits.at, i, facts[i].f)
    /\ \A i \in Ids : /\ pending[i].state # "none" => i <= used.facts
                      /\ pending[i].against # 0 => Older(commits.at, pending[i].against, i)

DoingInv ==
    /\ \A a \in Actors : Doing(commits.at, used.facts, ops[a])
    /\ \A a, b \in Actors : a # b /\ Writing(ops[a]) /\ Writing(ops[b]) => ops[a].id # ops[b].id

ChainInv == OrderInv /\ LinkInv /\ DoingInv

(* From at to at2, i is inserted as number n + 1.                            *)
Grew(at, at2, n, i) ==
    /\ at \in [Ids -> Nat] /\ n \in Nat /\ i \in Ids
    /\ \A j \in Ids : at[j] <= n
    /\ at[i] = 0
    /\ at2 = [at EXCEPT ![i] = n + 1]

(* An insertion keeps every order there was.                                 *)
LEMMA OlderGrows ==
    ASSUME NEW at, NEW at2, NEW n, NEW i, Grew(at, at2, n, i)
    PROVE  /\ \A o, j \in Ids : Older(at, o, j) => Older(at2, o, j)
           /\ \A j \in Ids, f \in Facts : Linked(at, j, f) => Linked(at2, j, f)
<1>1. /\ \A j \in Ids : at2[j] = IF j = i THEN n + 1 ELSE at[j]
      /\ \A j \in Ids : at[j] \in Nat /\ at[j] <= n
      /\ n \in Nat /\ at[i] = 0
  BY Zenon DEF Grew
<1>2. \A o, j \in Ids : Older(at, o, j) => Older(at2, o, j)
  BY <1>1 DEF Older
<1>3. ASSUME NEW j \in Ids, NEW f \in Facts, Linked(at, j, f)
      PROVE  Linked(at2, j, f)
  <2>1. /\ f.by # 0 => f.by \in Ids /\ at[j] # 0 /\ at[j] < at[f.by]
        /\ f.of # 0 => f.of \in Ids /\ Older(at, f.of, j)
    BY <1>3, FactsAssumption DEF Facts, Ids, Linked
  <2>2. \A k \in Ids : at[j] # 0 /\ at[j] < at[k] => at2[j] # 0 /\ at2[j] < at2[k]
    BY <1>1
  <2>. QED
    BY Zenon, <1>2, <2>1, <2>2 DEF Linked
<1>. QED
  BY Zenon, <1>2, <1>3

(* A call in progress is not disturbed by an insertion of another id.        *)
LEMMA DoingGrows ==
    ASSUME NEW at, NEW at2, NEW n, NEW i, Grew(at, at2, n, i),
           NEW k, NEW op, Held(op), Doing(at, k, op), Writing(op) => op.id # i
    PROVE  Doing(at2, k, op)
<1>1. \A j \in Ids : /\ at2[j] = IF j = i THEN n + 1 ELSE at[j]
                     /\ at[j] # 0 => at2[j] # 0
  BY Zenon DEF Grew
<1>2. op.id \in 0..MaxFacts /\ op.target \in 0..MaxFacts /\ op.fact \in Facts \cup {NoFact}
  BY Zenon DEF Held, Ops
<1>3. CASE op.id = 0
  BY Zenon, <1>3 DEF Held, Doing, Writing
<1>4. CASE op.id # 0
  <2>1. op.id \in Ids
    BY <1>2, <1>4, FactsAssumption DEF Ids
  <2>2. op.target # 0 => Older(at2, op.target, op.id)
    <3>1. op.target # 0 => op.target \in Ids /\ Older(at, op.target, op.id)
      BY <1>2, FactsAssumption DEF Doing, Ids
    <3>. QED
      BY Zenon, <2>1, <3>1, OlderGrows
  <2>3. op.fact # NoFact => Linked(at2, op.id, op.fact)
    <3>1. op.fact # NoFact => op.fact \in Facts /\ Linked(at, op.id, op.fact)
      BY Zenon, <1>2 DEF Doing
    <3>. QED
      BY Zenon, <2>1, <3>1, OlderGrows
  <2>4. /\ Writing(op) => at2[op.id] = 0
        /\ op.pc \in {"rewrite", "close", "promote", "fetchOld"} => at2[op.id] # 0
    BY Zenon, <1>1, <2>1 DEF Doing
  <2>. QED
    BY Zenon, <2>2, <2>3, <2>4 DEF Doing
<1>. QED
  BY Zenon, <1>3, <1>4

(* NoOp does nothing.                                                        *)
LEMMA NoOpDoing == ASSUME NEW at, NEW k \in Nat PROVE Doing(at, k, NoOp) /\ ~Writing(NoOp)
  BY DEF Doing, NoOp, Writing

(* The counter of the ids drawn.                                             *)
LEMMA Drawn == TypeOK => used.facts \in Nat /\ used.facts <= MaxFacts
  BY Bounds DEF TypeOK

(* A step of one actor that inserts no row and draws no id.                  *)
LEMMA MoveDoing ==
    ASSUME TypeOK, DoingInv, UNCHANGED commits, used'.facts = used.facts,
           NEW a \in Actors, NEW op, Doing(commits.at, used.facts, op), Move(a, op),
           Writing(op) => Writing(ops[a]) /\ op.id = ops[a].id
    PROVE  DoingInv'
<1>1. \A b \in Actors : ops'[b] = IF b = a THEN op ELSE ops[b]
  BY Zenon DEF TypeOK, Move
<1>2. \A b \in Actors : Doing(commits'.at, used'.facts, ops'[b])
  BY Zenon, <1>1 DEF DoingInv
<1>3. \A b, c \in Actors : b # c /\ Writing(ops'[b]) /\ Writing(ops'[c]) => ops'[b].id # ops'[c].id
  BY <1>1 DEF DoingInv
<1>. QED
  BY Zenon, <1>2, <1>3 DEF DoingInv, Writing, Doing

(* A step that inserts nothing, whose rows keep links in order.              *)
LEMMA TableChain ==
    ASSUME TypeOK, OrderInv, LinkInv, UNCHANGED <<commits, pending>>, used'.facts = used.facts,
           DOMAIN facts' \cup history'.purged = DOMAIN facts \cup history.purged,
           \A i \in DOMAIN facts' : Linked(commits.at, i, facts'[i].f)
    PROVE  OrderInv' /\ LinkInv'
<1>1. OrderInv'
  BY Zenon DEF OrderInv
<1>2. LinkInv'
  BY Zenon DEF LinkInv, Linked, Older
<1>. QED
  BY Zenon, <1>1, <1>2

(* A write call draws an id no call, row or pending entry has.               *)
LEMMA WriteChain ==
    ASSUME TypeOK, ChainInv, NEW a \in Actors, NEW kind, NEW pc \in {"search", "text", "commit"},
           NEW t, NEW prov, NEW auto, NEW old \in 0..MaxFacts, old # 0 => Stored(old),
           Write(a, kind, pc, t, prov, auto, old)
    PROVE  ChainInv'
<1>0. PICK i : i = used.facts + 1
  BY Zenon
<1>1. /\ i \in Ids /\ commits.at[i] = 0 /\ used'.facts = i
      /\ used.facts \in Nat /\ used.facts < i
  <2>1. used.facts \in Nat /\ used.facts < cf.maxWrites /\ cf.maxWrites \in 0..MaxFacts
    BY Zenon, Bounds, Drawn DEF Write
  <2>2. i \in Ids /\ used.facts < i
    BY <1>0, <2>1, FactsAssumption DEF Ids
  <2>3. used'.facts = i
    BY Zenon, <1>0 DEF Write, TypeOK
  <2>4. commits.at[i] # 0 => i <= used.facts
    BY Zenon, <2>2 DEF ChainInv, OrderInv
  <2>. QED
    BY <1>0, <2>1, <2>2, <2>3, <2>4
<1>12. PICK held \in BOOLEAN :
          Move(a, [kind |-> kind, pc |-> pc, id |-> used.facts + 1, target |-> old,
                   fact |-> NewFact(t, prov, auto, held, old)])
  BY Zenon DEF Write
<1>2. PICK f : f = NewFact(t, prov, auto, held, old)
  BY Zenon
<1>3. f.by = 0 /\ f.of = old
  BY Zenon, <1>2 DEF NewFact
<1>4. PICK op : op = [kind |-> kind, pc |-> pc, id |-> i, target |-> old, fact |-> f]
  BY Zenon
<1>5. op.id = i /\ op.pc = pc /\ op.target = old /\ op.fact = f
  BY Zenon, <1>4
<1>6. old # 0 => Older(commits.at, old, i)
  <2>1. old # 0 => commits.at[old] # 0
    BY Zenon DEF ChainInv, OrderInv, Stored
  <2>. QED
    BY Zenon, <1>1, <2>1 DEF Older
<1>7. Doing(commits.at, i, op)
  <2>1. Linked(commits.at, i, f)
    BY Zenon, <1>3, <1>6 DEF Linked
  <2>2. i <= i /\ commits.at[i] = 0
    BY <1>1 DEF Ids
  <2>. QED
    BY Zenon, <1>5, <1>6, <2>1, <2>2 DEF Doing, Writing
<1>8. /\ UNCHANGED <<facts, pending, commits>> /\ history'.purged = history.purged
      /\ \A b \in Actors : ops'[b] = IF b = a THEN op ELSE ops[b]
  BY Zenon, <1>0, <1>2, <1>4, <1>12 DEF TypeOK, Write, Move
<1>9. DoingInv'
  <2>1. \A b \in Actors : ops[b].id \in 0..MaxFacts /\ ops[b].id <= used.facts
    <3>1. \A b \in Actors : ops[b].id \in 0..MaxFacts
      BY Zenon DEF TypeOK, Ops
    <3>2. \A b \in Actors : ops[b].id <= used.facts
      BY Zenon DEF ChainInv, DoingInv, Doing
    <3>. QED
      BY Zenon, <3>1, <3>2
  <2>2. \A b \in Actors : b # a => Doing(commits.at, i, ops[b])
    <3>1. \A b \in Actors : ops[b].id <= i
      BY <1>1, <2>1 DEF Ids
    <3>. QED
      BY Zenon, <3>1 DEF ChainInv, DoingInv, Doing
  <2>3. \A b \in Actors : b # a => ops[b].id # i
    BY SMTT(30), <1>1, <2>1
  <2>4. \A b \in Actors : Doing(commits'.at, used'.facts, ops'[b])
    BY Zenon, <1>1, <1>7, <1>8, <2>2
  <2>5. \A b, c \in Actors : b # c /\ Writing(ops'[b]) /\ Writing(ops'[c])
                                => ops'[b].id # ops'[c].id
    BY Zenon, <1>5, <1>8, <2>3 DEF ChainInv, DoingInv
  <2>. QED
    BY Zenon, <2>4, <2>5 DEF DoingInv, Writing, Doing
<1>10. OrderInv'
  <2>1. \A j \in Ids : j <= used.facts => j <= i
    BY SMTT(30), <1>1 DEF Ids
  <2>. QED
    BY Zenon, <1>1, <1>8, <2>1 DEF ChainInv, OrderInv
<1>11. LinkInv'
  <2>1. \A j \in Ids : j <= used.facts => j <= i
    BY <1>1 DEF Ids
  <2>. QED
    BY Zenon, <1>1, <1>8, <2>1 DEF ChainInv, LinkInv, Linked, Older
<1>. QED
  BY Zenon, <1>9, <1>10, <1>11 DEF ChainInv

(* The pipeline links the candidate, not yet inserted, to a stored row.      *)
LEMMA DecidedChain ==
    ASSUME TypeOK, ChainInv, NEW a \in Actors, ops[a].pc \in {"search", "text"},
           NEW d \in VectorDecisions(ops[a].fact.text) \cup TextDecisions(ops[a].fact.text),
           Decided(a, d)
    PROVE  ChainInv'
<1>1. ops[a] \in Ops /\ ops[a].fact \in Facts /\ ops[a].id \in Ids
  BY DEF TypeOK, Ops, Ids
<1>2. d = Admit \/ \E i \in Ids \cap DOMAIN facts :
         d = DedupTo(i) \/ d = SupersedeOf(i) \/ d = PendingOn(i)
  <2>1. ops[a].fact.text \in cf.texts
    BY Zenon, <1>1 DEF Facts
  <2>. QED
    BY Zenon, <2>1, DecisionsStored
<1>3. d.id = 0 \/ (d.id \in Ids /\ d.id \in DOMAIN facts)
  BY <1>2 DEF Admit, DedupTo, SupersedeOf, PendingOn
<1>4. Writing(ops[a]) /\ commits.at[ops[a].id] = 0 /\ ops[a].id <= used.facts
  BY Zenon DEF Writing, ChainInv, DoingInv, Doing
<1>5. d.id # 0 => Older(commits.at, d.id, ops[a].id)
  BY Zenon, <1>3, <1>4 DEF ChainInv, OrderInv, Older
<1>6. UNCHANGED <<commits, facts, used>> /\ history'.purged = history.purged
  BY Zenon DEF Decided, TypeOK
<1>7. DoingInv'
  <2>1. PICK old : old = IF d.kind = "supersede" THEN d.id ELSE 0
    BY Zenon
  <2>2. PICK op : op = [ops[a] EXCEPT !.pc = "commit", !.target = old]
    BY Zenon
  <2>3. op.pc = "commit" /\ op.target = old /\ op.id = ops[a].id /\ op.fact = ops[a].fact
    BY Zenon, <1>1, <2>2 DEF Ops
  <2>4. Doing(commits.at, used.facts, op)
    BY Zenon, <1>4, <1>5, <2>1, <2>3 DEF ChainInv, DoingInv, Doing, Writing
  <2>5. Move(a, NoOp) \/ Move(a, op)
    BY Zenon, <2>1, <2>2 DEF Decided
  <2>6. CASE Move(a, NoOp)
    BY Zenon, <1>6, <2>6, NoOpDoing, Drawn, MoveDoing DEF ChainInv
  <2>7. CASE Move(a, op)
    BY Zenon, <1>4, <1>6, <2>3, <2>4, <2>7, MoveDoing DEF ChainInv
  <2>. QED
    BY Zenon, <2>5, <2>6, <2>7
<1>8. OrderInv'
  BY Zenon, <1>6 DEF ChainInv, OrderInv
<1>9. LinkInv'
  <2>1. \A i \in DOMAIN facts : Linked(commits'.at, i, facts'[i].f)
    BY Zenon, <1>6 DEF ChainInv, LinkInv
  <2>2. \A i \in Ids : /\ pending'[i].state # "none" => i <= used.facts
                       /\ pending'[i].against # 0 => Older(commits.at, pending'[i].against, i)
    <3>1. CASE d.kind # "pending"
      BY Zenon, <3>1 DEF Decided, ChainInv, LinkInv
    <3>2. CASE d.kind = "pending"
      <4>1. PICK e : e = [against |-> d.id, state |-> "open"]
        BY Zenon
      <4>2. \A i \in Ids : pending'[i] = IF i = ops[a].id THEN e ELSE pending[i]
        BY Zenon, <1>1, <3>2, <4>1 DEF Decided, TypeOK
      <4>3. e.against = d.id
        BY Zenon, <4>1
      <4>. QED
        BY Zenon, <1>4, <1>5, <4>2, <4>3 DEF ChainInv, LinkInv
    <3>. QED
      BY Zenon, <3>1, <3>2
  <2>. QED
    BY Zenon, <1>6, <2>1, <2>2 DEF LinkInv, Linked, Older
<1>. QED
  BY Zenon, <1>7, <1>8, <1>9 DEF ChainInv

(* A call that goes on with the same fact after its row was inserted.        *)
LEMMA GoesOn ==
    ASSUME NEW at, NEW k, NEW op, Held(op), op.pc # "idle",
           op.id <= k, at[op.id] # 0,
           op.target # 0 => Older(at, op.target, op.id),
           op.fact # NoFact => Linked(at, op.id, op.fact),
           NEW pc \in {"rewrite", "close", "resolve", "fetchOld"}
    PROVE  Doing(at, k, [op EXCEPT !.pc = pc]) /\ ~Writing([op EXCEPT !.pc = pc])
<1>1. PICK op2 : op2 = [op EXCEPT !.pc = pc]
  BY Zenon
<1>2. op2.pc = pc /\ op2.id = op.id /\ op2.target = op.target /\ op2.fact = op.fact
  BY Zenon, <1>1 DEF Held, Ops
<1>3. Doing(at, k, op2) /\ ~Writing(op2)
  BY Zenon, <1>2 DEF Doing, Writing
<1>. QED
  BY Zenon, <1>1, <1>3

(* The upsert of a call's own fact.                                          *)
LEMMA UpsertChain ==
    ASSUME TypeOK, ChainInv, NEW a \in Actors, ops[a].pc \in {"commit", "rewrite"},
           NEW embedded, Upsert(ops[a].id, ops[a].fact, embedded),
           NEW pc \in {"rewrite", "close"},
           Move(a, NoOp) \/ Move(a, [ops[a] EXCEPT !.pc = pc]),
           UNCHANGED <<pending, history, used>>
    PROVE  ChainInv'
<1>1. Held(ops[a]) /\ ops[a].fact \in Facts /\ ops[a].id \in Ids /\ ops[a].fact # NoFact
  <2>1. Held(ops[a])
    BY Zenon, TypeParts DEF OpsOK
  <2>. QED
    BY <2>1 DEF Held, Ops, Ids
<1>2. PICK i : i = ops[a].id
  BY Zenon
<1>3. PICK f : f = ops[a].fact
  BY Zenon
<1>. DEFINE at == commits.at
            k == used.facts
<1>4. i \in Ids /\ f \in Facts /\ Doing(at, k, ops[a])
  BY Zenon, <1>1, <1>2, <1>3 DEF ChainInv, DoingInv
<1>5. /\ Linked(at, i, f) /\ i <= k
      /\ ops[a].target # 0 => Older(at, ops[a].target, i)
      /\ ops[a].pc = "rewrite" => at[i] # 0
      /\ ops[a].target # 0 => ops[a].target \in Ids
  BY <1>1, <1>2, <1>3, <1>4, FactsAssumption DEF Doing, Held, Ops, Ids
<1>6. /\ DOMAIN facts' = DOMAIN facts \cup {i}
      /\ \A j \in DOMAIN facts' : facts'[j].f = IF j = i THEN f ELSE facts[j].f
  <2>1. \A j \in DOMAIN facts : facts[j] \in Rows
    BY Zenon DEF TypeOK
  <2>2. DOMAIN facts' = DOMAIN facts \cup {i}
    BY Zenon, <1>2 DEF Upsert
  <2>3. \A j \in DOMAIN facts : j # i => facts'[j] = facts[j]
    BY Zenon, <1>2 DEF Upsert
  <2>4. facts'[i].f = f
    <3>1. CASE Stored(i)
      <4>1. PICK v : v = (facts[i].vec \/ embedded)
        BY Zenon
      <4>2. facts'[i] = [facts[i] EXCEPT !.f = f, !.vec = v]
        BY Zenon, <1>2, <1>3, <3>1, <4>1 DEF Upsert
      <4>. QED
        BY Zenon, <2>1, <3>1, <4>2 DEF Rows, Stored
    <3>2. CASE ~Stored(i)
      BY Zenon, <1>2, <1>3, <3>2 DEF Upsert
    <3>. QED
      BY Zenon, <3>1, <3>2
  <2>. QED
    BY Zenon, <2>2, <2>3, <2>4
<1>7. CASE at[i] # 0
  <2>1. UNCHANGED commits
    BY Zenon, <1>2, <1>7 DEF Upsert
  <2>2. i \in DOMAIN facts \cup history.purged
    BY Zenon, <1>4, <1>7 DEF ChainInv, OrderInv
  <2>3. OrderInv' /\ LinkInv'
    <3>1. DOMAIN facts' \cup history'.purged = DOMAIN facts \cup history.purged
      BY Zenon, <1>6, <2>2
    <3>2. \A j \in DOMAIN facts' : Linked(at, j, facts'[j].f)
      BY Zenon, <1>5, <1>6 DEF ChainInv, LinkInv
    <3>. QED
      BY Zenon, <2>1, <3>1, <3>2, TableChain DEF ChainInv
  <2>4. DoingInv'
    <3>1. CASE Move(a, NoOp)
      BY Zenon, <2>1, <3>1, NoOpDoing, Drawn, MoveDoing DEF ChainInv
    <3>2. CASE Move(a, [ops[a] EXCEPT !.pc = pc])
      <4>1. PICK op : op = [ops[a] EXCEPT !.pc = pc]
        BY Zenon
      <4>2. Doing(at, k, op) /\ ~Writing(op)
        BY Zenon, <1>1, <1>2, <1>3, <1>5, <1>7, <4>1, GoesOn
      <4>. QED
        BY Zenon, <2>1, <3>2, <4>1, <4>2, MoveDoing DEF ChainInv
    <3>. QED
      BY Zenon, <3>1, <3>2
  <2>. QED
    BY Zenon, <2>3, <2>4 DEF ChainInv
<1>8. CASE at[i] = 0
  <2>1. commits'.at = [at EXCEPT ![i] = commits.n + 1] /\ commits'.n = commits.n + 1
    BY Zenon, <1>2, <1>8 DEF Upsert
  <2>2. PICK at2 : at2 = commits'.at
    BY Zenon
  <2>3. Grew(at, at2, commits.n, i)
    BY Zenon, <1>4, <1>8, <2>1, <2>2 DEF Grew, TypeOK, ChainInv, OrderInv
  <2>4. /\ at2[i] = commits.n + 1 /\ at2[i] # 0
        /\ \A j \in Ids : j # i => at2[j] = at[j]
        /\ \A j \in Ids : at2[j] <= commits.n + 1
    BY <2>3 DEF Grew
  <2>5. OrderInv'
    <3>1. i <= used'.facts /\ history'.purged = history.purged /\ used'.facts = used.facts
      BY Zenon, <1>5
    <3>2. \A j \in Ids : at2[j] # 0 => j <= used'.facts /\ j \in DOMAIN facts' \cup history'.purged
      BY Zenon, <1>6, <2>4, <3>1 DEF ChainInv, OrderInv
    <3>3. \A j \in DOMAIN facts' \cup history'.purged : at2[j] # 0
      <4>1. \A j \in DOMAIN facts \cup history.purged : j \in Ids /\ at[j] # 0
        BY Zenon DEF TypeOK, ChainInv, OrderInv
      <4>. QED
        BY Zenon, <1>6, <2>4, <3>1, <4>1
    <3>. QED
      BY Zenon, <2>1, <2>2, <2>4, <3>2, <3>3 DEF OrderInv
  <2>6. LinkInv'
    <3>1. \A j \in DOMAIN facts' : Linked(at2, j, facts'[j].f)
      <4>1. Linked(at2, i, f)
        BY Zenon, <1>4, <1>5, <2>3, OlderGrows
      <4>2. \A j \in DOMAIN facts : j \in Ids /\ facts[j].f \in Facts /\ Linked(at, j, facts[j].f)
        BY Zenon DEF TypeOK, Rows, ChainInv, LinkInv
      <4>3. \A j \in DOMAIN facts : Linked(at2, j, facts[j].f)
        BY Zenon, <2>3, <4>2, OlderGrows
      <4>. QED
        BY Zenon, <1>6, <4>1, <4>3
    <3>2. \A j \in Ids : pending[j].against # 0 => Older(at2, pending[j].against, j)
      <4>1. \A j \in Ids : pending[j].against # 0 =>
               pending[j].against \in Ids /\ Older(at, pending[j].against, j)
        BY FactsAssumption DEF TypeOK, Ids, ChainInv, LinkInv
      <4>. QED
        BY Zenon, <2>3, <4>1, OlderGrows
    <3>. QED
      BY Zenon, <2>2, <3>1, <3>2 DEF ChainInv, LinkInv, Linked, Older
  <2>7. DoingInv'
    <3>1. ops[a].pc = "commit" /\ Writing(ops[a])
      BY Zenon, <1>5, <1>8 DEF Writing
    <3>2. \A b \in Actors : b # a => Doing(at2, k, ops[b])
      <4>1. \A b \in Actors : Held(ops[b]) /\ Doing(at, k, ops[b])
        BY Zenon, TypeParts DEF OpsOK, ChainInv, DoingInv
      <4>2. \A b \in Actors : b # a /\ Writing(ops[b]) => ops[b].id # i
        BY Zenon, <1>2, <3>1 DEF ChainInv, DoingInv
      <4>. QED
        BY Zenon, <2>3, <4>1, <4>2, DoingGrows
    <3>3. PICK op : op = [ops[a] EXCEPT !.pc = pc]
      OBVIOUS
    <3>4. Doing(at2, k, op) /\ ~Writing(op)
      <4>1. Linked(at2, i, f)
        BY <1>4, <1>5, <2>3, OlderGrows
      <4>2. ops[a].target # 0 => Older(at2, ops[a].target, i)
        BY Zenon, <1>4, <1>5, <2>3, OlderGrows
      <4>. QED
        BY Zenon, <1>1, <1>2, <1>3, <1>5, <2>4, <3>1, <3>3, <4>1, <4>2, GoesOn
    <3>5. Doing(at2, k, NoOp) /\ ~Writing(NoOp)
      BY Zenon, NoOpDoing, Drawn
    <3>6. PICK new \in {NoOp, op} : \A b \in Actors : ops'[b] = IF b = a THEN new ELSE ops[b]
      BY Zenon, <3>3 DEF Move, TypeOK
    <3>7. \A b \in Actors : Doing(at2, k, ops'[b])
      BY Zenon, <3>2, <3>4, <3>5, <3>6
    <3>8. \A b, c \in Actors : b # c /\ Writing(ops'[b]) /\ Writing(ops'[c])
                                  => ops'[b].id # ops'[c].id
      BY <3>4, <3>5, <3>6 DEF ChainInv, DoingInv
    <3>. QED
      BY Zenon, <2>2, <3>7, <3>8 DEF DoingInv, Writing, Doing
  <2>. QED
    BY Zenon, <2>5, <2>6, <2>7 DEF ChainInv
<1>. QED
  BY Zenon, <1>7, <1>8

(* A step that changes no link, no order and no pending row, or drops rows.  *)
LEMMA QuietChain ==
    ASSUME TypeOK, ChainInv, UNCHANGED <<commits, pending>>, used'.facts = used.facts, DoingInv',
           DOMAIN facts' \cup history'.purged = DOMAIN facts \cup history.purged,
           \A j \in DOMAIN facts' : j \in DOMAIN facts /\ facts'[j].f.by = facts[j].f.by
                                                       /\ facts'[j].f.of = facts[j].f.of
    PROVE  ChainInv'
<1>1. \A j \in DOMAIN facts' : Linked(commits.at, j, facts'[j].f)
  BY Zenon DEF ChainInv, LinkInv, Linked
<1>. QED
  BY Zenon, <1>1, TableChain DEF ChainInv

(* An actor that is done.                                                    *)
LEMMA DoneDoing ==
    ASSUME TypeOK, ChainInv, UNCHANGED commits, used'.facts = used.facts,
           NEW a \in Actors, Move(a, NoOp)
    PROVE  DoingInv'
  BY Zenon, NoOpDoing, Drawn, MoveDoing DEF ChainInv

(* The judge, or validate, keeping its fact and target.                      *)
LEMMA OnDoing ==
    ASSUME TypeOK, ChainInv, UNCHANGED commits, used'.facts = used.facts,
           NEW a \in Actors, ops[a].pc \in {"search", "rewrite", "close", "verdict"},
           NEW pc \in {"text", "resolve"}, ops[a].pc = "search" <=> pc = "text",
           Move(a, [ops[a] EXCEPT !.pc = pc])
    PROVE  DoingInv'
<1>1. PICK op : op = [ops[a] EXCEPT !.pc = pc]
  BY Zenon
<1>2. op.pc = pc /\ op.id = ops[a].id /\ op.target = ops[a].target /\ op.fact = ops[a].fact
  BY <1>1 DEF TypeOK, Ops
<1>3. Doing(commits.at, used.facts, ops[a])
  BY Zenon DEF ChainInv, DoingInv
<1>4. Doing(commits.at, used.facts, op)
  BY Zenon, <1>2, <1>3 DEF Doing, Writing
<1>5. Writing(op) => Writing(ops[a]) /\ op.id = ops[a].id
  BY Zenon, <1>2 DEF Writing
<1>. QED
  BY Zenon, <1>1, <1>4, <1>5, MoveDoing DEF ChainInv

(* The store closes a row with a successor that was inserted after it.       *)
LEMMA CloseChain ==
    ASSUME TypeOK, ChainInv, NEW a \in Actors, Close(a)
    PROVE  ChainInv'
<1>1. /\ UNCHANGED <<pending, commits, history, used>> /\ ops[a].pc = "close"
      /\ Doing(commits.at, used.facts, ops[a])
  BY Zenon DEF Close, At, ChainInv, DoingInv
<1>2. DoingInv'
  <2>1. CASE Move(a, NoOp)
    BY Zenon, <1>1, <2>1, DoneDoing
  <2>2. CASE To(a, "resolve")
    BY Zenon, <1>1, <2>2, OnDoing DEF To
  <2>. QED
    BY Zenon, <2>1, <2>2 DEF Close
<1>3. CASE ~Stored(ops[a].target)
  BY Zenon, <1>1, <1>2, <1>3, QuietChain DEF Close, CloseRow
<1>4. CASE Stored(ops[a].target)
  <2>1. PICK o : o = ops[a].target
    BY Zenon
  <2>2. PICK n : n = ops[a].id
    BY Zenon
  <2>3. o \in DOMAIN facts /\ o \in Ids /\ o # 0 /\ n \in 0..MaxFacts
    BY <1>4, <2>1, <2>2 DEF Stored, TypeOK, Ids, Ops
  <2>4. Older(commits.at, o, n) /\ commits.at[n] # 0
    BY Zenon, <1>1, <2>1, <2>2, <2>3 DEF Doing
  <2>5. commits.at[o] # 0 /\ commits.at[o] < commits.at[n]
    BY Zenon, <2>4 DEF Older
  <2>6. facts[o] \in Rows /\ facts[o].f \in Facts
    BY Zenon, <2>3 DEF TypeOK, Rows
  <2>7. facts' = [facts EXCEPT ![o].f.by = n]
    BY Zenon, <1>4, <2>1, <2>2 DEF Close, CloseRow
  <2>8. DOMAIN facts' = DOMAIN facts /\ \A j \in DOMAIN facts : j # o => facts'[j] = facts[j]
    BY Zenon, <2>7
  <2>9. facts'[o].f.by = n /\ facts'[o].f.of = facts[o].f.of
    BY Zenon, <2>3, <2>6, <2>7 DEF Rows, Facts
  <2>10. \A j \in DOMAIN facts' : Linked(commits.at, j, facts'[j].f)
    BY Zenon, <2>3, <2>5, <2>8, <2>9 DEF ChainInv, LinkInv, Linked
  <2>. QED
    BY Zenon, <1>1, <1>2, <2>8, <2>10, TableChain DEF ChainInv
<1>. QED
  BY Zenon, <1>3, <1>4

(* validate() works on an id that was inserted, with the row it read.        *)
LEMMA ValidateChain ==
    ASSUME TypeOK, ChainInv, NEW a \in Actors, NEW i \in Ids, NEW force, Validate(a, i, force)
    PROVE  ChainInv'
<1>1. UNCHANGED <<facts, pending, commits>> /\ used'.facts = used.facts
      /\ history'.purged = history.purged
  BY Zenon DEF Validate, Call, TypeOK
<1>2. PICK f : f = IF Gettable(i) THEN facts[i].f ELSE NoFact
  BY Zenon
<1>3. f # NoFact => Linked(commits.at, i, f)
  BY Zenon, <1>2 DEF Gettable, Stored, ChainInv, LinkInv
<1>4. PICK op : op = [kind |-> "validate", pc |-> "promote", id |-> i, target |-> 0, fact |-> f]
  BY Zenon
<1>5. op.pc = "promote" /\ op.id = i /\ op.target = 0 /\ op.fact = f
  BY Zenon, <1>4
<1>6. commits.at[i] # 0 /\ i <= used.facts
  BY Zenon DEF Validate, ChainInv, OrderInv
<1>7. Doing(commits.at, used.facts, op) /\ ~Writing(op)
  BY Zenon, <1>3, <1>5, <1>6 DEF Doing, Writing
<1>8. DoingInv'
  <2>1. CASE Refused(i, force)
    BY <1>1, <2>1 DEF Validate, ChainInv, DoingInv, Doing, Writing
  <2>2. CASE ~Refused(i, force)
    BY Zenon, <1>1, <1>2, <1>4, <1>7, <2>2, MoveDoing DEF Validate, ChainInv
  <2>. QED
    BY Zenon, <2>1, <2>2
<1>. QED
  BY Zenon, <1>1, <1>8, QuietChain

(* validate's next statements: the link it follows is the row's own.         *)
LEMMA PromoteChain ==
    ASSUME TypeOK, ChainInv, NEW a \in Actors, Promote(a) \/ FetchOld(a)
    PROVE  ChainInv'
<1>1. UNCHANGED <<pending, commits, history, used>>
  BY Zenon DEF Promote, FetchOld
<1>2. Held(ops[a]) /\ Doing(commits.at, used.facts, ops[a])
  BY Zenon, TypeParts DEF OpsOK, ChainInv, DoingInv
<1>3. CASE Promote(a)
  <2>1. DOMAIN facts' = DOMAIN facts
        /\ \A j \in DOMAIN facts : facts'[j].f.by = facts[j].f.by /\ facts'[j].f.of = facts[j].f.of
    <3>1. \A j \in DOMAIN facts : facts[j] \in Rows
      BY Zenon DEF TypeOK
    <3>2. CASE Stored(ops[a].id)
      <4>1. facts' = [facts EXCEPT ![ops[a].id].f.status = "active"]
        BY Zenon, <1>3, <3>2 DEF Promote, SetActive
      <4>. QED
        BY Zenon, <3>1, <4>1 DEF Rows, Facts
    <3>3. CASE ~Stored(ops[a].id)
      BY Zenon, <1>3, <3>3 DEF Promote, SetActive
    <3>. QED
      BY Zenon, <3>2, <3>3
  <2>2. CASE Move(a, NoOp)
    BY Zenon, <1>1, <2>1, <2>2, DoneDoing, QuietChain
  <2>3. CASE ops[a].fact # NoFact /\ ops[a].fact.of # 0
             /\ Move(a, [ops[a] EXCEPT !.pc = "fetchOld", !.target = ops[a].fact.of])
    <3>1. PICK op : op = [ops[a] EXCEPT !.pc = "fetchOld", !.target = ops[a].fact.of]
      BY Zenon
    <3>2. op.pc = "fetchOld" /\ op.id = ops[a].id /\ op.target = ops[a].fact.of
          /\ op.fact = ops[a].fact
      BY Zenon, <1>2, <3>1 DEF Held, Ops
    <3>3. ops[a].pc = "promote"
      BY Zenon, <1>3 DEF Promote, At
    <3>4. Doing(commits.at, used.facts, op) /\ ~Writing(op)
      BY Zenon, <1>2, <2>3, <3>2, <3>3 DEF Doing, Linked, Writing
    <3>5. DoingInv'
      BY Zenon, <1>1, <2>3, <3>1, <3>4, MoveDoing DEF ChainInv
    <3>. QED
      BY Zenon, <1>1, <2>1, <3>5, QuietChain
  <2>. QED
    BY Zenon, <1>3, <2>2, <2>3 DEF Promote
<1>4. CASE FetchOld(a)
  <2>0. UNCHANGED facts /\ ops[a].pc = "fetchOld"
    BY Zenon, <1>4 DEF FetchOld, At
  <2>1. ops[a].fact \in Facts /\ ops[a].fact # NoFact
    BY Zenon, <1>2, <2>0 DEF Held, Ops
  <2>2. PICK f : f = [ops[a].fact EXCEPT !.status = "active"]
    BY Zenon
  <2>3. f.by = ops[a].fact.by /\ f.of = ops[a].fact.of
    BY Zenon, <2>1, <2>2 DEF Facts
  <2>4. PICK op : op = [ops[a] EXCEPT !.pc = "rewrite", !.fact = f]
    BY Zenon
  <2>5. op.pc = "rewrite" /\ op.id = ops[a].id /\ op.target = ops[a].target /\ op.fact = f
    BY Zenon, <1>2, <2>4 DEF Held, Ops
  <2>6. Doing(commits.at, used.facts, op) /\ ~Writing(op)
    BY Zenon, <1>2, <2>0, <2>1, <2>3, <2>5 DEF Doing, Linked, Writing
  <2>7. Move(a, NoOp) \/ Move(a, op)
    BY Zenon, <1>4, <2>2, <2>4 DEF FetchOld
  <2>8. DoingInv'
    <3>1. CASE Move(a, NoOp)
      BY Zenon, <1>1, <3>1, DoneDoing
    <3>2. CASE Move(a, op)
      BY Zenon, <1>1, <2>6, <3>2, MoveDoing DEF ChainInv
    <3>. QED
      BY Zenon, <2>7, <3>1, <3>2
  <2>. QED
    BY Zenon, <1>1, <2>0, <2>8, QuietChain
<1>. QED
  BY Zenon, <1>3, <1>4

(* forget, archive and purge set no link.                                    *)
LEMMA RemoveChain ==
    ASSUME TypeOK, ChainInv, NEW a, NEW i \in Ids, Forget(a, i) \/ ArchiveFact(a, i) \/ Purge(a, i)
    PROVE  ChainInv'
<1>1. UNCHANGED <<ops, pending, commits>> /\ used'.facts = used.facts
  BY Zenon DEF Forget, ArchiveFact, Purge, Call, TypeOK
<1>2. DoingInv'
  BY Zenon, <1>1 DEF ChainInv, DoingInv, Doing, Writing
<1>3. \A j \in DOMAIN facts : facts[j] \in Rows
  BY Zenon DEF TypeOK
<1>4. CASE Forget(a, i)
  <2>1. Stored(i) /\ UNCHANGED history
    BY Zenon, <1>4 DEF Forget, Gettable
  <2>2. facts' = [facts EXCEPT ![i].deleted = TRUE, ![i].archived = TRUE, ![i].vec = FALSE]
    BY Zenon, <1>4, <2>1 DEF Forget, Tombstone
  <2>3. DOMAIN facts' = DOMAIN facts /\ \A j \in DOMAIN facts : facts'[j].f = facts[j].f
    BY Zenon, <1>3, <2>2 DEF Rows
  <2>. QED
    BY Zenon, <1>1, <1>2, <2>1, <2>3, QuietChain
<1>5. CASE ArchiveFact(a, i)
  <2>1. facts' = [facts EXCEPT ![i].archived = TRUE] /\ UNCHANGED history
    BY Zenon, <1>5 DEF ArchiveFact
  <2>2. DOMAIN facts' = DOMAIN facts /\ \A j \in DOMAIN facts : facts'[j].f = facts[j].f
    BY Zenon, <1>3, <2>1 DEF Rows
  <2>. QED
    BY Zenon, <1>1, <1>2, <2>1, <2>2, QuietChain
<1>6. CASE Purge(a, i)
  <2>1. /\ DOMAIN facts' = DOMAIN facts \ {i} /\ i \in DOMAIN facts
        /\ \A j \in DOMAIN facts' : facts'[j] = facts[j]
        /\ history'.purged = history.purged \cup {i}
    BY Zenon, <1>6 DEF Purge, Stored, TypeOK
  <2>2. DOMAIN facts' \cup history'.purged = DOMAIN facts \cup history.purged
    BY Zenon, <2>1
  <2>. QED
    BY Zenon, <1>1, <1>2, <2>1, <2>2, QuietChain
<1>. QED
  BY Zenon, <1>4, <1>5, <1>6

(* A pending row that only changes its state.                                *)
LEMMA PendingChain ==
    ASSUME TypeOK, ChainInv, DoingInv', UNCHANGED <<facts, commits, history, used>>,
           NEW i \in Ids, i <= used.facts, NEW st, pending' = [pending EXCEPT ![i].state = st]
    PROVE  ChainInv'
<1>1. OrderInv'
  BY Zenon DEF ChainInv, OrderInv
<1>2. \A j \in Ids : pending'[j].against = pending[j].against
                     /\ (j # i => pending'[j].state = pending[j].state)
  BY DEF TypeOK
<1>3. LinkInv'
  BY Zenon, <1>2 DEF ChainInv, LinkInv, Linked, Older
<1>. QED
  BY Zenon, <1>1, <1>3 DEF ChainInv

(* The judge links a candidate to a fact that was inserted before it.        *)
LEMMA JudgeChain ==
    ASSUME TypeOK, ChainInv,
           \/ \E i \in Ids : JudgeNext(i)
           \/ VerdictSupersede \/ VerdictDedup \/ VerdictAdmit \/ VerdictFails \/ MarkResolved
    PROVE  ChainInv'
<1>1. UNCHANGED <<commits, history, used>> /\ Judge \in Actors
      /\ Held(ops[Judge]) /\ Doing(commits.at, used.facts, ops[Judge])
  BY Zenon, TypeParts DEF JudgeNext, VerdictSupersede, VerdictDedup, VerdictAdmit, VerdictFails,
                   MarkResolved, OpsOK, Actors, ChainInv, DoingInv
<1>2. \A j \in DOMAIN facts : facts[j] \in Rows
  BY Zenon DEF TypeOK
<1>3. CASE \E i \in Ids : JudgeNext(i)
  <2>1. PICK i \in Ids : JudgeNext(i)
    BY Zenon, <1>3
  <2>2. i <= used.facts
        /\ (pending[i].against # 0 => Older(commits.at, pending[i].against, i))
    BY ZenonT(30), <2>1 DEF JudgeNext, Unresolved, ChainInv, LinkInv
  <2>3. CASE Gettable(pending[i].against)
    <3>1. PICK op : op = [NoOp EXCEPT !.kind = "judge", !.pc = "verdict", !.id = i,
                                      !.target = pending[i].against]
      BY Zenon
    <3>2. op.pc = "verdict" /\ op.id = i /\ op.target = pending[i].against /\ op.fact = NoFact
      BY Zenon, <3>1 DEF NoOp
    <3>3. Doing(commits.at, used.facts, op) /\ ~Writing(op)
      BY Zenon, <2>2, <3>2 DEF Doing, Writing
    <3>4. DoingInv'
      BY Zenon, <1>1, <2>1, <2>3, <3>1, <3>3, MoveDoing DEF ChainInv, JudgeNext
    <3>. QED
      BY Zenon, <1>1, <2>1, <2>3, <3>4, QuietChain DEF JudgeNext
  <2>4. CASE ~Gettable(pending[i].against)
    <3>1. UNCHANGED <<ops, facts>> /\ pending' = [pending EXCEPT ![i].state = "resolved"]
      BY Zenon, <2>1, <2>4 DEF JudgeNext, Resolve
    <3>2. DoingInv'
      BY Zenon, <1>1, <3>1 DEF ChainInv, DoingInv, Doing, Writing
    <3>. QED
      BY Zenon, <1>1, <2>2, <3>1, <3>2, PendingChain
  <2>. QED
    BY Zenon, <2>3, <2>4
<1>4. ASSUME ops[Judge].pc = "verdict", To(Judge, "resolve")
      PROVE  DoingInv'
  BY Zenon, <1>1, <1>4, OnDoing DEF To
<1>. DEFINE i == ops[Judge].id
            o == ops[Judge].target
<1>5. CASE VerdictSupersede
  <2>0. ops[Judge].pc = "verdict" /\ UNCHANGED pending
    BY Zenon, <1>5 DEF VerdictSupersede, At
  <2>1. CASE ~Gettable(i)
    <3>1. To(Judge, "resolve") /\ UNCHANGED facts
      BY Zenon, <1>5, <2>1 DEF VerdictSupersede
    <3>. QED
      BY Zenon, <1>1, <1>4, <2>0, <3>1, QuietChain
  <2>2. CASE Gettable(i) /\ facts[i].f.status = "quarantined"
    <3>1. To(Judge, "resolve") /\ facts' = [facts EXCEPT ![i].f.of = o] /\ i \in DOMAIN facts
      BY Zenon, <1>5, <2>2 DEF VerdictSupersede, LinkPendingSupersede, Gettable, Stored
    <3>2. DOMAIN facts' = DOMAIN facts /\ \A j \in DOMAIN facts : j # i => facts'[j] = facts[j]
      BY Zenon, <3>1
    <3>3. facts'[i].f.by = facts[i].f.by /\ facts'[i].f.of = o
      BY Zenon, <1>2, <3>1 DEF Rows, Facts
    <3>4. o # 0 => Older(commits.at, o, i)
      BY Zenon, <1>1 DEF Doing
    <3>5. \A j \in DOMAIN facts' : Linked(commits.at, j, facts'[j].f)
      BY <3>1, <3>2, <3>3, <3>4 DEF ChainInv, LinkInv, Linked
    <3>. QED
      BY Zenon, <1>1, <1>4, <2>0, <3>1, <3>2, <3>5, TableChain DEF ChainInv
  <2>3. CASE Gettable(i) /\ facts[i].f.status = "active"
    <3>1. PICK op : op = [ops[Judge] EXCEPT !.pc = "rewrite", !.fact = facts[i].f]
      BY Zenon
    <3>2. Move(Judge, op) /\ UNCHANGED facts
      BY Zenon, <1>5, <2>3, <3>1 DEF VerdictSupersede
    <3>3. op.pc = "rewrite" /\ op.id = i /\ op.target = o /\ op.fact = facts[i].f
      BY Zenon, <1>1, <3>1 DEF Held, Ops
    <3>4. Linked(commits.at, i, facts[i].f) /\ commits.at[i] # 0
      BY Zenon, <2>3 DEF Gettable, Stored, ChainInv, LinkInv, OrderInv
    <3>5. Doing(commits.at, used.facts, op) /\ ~Writing(op)
      BY Zenon, <1>1, <3>3, <3>4 DEF Doing, Writing
    <3>6. DoingInv'
      BY Zenon, <1>1, <3>2, <3>5, MoveDoing DEF ChainInv
    <3>. QED
      BY Zenon, <1>1, <2>0, <3>2, <3>6, QuietChain
  <2>4. Gettable(i) => facts[i].f.status \in {"active", "quarantined"}
    BY Zenon, <1>2 DEF Gettable, Stored, Rows, Facts, Statuses
  <2>. QED
    BY Zenon, <2>1, <2>2, <2>3, <2>4
<1>6. CASE VerdictDedup
  <2>1. ops[Judge].pc = "verdict" /\ To(Judge, "resolve") /\ UNCHANGED pending
    BY Zenon, <1>6 DEF VerdictDedup, At
  <2>2. CASE ~Stored(i)
    BY Zenon, <1>1, <1>4, <1>6, <2>1, <2>2, QuietChain DEF VerdictDedup, Tombstone
  <2>3. CASE Stored(i)
    <3>1. facts' = [facts EXCEPT ![i].deleted = TRUE, ![i].archived = TRUE, ![i].vec = FALSE]
      BY Zenon, <1>6, <2>3 DEF VerdictDedup, Tombstone
    <3>2. DOMAIN facts' = DOMAIN facts /\ \A j \in DOMAIN facts : facts'[j].f = facts[j].f
      BY Zenon, <1>2, <3>1 DEF Rows
    <3>. QED
      BY Zenon, <1>1, <1>4, <2>1, <3>2, QuietChain
  <2>. QED
    BY Zenon, <2>2, <2>3
<1>7. CASE VerdictAdmit
  <2>1. ops[Judge].pc = "verdict" /\ To(Judge, "resolve") /\ UNCHANGED <<facts, pending>>
    BY Zenon, <1>7 DEF VerdictAdmit, At
  <2>. QED
    BY Zenon, <1>1, <1>4, <2>1, QuietChain
<1>8. CASE VerdictFails \/ MarkResolved
  <2>1. DoingInv'
    BY Zenon, <1>1, <1>8, DoneDoing DEF VerdictFails, MarkResolved
  <2>2. i \in Ids /\ i <= used.facts /\ UNCHANGED facts
    <3>1. ops[Judge].pc \in {"verdict", "resolve"} /\ UNCHANGED facts
      BY Zenon, <1>8 DEF VerdictFails, MarkResolved, At
    <3>2. ops[Judge].id \in 0..MaxFacts /\ ops[Judge].id # 0
      BY Zenon, <1>1, <3>1 DEF Held, Ops
    <3>. QED
      BY <1>1, <3>1, <3>2, FactsAssumption DEF Ids, Doing
  <2>3. \E st \in {"attempted", "resolved"} : pending' = [pending EXCEPT ![i].state = st]
    BY Zenon, <1>8 DEF VerdictFails, MarkResolved, Resolve
  <2>. QED
    BY Zenon, <1>1, <2>1, <2>2, <2>3, PendingChain
<1>. QED
  BY Zenon, <1>3, <1>5, <1>6, <1>7, <1>8

(* Nothing is inserted at first.                                             *)
LEMMA InitChain == Init => ChainInv
<1>. SUFFICES ASSUME Init PROVE ChainInv
  BY Zenon
<1>1. OrderInv
  BY FactsAssumption DEF Init, OrderInv
<1>2. LinkInv
  BY DEF Init, LinkInv
<1>3. \A a \in Actors : ops[a] = NoOp /\ used.facts = 0
  BY Zenon DEF Init
<1>4. DoingInv
  BY Zenon, <1>3, NoOpDoing DEF DoingInv
<1>. QED
  BY Zenon, <1>1, <1>2, <1>4 DEF ChainInv

(* Every step keeps the order and the links.                                 *)
LEMMA ChainStep == TypeOK /\ ChainInv /\ [Next]_vars => ChainInv'
<1>. SUFFICES ASSUME TypeOK, ChainInv, [Next]_vars PROVE ChainInv'
  BY Zenon
<1>1. CASE UNCHANGED vars
  <2>1. DoingInv'
    BY Zenon, <1>1 DEF vars, ChainInv, DoingInv, Doing, Writing
  <2>. QED
    BY Zenon, <1>1, <2>1, QuietChain DEF vars
<1>2. ASSUME NEW a \in Callers, CallerStep(a)
      PROVE  ChainInv'
  <2>0. a \in Actors /\ 0 \in 0..MaxFacts
    BY Bounds DEF Actors
  <2>1. ASSUME NEW t \in cf.texts, NEW prov \in Provenances, Remember(a, t, prov)
        PROVE  ChainInv'
    <3>1. PICK pc \in {"search", "text"} : pc = IF cf.embedder THEN "search" ELSE "text"
      BY Zenon
    <3>2. Write(a, "remember", pc, t, prov, FALSE, 0)
      BY Zenon, <2>1, <3>1 DEF Remember
    <3>. QED
      BY Zenon, <2>0, <3>1, <3>2, WriteChain
  <2>2. ASSUME NEW t \in cf.texts, Add(a, t)
        PROVE  ChainInv'
    BY Zenon, <2>0, <2>2, WriteChain DEF Add
  <2>3. ASSUME NEW t \in cf.texts, NEW prov \in Provenances, NEW old \in Ids,
               Supersede(a, t, prov, old)
        PROVE  ChainInv'
    <3>1. PICK auto : auto = (prov = "extraction" /\ AllowImmediateSupersede(old))
      BY Zenon
    <3>2. old \in 0..MaxFacts /\ Stored(old)
      BY <2>3 DEF Ids, Supersede, Current
    <3>3. Write(a, "supersede", "commit", t, prov, auto, old)
      BY Zenon, <2>3, <3>1 DEF Supersede
    <3>. QED
      BY Zenon, <2>0, <3>2, <3>3, WriteChain
  <2>4. ASSUME NEW i \in Ids, NEW force \in BOOLEAN, Validate(a, i, force)
        PROVE  ChainInv'
    BY Zenon, <2>0, <2>4, ValidateChain
  <2>5. ASSUME NEW i \in Ids, Forget(a, i) \/ ArchiveFact(a, i) \/ Purge(a, i)
        PROVE  ChainInv'
    BY Zenon, <2>5, RemoveChain
  <2>6. CASE SearchVectors(a)
    <3>1. CASE VectorHits # {}
      BY Zenon, <2>0, <2>6, <3>1, DecidedChain DEF SearchVectors, At
    <3>2. CASE VectorHits = {}
      <4>1. To(a, "text") /\ ops[a].pc = "search" /\ UNCHANGED <<facts, pending, commits, history, used>>
        BY Zenon, <2>6, <3>2 DEF SearchVectors, At
      <4>2. DoingInv'
        BY Zenon, <2>0, <4>1, OnDoing DEF To
      <4>. QED
        BY Zenon, <4>1, <4>2, QuietChain
    <3>. QED
      BY Zenon, <3>1, <3>2
  <2>7. CASE SearchText(a)
    BY Zenon, <2>0, <2>7, DecidedChain DEF SearchText, At
  <2>8. CASE CommitFact(a)
    BY Zenon, <2>0, <2>8, UpsertChain DEF CommitFact, To, At
  <2>9. CASE Rewrite(a)
    BY Zenon, <2>0, <2>9, UpsertChain DEF Rewrite, To, At
  <2>10. CASE Close(a)
    BY Zenon, <2>0, <2>10, CloseChain
  <2>11. CASE Promote(a) \/ FetchOld(a)
    BY Zenon, <2>0, <2>11, PromoteChain
  <2>. QED
    BY Zenon, <1>2, <2>1, <2>2, <2>3, <2>4, <2>5, <2>6, <2>7, <2>8, <2>9, <2>10, <2>11
       DEF CallerStep, Continue
<1>3. CASE JudgeStep
  <2>0. Judge \in Actors
    BY Zenon DEF Actors
  <2>1. CASE Rewrite(Judge)
    BY Zenon, <2>0, <2>1, UpsertChain DEF Rewrite, To, At
  <2>2. CASE Close(Judge)
    BY Zenon, <2>0, <2>2, CloseChain
  <2>. QED
    BY Zenon, <1>3, <2>1, <2>2, JudgeChain DEF JudgeStep
<1>4. ASSUME NEW a \in Actors, Abandon(a)
      PROVE  ChainInv'
  <2>1. UNCHANGED <<facts, pending, commits, history>> /\ used'.facts = used.facts /\ Move(a, NoOp)
    BY Zenon, <1>4 DEF Abandon, TypeOK
  <2>2. DoingInv'
    BY Zenon, <2>1, DoneDoing
  <2>. QED
    BY Zenon, <2>1, <2>2, QuietChain
<1>. QED
  BY Zenon, <1>1, <1>2, <1>3, <1>4 DEF Next

(* superseded_by leads from a row to one inserted after it and supersedes to *)
(* one inserted before it, whatever the pipeline, validate and the judge     *)
(* read before they set them: no chain of facts has a cycle.                 *)
THEOREM ChainsForwardSafe == Spec => []ChainsForward
<1>1. TypeOK /\ ChainInv => ChainsForward
  <2>. SUFFICES ASSUME TypeOK, ChainInv, NEW i \in DOMAIN facts
                PROVE  /\ facts[i].f.by # 0 => commits.at[i] < commits.at[facts[i].f.by]
                       /\ facts[i].f.of # 0 => commits.at[facts[i].f.of] < commits.at[i]
    BY Zenon DEF ChainsForward
  <2>1. commits.at[i] # 0 /\ Linked(commits.at, i, facts[i].f)
    BY Zenon DEF ChainInv, OrderInv, LinkInv
  <2>. QED
    BY Zenon, <2>1 DEF Linked, Older
<1>2. Init => TypeOK /\ ChainInv
  BY Zenon, InitType, InitChain
<1>3. TypeOK /\ ChainInv /\ [Next]_vars => (TypeOK /\ ChainInv)'
  BY Zenon, TypeStep, ChainStep
<1>. QED
  BY <1>1, <1>2, <1>3, PTL DEF Spec

-----------------------------------------------------------------------------
(* What a fact says, who vouched for it, and what it may close.              *)

SameText(f, g) == f.text = g.text /\ f.prov = g.prov

(* The facts the calls hold of one id, and its row, have one text: a write   *)
(* call builds it once, the others read it from the row.                     *)
TextInv ==
    /\ \A a \in Actors : ops[a].fact # NoFact /\ ops[a].id \in DOMAIN facts =>
          SameText(ops[a].fact, facts[ops[a].id].f)
    /\ \A a, b \in Actors : ops[a].fact # NoFact /\ ops[b].fact # NoFact
                            /\ ops[a].id = ops[b].id => SameText(ops[a].fact, ops[b].fact)

(* With fl the flagged texts, h the history and tb the table.                *)
Trusted(fl, h, i, f) ==
    f.status = "active" =>
        /\ f.text \in fl => i \in h.forced
        /\ f.prov = "extraction" => i \in h.promoted \cup h.auto

(* A validate() that found no row to judge works on a tombstone.             *)
Vouched(fl, h, tb, op) ==
    /\ op.fact # NoFact /\ op.id \notin h.purged => Trusted(fl, h, op.id, op.fact)
    /\ op.pc \in {"promote", "fetchOld"} =>
          /\ op.id \in h.promoted
          /\ op.fact # NoFact /\ op.fact.text \in fl => op.id \in h.forced
          /\ op.fact = NoFact =>
                op.id \in h.purged \/ (op.id \in DOMAIN tb /\ tb[op.id].deleted)

Live(h, tb, n) ==
    n \in h.purged \cup h.piped \/ (n \in DOMAIN tb /\ tb[n].f.status = "active")

Closing(h, tb, op) ==
    /\ op.fact # NoFact /\ op.fact.by # 0 => Live(h, tb, op.fact.by)
    /\ op.pc \in {"rewrite", "close"} => op.fact.status = "active" \/ op.id \in h.piped
    /\ op.pc = "close" => Live(h, tb, op.id)
    /\ op.pc = "commit" /\ op.kind = "remember" /\ op.target # 0 => op.id \in h.piped

OpSafe(fl, h, tb, op) == Vouched(fl, h, tb, op) /\ Closing(h, tb, op)

RowSafe(fl, h, tb, i) ==
    /\ i \in h.purged \/ tb[i].deleted \/ Trusted(fl, h, i, tb[i].f)
    /\ tb[i].f.by # 0 => Live(h, tb, tb[i].f.by)

SafeInv ==
    /\ \A i \in DOMAIN facts : RowSafe(cf.flagged, history, facts, i)
    /\ \A a \in Actors : OpSafe(cf.flagged, history, facts, ops[a])

Later(h, h2) ==
    /\ h.piped \subseteq h2.piped
    /\ h.promoted \subseteq h2.promoted
    /\ h.forced \subseteq h2.forced
    /\ h.auto \subseteq h2.auto
    /\ h.purged \subseteq h2.purged

(* What every step does to the history and the table: a tombstone is only    *)
(* lifted by a purge, and an active row stays so unless the pipeline wrote   *)
(* it.                                                                       *)
Evolves(h, tb, h2, tb2) ==
    /\ Later(h, h2)
    /\ \A i \in DOMAIN tb \ h2.purged :
          /\ i \in DOMAIN tb2
          /\ tb[i].deleted => tb2[i].deleted
          /\ tb[i].f.status = "active" => tb2[i].f.status = "active" \/ i \in h2.piped

(* A row that was live is live after a step, and a call in progress is as    *)
(* safe as it was.                                                           *)
LEMMA StaysLive ==
    ASSUME NEW h, NEW tb, NEW h2, NEW tb2, Evolves(h, tb, h2, tb2)
    PROVE  /\ \A n : Live(h, tb, n) => Live(h2, tb2, n)
           /\ \A fl, i, f : Trusted(fl, h, i, f) => Trusted(fl, h2, i, f)
<1>1. \A n : Live(h, tb, n) => Live(h2, tb2, n)
  BY Zenon DEF Evolves, Later, Live
<1>2. \A fl, i, f : Trusted(fl, h, i, f) => Trusted(fl, h2, i, f)
  BY Zenon DEF Evolves, Later, Trusted
<1>. QED
  BY Zenon, <1>1, <1>2

(* The same for a call.                                                      *)
LEMMA StaysSafe ==
    ASSUME NEW h, NEW tb, NEW h2, NEW tb2, Evolves(h, tb, h2, tb2), NEW fl, NEW op,
           OpSafe(fl, h, tb, op)
    PROVE  OpSafe(fl, h2, tb2, op)
<1>1. Vouched(fl, h2, tb2, op)
  <2>1. op.fact # NoFact /\ op.id \notin h2.purged => Trusted(fl, h2, op.id, op.fact)
    BY ZenonT(30), StaysLive DEF OpSafe, Vouched, Evolves, Later
  <2>2. op.pc \in {"promote", "fetchOld"} =>
          /\ op.id \in h2.promoted
          /\ op.fact # NoFact /\ op.fact.text \in fl => op.id \in h2.forced
          /\ op.fact = NoFact =>
                op.id \in h2.purged \/ (op.id \in DOMAIN tb2 /\ tb2[op.id].deleted)
    BY Zenon DEF OpSafe, Vouched, Evolves, Later
  <2>. QED
    BY Zenon, <2>1, <2>2 DEF Vouched
<1>2. Closing(h2, tb2, op)
  <2>1. op.fact # NoFact /\ op.fact.by # 0 => Live(h2, tb2, op.fact.by)
    BY SMTT(30), StaysLive DEF OpSafe, Closing
  <2>2. op.pc = "close" => Live(h2, tb2, op.id)
    BY Zenon, StaysLive DEF OpSafe, Closing
  <2>3. op.id \in h.piped => op.id \in h2.piped
    BY Zenon DEF Evolves, Later
  <2>. QED
    BY Zenon, <2>1, <2>2, <2>3 DEF OpSafe, Closing
<1>. QED
  BY Zenon, <1>1, <1>2 DEF OpSafe

(* A step of one actor.                                                      *)
LEMMA SafeStep ==
    ASSUME SafeInv, cf' = cf, Evolves(history, facts, history', facts'),
           NEW a, NEW op, \A b \in Actors : ops'[b] = IF b = a THEN op ELSE ops[b],
           OpSafe(cf.flagged, history', facts', op),
           \A i \in DOMAIN facts' : RowSafe(cf.flagged, history', facts', i)
    PROVE  SafeInv'
<1>1. \A b \in Actors : OpSafe(cf.flagged, history', facts', ops[b])
  BY Zenon, StaysSafe DEF SafeInv
<1>2. \A b \in Actors : OpSafe(cf'.flagged, history', facts', ops'[b])
  BY Zenon, <1>1
<1>3. \A i \in DOMAIN facts' : RowSafe(cf'.flagged, history', facts', i)
  BY Zenon
<1>. QED
  BY ZenonT(30), <1>2, <1>3 DEF SafeInv, OpSafe, RowSafe, Vouched, Closing, Trusted, Live

FateInv == TextInv /\ SafeInv

(* Whom a call has its fact from: itself, the row, or nobody yet.            *)
Sourced(a, op) ==
    \/ op.fact = NoFact
    \/ ops[a].fact # NoFact /\ op.id = ops[a].id /\ SameText(op.fact, ops[a].fact)
    \/ op.id \in DOMAIN facts /\ SameText(op.fact, facts[op.id].f)
    \/ op.id \notin DOMAIN facts /\ \A b \in Actors : ops[b].id # op.id

(* A step that leaves the rows' texts alone.                                 *)
LEMMA TextMove ==
    ASSUME TextInv, NEW a \in Actors, NEW op, Sourced(a, op),
           \A b \in Actors : ops'[b] = IF b = a THEN op ELSE ops[b],
           \A i \in DOMAIN facts' : i \in DOMAIN facts /\ SameText(facts'[i].f, facts[i].f)
    PROVE  TextInv'
<1>1. \A b \in Actors : ops'[b].fact # NoFact /\ ops'[b].id \in DOMAIN facts' =>
          SameText(ops'[b].fact, facts'[ops'[b].id].f)
  BY SMTT(30) DEF TextInv, Sourced, SameText
<1>2. \A b, c \in Actors : ops'[b].fact # NoFact /\ ops'[c].fact # NoFact
                           /\ ops'[b].id = ops'[c].id => SameText(ops'[b].fact, ops'[c].fact)
  <2>1. \A c \in Actors : c # a /\ op.fact # NoFact /\ ops[c].fact # NoFact /\ op.id = ops[c].id
                          => SameText(op.fact, ops[c].fact)
    BY DEF TextInv, Sourced, SameText
  <2>2. \A f, g : SameText(f, g) => SameText(g, f)
    BY Zenon DEF SameText
  <2>3. SameText(op.fact, op.fact)
    BY Zenon DEF SameText
  <2>. QED
    BY ZenonT(30), <2>1, <2>2, <2>3 DEF TextInv
<1>. QED
  BY Zenon, <1>1, <1>2 DEF TextInv, SameText

(* The rows are safe when only their other fields change.                    *)
LEMMA RowsSafe ==
    ASSUME SafeInv, Evolves(history, facts, history', facts'),
           \A i \in DOMAIN facts' : /\ i \in DOMAIN facts
                                    /\ SameText(facts'[i].f, facts[i].f)
                                    /\ facts'[i].f.status = facts[i].f.status
                                    /\ facts[i].deleted => facts'[i].deleted
                                    /\ \/ facts'[i].f.by = facts[i].f.by
                                       \/ Live(history', facts', facts'[i].f.by)
    PROVE  \A i \in DOMAIN facts' : RowSafe(cf.flagged, history', facts', i)
<1>. SUFFICES ASSUME NEW i \in DOMAIN facts'
              PROVE  RowSafe(cf.flagged, history', facts', i)
  BY Zenon
<1>1. RowSafe(cf.flagged, history, facts, i)
  BY ZenonT(30) DEF SafeInv
<1>2. facts'[i].f.by # 0 => Live(history', facts', facts'[i].f.by)
  BY Zenon, <1>1, StaysLive DEF RowSafe
<1>3. Trusted(cf.flagged, history, i, facts[i].f) => Trusted(cf.flagged, history, i, facts'[i].f)
  BY Zenon DEF Trusted, SameText
<1>4. i \in history'.purged \/ facts'[i].deleted \/ Trusted(cf.flagged, history', i, facts'[i].f)
  BY Zenon, <1>1, <1>3, StaysLive DEF RowSafe, Evolves, Later
<1>. QED
  BY ZenonT(30), <1>2, <1>4 DEF RowSafe

(* A step that changes no row, with a history that only grows.               *)
LEMMA StillSafe ==
    ASSUME SafeInv, facts' = facts, Later(history, history')
    PROVE  /\ Evolves(history, facts, history', facts')
           /\ \A i \in DOMAIN facts' : RowSafe(cf.flagged, history', facts', i)
<1>1. Evolves(history, facts, history', facts')
  BY Zenon DEF Evolves
<1>. QED
  BY Zenon, <1>1, RowsSafe DEF SameText

(* An actor that is done holds nothing.                                      *)
LEMMA NoOpSafe == \A fl, h, tb : OpSafe(fl, h, tb, NoOp) /\ NoOp.fact = NoFact
  BY Zenon DEF OpSafe, Vouched, Closing, NoOp

(* The same history is a later one.                                          *)
LEMMA SameLater == history' = history => Later(history, history')
  BY Zenon DEF Later

(* A step that changes neither rows nor history.                             *)
LEMMA QuietFate ==
    ASSUME FateInv, UNCHANGED <<cf, facts, history>>, NEW a \in Actors, NEW op,
           \A b \in Actors : ops'[b] = IF b = a THEN op ELSE ops[b],
           Sourced(a, op), OpSafe(cf.flagged, history, facts, op)
    PROVE  FateInv'
<1>1. TextInv'
  BY Zenon, TextMove DEF FateInv, SameText
<1>2. OpSafe(cf.flagged, history', facts', op)
  BY Zenon
<1>3. SafeInv'
  <2>1. SafeInv /\ facts' = facts /\ cf' = cf /\ Later(history, history')
    BY Zenon, SameLater DEF FateInv
  <2>2. /\ Evolves(history, facts, history', facts')
        /\ \A i \in DOMAIN facts' : RowSafe(cf.flagged, history', facts', i)
    BY <2>1, StillSafe, Zenon
  <2>. QED
    BY <1>2, <2>1, <2>2, SafeStep, SMT
<1>. QED
  BY Zenon, <1>1, <1>3 DEF FateInv

(* A new fact is quarantined unless nobody needs to vouch for it or the      *)
(* standard phase was told to.                                               *)
LEMMA WriteFate ==
    ASSUME TypeOK, ChainInv, FateInv, NEW a \in Actors, NEW kind,
           NEW pc \in {"search", "text", "commit"}, NEW t, NEW prov, NEW auto \in BOOLEAN,
           NEW old, kind = "remember" => old = 0, Write(a, kind, pc, t, prov, auto, old)
    PROVE  FateInv'
<1>0. PICK i : i = used.facts + 1
  BY Zenon
<1>1. UNCHANGED <<cf, facts>>
  BY Zenon DEF Write
<1>2. i \in Nat /\ used.facts < i
  BY <1>0, Drawn
<1>3. i \notin DOMAIN facts /\ \A b \in Actors : ops[b].id # i
  <2>1. \A j \in DOMAIN facts : j \in Ids /\ j <= used.facts
    BY Zenon DEF TypeOK, ChainInv, OrderInv
  <2>2. \A b \in Actors : ops[b].id <= used.facts
    BY Zenon DEF ChainInv, DoingInv, Doing
  <2>. QED
    BY <1>2, <2>1, <2>2, Drawn DEF Ids
<1>13. PICK held \in BOOLEAN :
          Move(a, [kind |-> kind, pc |-> pc, id |-> used.facts + 1, target |-> old,
                   fact |-> NewFact(t, prov, auto, held, old)])
  BY Zenon DEF Write
<1>4. PICK f : f = NewFact(t, prov, auto, held, old)
  BY Zenon
<1>5. /\ f.by = 0 /\ f.text = t /\ f.prov = prov
      /\ f.status = "active" => t \notin cf.flagged /\ (prov = "extraction" => auto)
  BY Zenon, <1>4 DEF NewFact, Status
<1>6. PICK op : op = [kind |-> kind, pc |-> pc, id |-> i, target |-> old, fact |-> f]
  BY Zenon
<1>7. op.id = i /\ op.pc = pc /\ op.target = old /\ op.fact = f /\ op.kind = kind
  BY Zenon, <1>6
<1>8. \A b \in Actors : ops'[b] = IF b = a THEN op ELSE ops[b]
  BY <1>0, <1>4, <1>6, <1>13 DEF TypeOK, Move
<1>9. Later(history, history') /\ (auto => i \in history'.auto)
  BY Zenon, <1>0 DEF Write, Later, TypeOK
<1>10. TextInv'
  BY Zenon, <1>1, <1>3, <1>7, <1>8, TextMove DEF FateInv, Sourced, SameText
<1>11. OpSafe(cf.flagged, history', facts', op)
  <2>1. Trusted(cf.flagged, history', i, f)
    BY Zenon, <1>5, <1>9 DEF Trusted
  <2>2. Vouched(cf.flagged, history', facts', op)
    BY Zenon, <1>7, <2>1 DEF Vouched
  <2>3. Closing(history', facts', op)
    BY Zenon, <1>5, <1>7 DEF Closing
  <2>. QED
    BY Zenon, <2>2, <2>3 DEF OpSafe
<1>12. SafeInv'
  <2>1. SafeInv /\ facts' = facts /\ cf' = cf /\ Later(history, history')
    BY Zenon, <1>1, <1>9 DEF FateInv
  <2>2. /\ Evolves(history, facts, history', facts')
        /\ \A j \in DOMAIN facts' : RowSafe(cf.flagged, history', facts', j)
    BY <2>1, StillSafe, Zenon
  <2>. QED
    BY <1>8, <1>11, <2>1, <2>2, SafeStep, SMT
<1>. QED
  BY Zenon, <1>10, <1>12 DEF FateInv

(* The pipeline's decision: a supersede is on record before the row is       *)
(* written.                                                                  *)
LEMMA DecidedFate ==
    ASSUME TypeOK, FateInv, NEW a \in Actors, ops[a].pc \in {"search", "text"},
           NEW d, Decided(a, d)
    PROVE  FateInv'
<1>1. UNCHANGED <<cf, facts>> /\ ops[a] \in Ops
  BY Zenon DEF Decided, TypeOK
<1>2. /\ Later(history, history') /\ history'.purged = history.purged
      /\ d.kind = "supersede" => ops[a].id \in history'.piped
  BY Zenon DEF Decided, Later, TypeOK
<1>3. PICK old : old = IF d.kind = "supersede" THEN d.id ELSE 0
  BY Zenon
<1>4. PICK op2 : op2 = [ops[a] EXCEPT !.pc = "commit", !.target = old]
  BY Zenon
<1>5. /\ op2.pc = "commit" /\ op2.target = old /\ op2.id = ops[a].id /\ op2.fact = ops[a].fact
      /\ op2.kind = ops[a].kind
  BY Zenon, <1>1, <1>4 DEF Ops
<1>6. PICK op \in {NoOp, op2} : \A b \in Actors : ops'[b] = IF b = a THEN op ELSE ops[b]
  BY SMTT(30), <1>3, <1>4 DEF Decided, Move, TypeOK
<1>7. Evolves(history, facts, history', facts')
      /\ \A i \in DOMAIN facts' : RowSafe(cf.flagged, history', facts', i)
  BY Zenon, <1>1, <1>2, StillSafe DEF FateInv
<1>8. OpSafe(cf.flagged, history', facts', op2)
  <2>1. OpSafe(cf.flagged, history', facts', ops[a])
    BY Zenon, <1>7, StaysSafe DEF FateInv, SafeInv
  <2>2. Vouched(cf.flagged, history', facts', op2)
    BY Zenon, <1>5, <2>1 DEF OpSafe, Vouched
  <2>3. Closing(history', facts', op2)
    BY ZenonT(30), <1>2, <1>3, <1>5, <2>1 DEF OpSafe, Closing
  <2>. QED
    BY Zenon, <2>2, <2>3 DEF OpSafe
<1>9. Sourced(a, op)
  BY Zenon, <1>5, <1>6, NoOpSafe DEF Sourced, SameText
<1>10. TextInv'
  BY Zenon, <1>1, <1>6, <1>9, TextMove DEF FateInv, SameText
<1>11. SafeInv'
  BY <1>1, <1>6, <1>7, <1>8, NoOpSafe, SafeStep DEF FateInv
<1>. QED
  BY Zenon, <1>10, <1>11 DEF FateInv

(* validate() has judged the text of the row it holds, or there is none.     *)
LEMMA ValidateFate ==
    ASSUME TypeOK, FateInv, NEW a \in Actors, NEW i \in Ids, NEW force \in BOOLEAN,
           Validate(a, i, force)
    PROVE  FateInv'
<1>1. UNCHANGED <<cf, facts>>
  BY Zenon DEF Validate
<1>2. CASE Refused(i, force)
  <2>1. UNCHANGED <<ops, history>>
    BY Zenon, <1>2 DEF Validate
  <2>. QED
    BY ZenonT(30), <1>1, <2>1 DEF FateInv, TextInv, SafeInv, SameText, RowSafe, OpSafe, Vouched, Closing,
                      Trusted, Live
<1>3. CASE ~Refused(i, force)
  <2>1. PICK f : f = IF Gettable(i) THEN facts[i].f ELSE NoFact
    BY Zenon
  <2>2. PICK op : op = [kind |-> "validate", pc |-> "promote", id |-> i, target |-> 0, fact |-> f]
    BY Zenon
  <2>3. op.pc = "promote" /\ op.id = i /\ op.target = 0 /\ op.fact = f
    BY Zenon, <2>2
  <2>4. \A b \in Actors : ops'[b] = IF b = a THEN op ELSE ops[b]
    BY Zenon, <1>3, <2>1, <2>2 DEF Validate, Move, TypeOK
  <2>5. /\ Later(history, history') /\ history'.purged = history.purged
        /\ i \in history'.promoted /\ (force => i \in history'.forced)
    <3>1. PICK fs : fs = IF force THEN history.forced \cup {i} ELSE history.forced
      BY Zenon
    <3>2. PICK ps : ps = history.promoted \cup {i}
      BY ZenonT(30)
    <3>3. history' = [history EXCEPT !.promoted = ps, !.forced = fs]
      BY Zenon, <1>3, <3>1, <3>2 DEF Validate
    <3>4. history'.promoted = ps /\ history'.forced = fs /\ history'.piped = history.piped
          /\ history'.auto = history.auto /\ history'.purged = history.purged
      BY Zenon, <3>3 DEF TypeOK
    <3>. QED
      BY Zenon, <3>1, <3>2, <3>4 DEF Later
  <2>6. Evolves(history, facts, history', facts')
        /\ \A j \in DOMAIN facts' : RowSafe(cf.flagged, history', facts', j)
    BY Zenon, <1>1, <2>5, StillSafe DEF FateInv
  <2>7. f # NoFact => /\ f = facts[i].f /\ i \in DOMAIN facts /\ ~facts[i].deleted
                      /\ f.text \in cf.flagged => force
    <3>1. CASE Gettable(i)
      BY Zenon, <1>3, <2>1, <3>1 DEF Gettable, Stored, Refused
    <3>2. CASE ~Gettable(i)
      BY Zenon, <2>1, <3>2
    <3>. QED
      BY Zenon, <3>1, <3>2
  <2>8. Vouched(cf.flagged, history', facts', op)
    <3>1. f # NoFact /\ i \notin history'.purged => Trusted(cf.flagged, history', i, f)
      BY Zenon, <1>1, <2>6, <2>7 DEF RowSafe
    <3>2. f = NoFact => i \in history'.purged \/ (i \in DOMAIN facts' /\ facts'[i].deleted)
      <4>1. CASE Gettable(i)
        <5>1. facts[i].f \in Facts
          BY Zenon, <4>1 DEF Gettable, Stored, TypeOK, Rows
        <5>. QED
          BY Zenon, <2>1, <4>1, <5>1, FactNotNull
      <4>2. CASE ~Gettable(i)
        BY Zenon, <1>1, <2>5, <4>2 DEF Validate, Gettable, Stored
      <4>. QED
        BY Zenon, <4>1, <4>2
    <3>. QED
      BY Zenon, <2>3, <2>5, <2>7, <3>1, <3>2 DEF Vouched
  <2>9. Closing(history', facts', op)
    <3>1. f # NoFact /\ f.by # 0 => Live(history', facts', f.by)
      BY Zenon, <1>1, <2>6, <2>7 DEF RowSafe
    <3>. QED
      BY Zenon, <2>3, <3>1 DEF Closing
  <2>10. TextInv'
    BY Zenon, <1>1, <2>3, <2>4, <2>7, TextMove DEF FateInv, Sourced, SameText
  <2>11. SafeInv'
    <3>1. OpSafe(cf.flagged, history', facts', op)
      BY Zenon, <2>8, <2>9 DEF OpSafe
    <3>. QED
      <4>1. SafeInv /\ cf' = cf
        BY Zenon, <1>1 DEF FateInv
      <4>. QED
        BY <2>4, <2>6, <3>1, <4>1, SafeStep, SMT
  <2>. QED
    BY Zenon, <2>10, <2>11 DEF FateInv
<1>. QED
  BY Zenon, <1>2, <1>3

(* The upsert of a call's own fact leaves the row as trusted as the call,    *)
(* and does not send an active row back to quarantine.                       *)
LEMMA UpsertFate ==
    ASSUME TypeOK, ChainInv, FateInv, NEW a \in Actors, CommitFact(a) \/ Rewrite(a)
    PROVE  FateInv'
<1>1. PICK embedded : Upsert(ops[a].id, ops[a].fact, embedded)
  BY Zenon DEF CommitFact, Rewrite
<1>2. UNCHANGED <<cf, history>> /\ ops[a].pc \in {"commit", "rewrite"}
  BY Zenon DEF CommitFact, Rewrite, At
<1>3. PICK i : i = ops[a].id
  BY Zenon
<1>4. PICK f : f = ops[a].fact
  BY Zenon
<1>5. f # NoFact /\ i \in Ids /\ ops[a] \in Ops
  <2>1. Held(ops[a])
    BY Zenon, TypeParts DEF OpsOK
  <2>. QED
    BY <1>2, <1>3, <1>4, <2>1, FactsAssumption DEF Held, Ops, Ids
<1>6. /\ DOMAIN facts' = DOMAIN facts \cup {i}
      /\ \A j \in DOMAIN facts : j # i => facts'[j] = facts[j]
      /\ facts'[i].f = f
      /\ i \in DOMAIN facts => facts'[i].deleted = facts[i].deleted
  <2>1. \A j \in DOMAIN facts : facts[j] \in Rows
    BY Zenon DEF TypeOK
  <2>2. DOMAIN facts' = DOMAIN facts \cup {i}
    BY Zenon, <1>1, <1>3 DEF Upsert
  <2>3. \A j \in DOMAIN facts : j # i => facts'[j] = facts[j]
    BY Zenon, <1>1, <1>3 DEF Upsert
  <2>4. CASE Stored(i)
    <3>1. PICK v : v = (facts[i].vec \/ embedded)
      BY Zenon
    <3>2. facts'[i] = [facts[i] EXCEPT !.f = f, !.vec = v]
      BY Zenon, <1>1, <1>3, <1>4, <2>4, <3>1 DEF Upsert
    <3>3. facts'[i].f = f /\ facts'[i].deleted = facts[i].deleted
      BY Zenon, <2>1, <2>4, <3>2 DEF Rows, Stored
    <3>. QED
      BY Zenon, <2>2, <2>3, <3>3
  <2>5. CASE ~Stored(i)
    <3>1. facts'[i].f = f
      BY Zenon, <1>1, <1>3, <1>4, <2>5 DEF Upsert
    <3>. QED
      BY Zenon, <2>2, <2>3, <2>5, <3>1 DEF Stored
  <2>. QED
    BY Zenon, <2>4, <2>5
<1>7. OpSafe(cf.flagged, history, facts, ops[a])
  BY Zenon DEF FateInv, SafeInv
<1>8. i \in DOMAIN facts => f.status = "active" \/ i \in history.piped
  <2>1. ops[a].pc = "commit" => i \notin DOMAIN facts
    BY Zenon, <1>3 DEF ChainInv, OrderInv, DoingInv, Doing, Writing
  <2>2. ops[a].pc = "rewrite" => f.status = "active" \/ i \in history.piped
    BY Zenon, <1>3, <1>4, <1>7 DEF OpSafe, Closing
  <2>. QED
    BY Zenon, <1>2, <2>1, <2>2
<1>9. Evolves(history, facts, history', facts')
  BY Zenon, <1>2, <1>6, <1>8, SameLater DEF Evolves
<1>10. \A j \in DOMAIN facts' : RowSafe(cf.flagged, history', facts', j)
  <2>1. ASSUME NEW j \in DOMAIN facts, j # i
        PROVE  RowSafe(cf.flagged, history', facts', j)
    <3>1. RowSafe(cf.flagged, history, facts, j) /\ facts'[j] = facts[j]
      BY Zenon, <1>6, <2>1 DEF FateInv, SafeInv
    <3>2. facts[j].f.by # 0 => Live(history', facts', facts[j].f.by)
      BY Zenon, <1>9, <3>1, StaysLive DEF RowSafe
    <3>. QED
      BY Zenon, <1>2, <3>1, <3>2 DEF RowSafe
  <2>2. RowSafe(cf.flagged, history', facts', i)
    <3>1. i \in history.purged \/ Trusted(cf.flagged, history, i, f)
      BY Zenon, <1>3, <1>4, <1>5, <1>7 DEF OpSafe, Vouched
    <3>2. f.by # 0 => Live(history', facts', f.by)
      BY Zenon, <1>4, <1>5, <1>7, <1>9, StaysLive DEF OpSafe, Closing
    <3>. QED
      BY Zenon, <1>2, <1>6, <3>1, <3>2 DEF RowSafe
  <2>. QED
    BY Zenon, <1>6, <2>1, <2>2
<1>11. PICK op : \A b \in Actors : ops'[b] = IF b = a THEN op ELSE ops[b]
  BY ZenonT(30) DEF CommitFact, Rewrite, To, Move, TypeOK
<1>12. \/ op = NoOp
       \/ /\ op.id = i /\ op.fact = f /\ op.kind = ops[a].kind /\ op.target = ops[a].target
          /\ \/ op.pc = "rewrite" /\ ops[a].pc = "commit" /\ Closes(ops[a])
             \/ op.pc = "close" /\ ops[a].pc = "rewrite"
  <2>1. op = ops'[a]
    BY Zenon, <1>11
  <2>2. CASE CommitFact(a)
    <3>1. CASE Closes(ops[a])
      <4>1. op = [ops[a] EXCEPT !.pc = "rewrite"] /\ ops[a].pc = "commit"
        BY Zenon, <2>1, <2>2, <3>1 DEF CommitFact, To, Move, At, TypeOK
      <4>. QED
        BY Zenon, <1>3, <1>4, <1>5, <3>1, <4>1 DEF Ops
    <3>2. CASE ~Closes(ops[a])
      BY Zenon, <2>1, <2>2, <3>2 DEF CommitFact, Move, TypeOK
    <3>. QED
      BY Zenon, <3>1, <3>2
  <2>3. CASE Rewrite(a)
    <3>1. op = [ops[a] EXCEPT !.pc = "close"] /\ ops[a].pc = "rewrite"
      BY Zenon, <2>1, <2>3 DEF Rewrite, To, Move, At, TypeOK
    <3>. QED
      BY Zenon, <1>3, <1>4, <1>5, <3>1 DEF Ops
  <2>. QED
    BY Zenon, <2>2, <2>3
<1>13. OpSafe(cf.flagged, history', facts', op)
  <2>1. CASE op = NoOp
    BY Zenon, <2>1, NoOpSafe
  <2>2. CASE op # NoOp
    <3>0. OpSafe(cf.flagged, history', facts', ops[a])
      BY Zenon, <1>7, <1>9, StaysSafe
    <3>1. Vouched(cf.flagged, history', facts', op)
      BY ZenonT(30), <1>3, <1>4, <1>12, <2>2, <3>0 DEF OpSafe, Vouched
    <3>2. f.status = "active" \/ i \in history'.piped
      BY Zenon, <1>2, <1>3, <1>4, <1>7, <1>12, <2>2 DEF OpSafe, Closing, Closes
    <3>3. Live(history', facts', i)
      BY Zenon, <1>6, <3>2 DEF Live
    <3>4. Closing(history', facts', op)
      BY ZenonT(30), <1>3, <1>4, <1>12, <2>2, <3>0, <3>2, <3>3 DEF OpSafe, Closing
    <3>. QED
      BY Zenon, <3>1, <3>4 DEF OpSafe
  <2>. QED
    BY Zenon, <2>1, <2>2
<1>14. SafeInv'
  BY ZenonT(30), <1>2, <1>9, <1>10, <1>11, <1>13, SafeStep DEF FateInv
<1>15. TextInv'
  <2>1. \A b \in Actors : ops[b].fact # NoFact /\ ops[b].id = i => SameText(ops[b].fact, f)
    BY Zenon, <1>3, <1>4, <1>5 DEF FateInv, TextInv
  <2>2. \A b \in Actors : ops'[b].fact # NoFact =>
           /\ ops[b].fact # NoFact /\ ops'[b].id = ops[b].id /\ ops'[b].fact = ops[b].fact
    BY Zenon, <1>3, <1>4, <1>5, <1>11, <1>12, NoOpSafe
  <2>3. \A b \in Actors : ops'[b].fact # NoFact /\ ops'[b].id \in DOMAIN facts' =>
           SameText(ops'[b].fact, facts'[ops'[b].id].f)
    BY SMTT(30), <1>6, <2>1, <2>2 DEF FateInv, TextInv
  <2>4. \A b, c \in Actors : ops'[b].fact # NoFact /\ ops'[c].fact # NoFact
                             /\ ops'[b].id = ops'[c].id => SameText(ops'[b].fact, ops'[c].fact)
    BY Zenon, <2>2 DEF FateInv, TextInv
  <2>. QED
    BY Zenon, <2>3, <2>4 DEF TextInv, SameText
<1>. QED
  BY Zenon, <1>14, <1>15 DEF FateInv

(* A step that edits rows without touching text, provenance and status.      *)
LEMMA EditFate ==
    ASSUME FateInv, cf' = cf, Later(history, history'), NEW a \in Actors, NEW op,
           \A b \in Actors : ops'[b] = IF b = a THEN op ELSE ops[b],
           Sourced(a, op), OpSafe(cf.flagged, history, facts, op),
           \A i \in DOMAIN facts \ history'.purged : i \in DOMAIN facts',
           \A i \in DOMAIN facts' : /\ i \in DOMAIN facts
                                    /\ SameText(facts'[i].f, facts[i].f)
                                    /\ facts'[i].f.status = facts[i].f.status
                                    /\ facts[i].deleted => facts'[i].deleted
                                    /\ \/ facts'[i].f.by = facts[i].f.by
                                       \/ Live(history, facts, facts'[i].f.by)
    PROVE  FateInv'
<1>1. Evolves(history, facts, history', facts')
  BY ZenonT(30) DEF Evolves
<1>2. \A i \in DOMAIN facts' : facts'[i].f.by = facts[i].f.by
                               \/ Live(history', facts', facts'[i].f.by)
  BY ZenonT(30), <1>1, StaysLive
<1>3. \A i \in DOMAIN facts' : RowSafe(cf.flagged, history', facts', i)
  BY ZenonT(30), <1>1, <1>2, RowsSafe DEF FateInv
<1>4. OpSafe(cf.flagged, history', facts', op)
  BY ZenonT(30), <1>1, StaysSafe
<1>5. SafeInv'
  BY ZenonT(30), <1>1, <1>3, <1>4, SafeStep DEF FateInv
<1>6. TextInv'
  BY Zenon, TextMove DEF FateInv
<1>. QED
  BY ZenonT(30), <1>5, <1>6 DEF FateInv

(* An actor that stands still, is done, or goes on to its last statement.    *)
LEMMA OnSafe ==
    ASSUME FateInv, NEW a \in Actors, ops[a] \in Ops, NEW op,
           \/ op = NoOp
           \/ op = ops[a]
           \/ op = [ops[a] EXCEPT !.pc = "resolve"]
           \/ op = [ops[a] EXCEPT !.pc = "text"]
    PROVE  Sourced(a, op) /\ OpSafe(cf.flagged, history, facts, op)
<1>1. CASE op = NoOp
  BY Zenon, <1>1, NoOpSafe DEF Sourced
<1>2. CASE op # NoOp
  <2>1. op.fact = ops[a].fact /\ op.id = ops[a].id /\ op.kind = ops[a].kind
        /\ op.pc \in {ops[a].pc, "resolve", "text"} /\ op.target = ops[a].target
    BY Zenon, <1>2 DEF Ops
  <2>2. OpSafe(cf.flagged, history, facts, ops[a])
    BY Zenon DEF FateInv, SafeInv
  <2>3. Vouched(cf.flagged, history, facts, op)
    BY Zenon, <2>1, <2>2 DEF OpSafe, Vouched
  <2>4. Closing(history, facts, op)
    BY Zenon, <2>1, <2>2 DEF OpSafe, Closing
  <2>5. Sourced(a, op)
    BY Zenon, <2>1 DEF Sourced, SameText
  <2>. QED
    BY Zenon, <2>3, <2>4, <2>5 DEF OpSafe
<1>. QED
  BY Zenon, <1>1, <1>2

(* A row is closed in favour of a live one.                                  *)
LEMMA CloseFate ==
    ASSUME TypeOK, FateInv, NEW a \in Actors, Close(a)
    PROVE  FateInv'
<1>1. UNCHANGED <<cf, history>> /\ ops[a].pc = "close" /\ ops[a] \in Ops
      /\ \A j \in DOMAIN facts : facts[j] \in Rows
  BY Zenon DEF Close, At, TypeOK
<1>2. Live(history, facts, ops[a].id)
  BY Zenon, <1>1 DEF FateInv, SafeInv, OpSafe, Closing
<1>3. PICK op : /\ \A b \in Actors : ops'[b] = IF b = a THEN op ELSE ops[b]
                /\ op = NoOp \/ op = [ops[a] EXCEPT !.pc = "resolve"]
  BY ZenonT(30) DEF Close, To, Move, TypeOK
<1>4. Sourced(a, op) /\ OpSafe(cf.flagged, history, facts, op)
  BY Zenon, <1>1, <1>3, OnSafe
<1>5. CASE ~Stored(ops[a].target)
  BY Zenon, <1>1, <1>3, <1>4, <1>5, QuietFate DEF Close, CloseRow
<1>6. CASE Stored(ops[a].target)
  <2>1. facts' = [facts EXCEPT ![ops[a].target].f.by = ops[a].id]
    BY Zenon, <1>6 DEF Close, CloseRow
  <2>2. PICK o \in DOMAIN facts : o = ops[a].target
    BY Zenon, <1>6 DEF Stored
  <2>3. DOMAIN facts' = DOMAIN facts /\ \A j \in DOMAIN facts : j # o => facts'[j] = facts[j]
    BY Zenon, <2>1, <2>2
  <2>4. /\ SameText(facts'[o].f, facts[o].f) /\ facts'[o].f.status = facts[o].f.status
        /\ facts'[o].deleted = facts[o].deleted /\ facts'[o].f.by = ops[a].id
    BY <1>1, <2>1, <2>2 DEF Rows, Facts, SameText
  <2>5. \A j \in DOMAIN facts' : /\ j \in DOMAIN facts
                                 /\ SameText(facts'[j].f, facts[j].f)
                                 /\ facts'[j].f.status = facts[j].f.status
                                 /\ facts[j].deleted => facts'[j].deleted
                                 /\ \/ facts'[j].f.by = facts[j].f.by
                                    \/ Live(history, facts, facts'[j].f.by)
    BY Zenon, <1>2, <2>3, <2>4 DEF SameText
  <2>. QED
    BY Zenon, <1>1, <1>3, <1>4, <2>3, <2>5, SameLater, EditFate
<1>. QED
  BY <1>5, <1>6

(* setStatus promotes a row whose text validate() judged, or a tombstone.    *)
LEMMA PromoteFate ==
    ASSUME TypeOK, FateInv, NEW a \in Actors, Promote(a)
    PROVE  FateInv'
<1>1. UNCHANGED <<cf, history>> /\ ops[a].pc = "promote" /\ ops[a] \in Ops
      /\ \A j \in DOMAIN facts : facts[j] \in Rows
  BY Zenon DEF Promote, At, TypeOK
<1>2. OpSafe(cf.flagged, history, facts, ops[a])
  BY Zenon DEF FateInv, SafeInv
<1>3. PICK i : i = ops[a].id
  OBVIOUS
<1>4. /\ DOMAIN facts' = DOMAIN facts
      /\ \A j \in DOMAIN facts : j # i => facts'[j] = facts[j]
      /\ i \in DOMAIN facts =>
            /\ SameText(facts'[i].f, facts[i].f) /\ facts'[i].f.status = "active"
            /\ facts'[i].deleted = facts[i].deleted /\ facts'[i].f.by = facts[i].f.by
  <2>1. CASE Stored(i)
    <3>1. facts' = [facts EXCEPT ![i].f.status = "active"]
      BY Zenon, <1>3, <2>1 DEF Promote, SetActive
    <3>. QED
      BY <1>1, <3>1 DEF Rows, Facts, SameText
  <2>2. CASE ~Stored(i)
    BY Zenon, <1>3, <2>2 DEF Promote, SetActive, Stored
  <2>. QED
    BY Zenon, <2>1, <2>2
<1>5. Evolves(history, facts, history', facts')
  BY ZenonT(30), <1>1, <1>4, SameLater DEF Evolves
<1>6. \A j \in DOMAIN facts' : RowSafe(cf.flagged, history', facts', j)
  <2>1. \A j \in DOMAIN facts : RowSafe(cf.flagged, history, facts, j)
    BY Zenon DEF FateInv, SafeInv
  <2>2. \A j \in DOMAIN facts : facts[j].f.by # 0 => Live(history', facts', facts[j].f.by)
    BY SMTT(30), <1>5, <2>1, StaysLive DEF RowSafe
  <2>3. ASSUME NEW j \in DOMAIN facts, j # i
        PROVE  RowSafe(cf.flagged, history', facts', j)
    BY ZenonT(30), <1>1, <1>4, <2>1, <2>2, <2>3 DEF RowSafe
  <2>4. ASSUME i \in DOMAIN facts
        PROVE  RowSafe(cf.flagged, history', facts', i)
    <3>1. ASSUME i \notin history.purged, ~facts[i].deleted
          PROVE  Trusted(cf.flagged, history, i, facts'[i].f)
      <4>1. ops[a].fact # NoFact /\ i \in history.promoted
            /\ (ops[a].fact.text \in cf.flagged => i \in history.forced)
        BY ZenonT(30), <1>1, <1>2, <1>3, <3>1 DEF OpSafe, Vouched
      <4>2. SameText(ops[a].fact, facts[i].f)
        BY Zenon, <1>3, <2>4, <4>1 DEF FateInv, TextInv
      <4>. QED
        BY Zenon, <1>4, <2>4, <4>1, <4>2 DEF Trusted, SameText
    <3>. QED
      BY ZenonT(30), <1>1, <1>4, <2>2, <2>4, <3>1 DEF RowSafe
  <2>. QED
    BY ZenonT(30), <1>4, <2>3, <2>4
<1>7. PICK op2 : op2 = [ops[a] EXCEPT !.pc = "fetchOld", !.target = ops[a].fact.of]
  BY Zenon
<1>8. op2.fact = ops[a].fact /\ op2.id = i /\ op2.pc = "fetchOld"
  BY Zenon, <1>1, <1>3, <1>7 DEF Ops
<1>9. OpSafe(cf.flagged, history', facts', op2)
  <2>1. OpSafe(cf.flagged, history', facts', ops[a])
    BY Zenon, <1>2, <1>5, StaysSafe
  <2>2. Vouched(cf.flagged, history', facts', op2)
    BY ZenonT(30), <1>1, <1>3, <1>8, <2>1 DEF OpSafe, Vouched
  <2>3. Closing(history', facts', op2)
    BY Zenon, <1>8, <2>1 DEF OpSafe, Closing
  <2>. QED
    BY Zenon, <2>2, <2>3 DEF OpSafe
<1>10. PICK op \in {NoOp, op2} : \A b \in Actors : ops'[b] = IF b = a THEN op ELSE ops[b]
  BY SMTT(30), <1>7 DEF Promote, Move, TypeOK
<1>11. Sourced(a, op)
  BY Zenon, <1>3, <1>8, <1>10, NoOpSafe DEF Sourced, SameText
<1>12. TextInv'
  <2>1. \A j \in DOMAIN facts' : j \in DOMAIN facts /\ SameText(facts'[j].f, facts[j].f)
    BY Zenon, <1>4 DEF SameText
  <2>. QED
    BY Zenon, <1>10, <1>11, <2>1, TextMove DEF FateInv
<1>13. SafeInv'
  <2>1. OpSafe(cf.flagged, history', facts', op)
    BY Zenon, <1>9, <1>10, NoOpSafe
  <2>2. SafeInv /\ cf' = cf
    BY Zenon, <1>1 DEF FateInv
  <2>. QED
    BY <1>5, <1>6, <1>10, <2>1, <2>2, SafeStep, SMT
<1>. QED
  BY Zenon, <1>12, <1>13 DEF FateInv

(* validate() completes a pending supersede with a fact it may activate.     *)
LEMMA FetchOldFate ==
    ASSUME TypeOK, FateInv, NEW a \in Actors, FetchOld(a)
    PROVE  FateInv'
<1>1. UNCHANGED <<cf, facts, history>> /\ ops[a].pc = "fetchOld" /\ Held(ops[a])
  BY Zenon, TypeParts DEF FetchOld, At, OpsOK
<1>2. ops[a].fact \in Facts /\ ops[a].fact # NoFact /\ ops[a] \in Ops
  BY Zenon, <1>1 DEF Held, Ops
<1>3. PICK f : f = [ops[a].fact EXCEPT !.status = "active"]
  BY ZenonT(30)
<1>4. SameText(f, ops[a].fact) /\ f.by = ops[a].fact.by /\ f.status = "active"
  BY Zenon, <1>2, <1>3 DEF Facts, SameText
<1>5. PICK op2 : op2 = [ops[a] EXCEPT !.pc = "rewrite", !.fact = f]
  BY Zenon
<1>6. op2.pc = "rewrite" /\ op2.id = ops[a].id /\ op2.fact = f
  BY Zenon, <1>2, <1>5 DEF Ops
<1>7. PICK op \in {NoOp, op2} : \A b \in Actors : ops'[b] = IF b = a THEN op ELSE ops[b]
  BY <1>3, <1>5 DEF FetchOld, Move, TypeOK
<1>8. OpSafe(cf.flagged, history, facts, ops[a])
  BY Zenon DEF FateInv, SafeInv
<1>9. OpSafe(cf.flagged, history, facts, op2)
  <2>1. Trusted(cf.flagged, history, op2.id, f)
    BY ZenonT(30), <1>1, <1>2, <1>4, <1>6, <1>8 DEF OpSafe, Vouched, Trusted, SameText
  <2>2. Vouched(cf.flagged, history, facts, op2)
    BY Zenon, <1>6, <2>1 DEF Vouched
  <2>3. Closing(history, facts, op2)
    BY ZenonT(30), <1>2, <1>4, <1>6, <1>8 DEF OpSafe, Closing
  <2>. QED
    BY Zenon, <2>2, <2>3 DEF OpSafe
<1>10. Sourced(a, op)
  BY Zenon, <1>2, <1>4, <1>6, <1>7, NoOpSafe DEF Sourced
<1>. QED
  BY Zenon, <1>1, <1>7, <1>9, <1>10, NoOpSafe, QuietFate

(* forget, archive and purge.                                                *)
LEMMA RemoveFate ==
    ASSUME TypeOK, FateInv, NEW a, NEW i \in Ids, Forget(a, i) \/ ArchiveFact(a, i) \/ Purge(a, i)
    PROVE  FateInv'
<1>1. UNCHANGED <<cf, ops>> /\ Judge \in Actors /\ ops[Judge] \in Ops
      /\ \A j \in DOMAIN facts : facts[j] \in Rows
  BY Zenon DEF Forget, ArchiveFact, Purge, TypeOK, Actors
<1>2. PICK op : op = ops[Judge]
  BY Zenon
<1>3. \A b \in Actors : ops'[b] = IF b = Judge THEN op ELSE ops[b]
  BY Zenon, <1>1, <1>2
<1>4. Sourced(Judge, op) /\ OpSafe(cf.flagged, history, facts, op)
  BY Zenon, <1>1, <1>2, OnSafe
<1>5. Later(history, history')
  <2>1. CASE Forget(a, i) \/ ArchiveFact(a, i)
    BY Zenon, <2>1, SameLater DEF Forget, ArchiveFact
  <2>2. CASE Purge(a, i)
    BY Zenon, <2>2 DEF Purge, Later, TypeOK
  <2>. QED
    BY Zenon, <2>1, <2>2
<1>6. ASSUME \A j \in DOMAIN facts' : /\ j \in DOMAIN facts /\ facts'[j].f = facts[j].f
                                      /\ facts[j].deleted => facts'[j].deleted,
             \A j \in DOMAIN facts \ history'.purged : j \in DOMAIN facts'
      PROVE  FateInv'
  BY ZenonT(30), <1>1, <1>3, <1>4, <1>5, <1>6, EditFate DEF SameText
<1>7. CASE Forget(a, i)
  <2>1. facts' = [facts EXCEPT ![i].deleted = TRUE, ![i].archived = TRUE, ![i].vec = FALSE]
    BY Zenon, <1>7 DEF Forget, Tombstone, Gettable
  <2>2. DOMAIN facts' = DOMAIN facts
        /\ \A j \in DOMAIN facts : facts'[j].f = facts[j].f /\ (facts[j].deleted => facts'[j].deleted)
    BY Zenon, <1>1, <2>1 DEF Rows
  <2>. QED
    BY Zenon, <1>6, <2>2
<1>8. CASE ArchiveFact(a, i)
  <2>1. facts' = [facts EXCEPT ![i].archived = TRUE]
    BY Zenon, <1>8 DEF ArchiveFact
  <2>2. DOMAIN facts' = DOMAIN facts
        /\ \A j \in DOMAIN facts : facts'[j].f = facts[j].f /\ (facts[j].deleted => facts'[j].deleted)
    BY Zenon, <1>1, <2>1 DEF Rows
  <2>. QED
    BY <1>6, <2>2
<1>9. CASE Purge(a, i)
  <2>1. /\ DOMAIN facts' = DOMAIN facts \ {i}
        /\ \A j \in DOMAIN facts' : facts'[j] = facts[j]
        /\ i \in history'.purged
    BY Zenon, <1>9 DEF Purge, TypeOK
  <2>. QED
    BY Zenon, <1>6, <2>1
<1>. QED
  BY <1>7, <1>8, <1>9

(* The judge closes a row only for an active candidate.                      *)
LEMMA JudgeFate ==
    ASSUME TypeOK, FateInv,
           \/ \E i \in Ids : JudgeNext(i)
           \/ VerdictSupersede \/ VerdictDedup \/ VerdictAdmit \/ VerdictFails \/ MarkResolved
    PROVE  FateInv'
<1>1. UNCHANGED <<cf, history>> /\ Judge \in Actors /\ ops[Judge] \in Ops
      /\ \A j \in DOMAIN facts : facts[j] \in Rows
  BY Zenon DEF JudgeNext, VerdictSupersede, VerdictDedup, VerdictAdmit, VerdictFails,
         MarkResolved, Actors, TypeOK
<1>2. PICK op : \A b \in Actors : ops'[b] = IF b = Judge THEN op ELSE ops[b]
  <2>1. \E x : \A b \in Actors : ops'[b] = IF b = Judge THEN x ELSE ops[b]
    <3>1. CASE \E x : Move(Judge, x)
      BY Zenon, <3>1 DEF Move, TypeOK
    <3>2. CASE UNCHANGED ops
      BY Zenon, <3>2
    <3>3. CASE \E i \in Ids : JudgeNext(i)
      BY Zenon, <3>1, <3>2, <3>3 DEF JudgeNext
    <3>4. CASE VerdictSupersede
      <4>1. \/ Move(Judge, [ops[Judge] EXCEPT !.pc = "resolve"])
            \/ Move(Judge, [ops[Judge] EXCEPT !.pc = "rewrite", !.fact = facts[ops[Judge].id].f])
        <5>1. Gettable(ops[Judge].id) => facts[ops[Judge].id].f.status \in {"active", "quarantined"}
          BY Zenon, <1>1 DEF Gettable, Stored, Rows, Facts, Statuses
        <5>. QED
          BY Zenon, <3>4, <5>1 DEF VerdictSupersede, To
      <4>. QED
        BY Zenon, <3>1, <4>1
    <3>5. CASE VerdictDedup \/ VerdictAdmit \/ VerdictFails \/ MarkResolved
      BY Zenon, <3>1, <3>5 DEF VerdictDedup, VerdictAdmit, VerdictFails, MarkResolved, To
    <3>. QED
      BY Zenon, <3>3, <3>4, <3>5
  <2>. QED
    BY Zenon, <2>1
<1>3. op = ops'[Judge]
  BY Zenon, <1>1, <1>2
<1>4. ASSUME UNCHANGED facts, Sourced(Judge, op), OpSafe(cf.flagged, history, facts, op)
      PROVE  FateInv'
  BY Zenon, <1>1, <1>2, <1>4, QuietFate
<1>5. CASE \E i \in Ids : JudgeNext(i)
  <2>1. PICK i \in Ids : JudgeNext(i)
    BY <1>5
  <2>2. UNCHANGED facts
    BY ZenonT(30), <2>1 DEF JudgeNext
  <2>3. \/ op = ops[Judge]
        \/ op = [NoOp EXCEPT !.kind = "judge", !.pc = "verdict", !.id = i,
                             !.target = pending[i].against]
    BY Zenon, <1>1, <1>3, <2>1 DEF JudgeNext, Move, TypeOK
  <2>4. CASE op = ops[Judge]
    BY Zenon, <1>1, <1>4, <2>2, <2>4, OnSafe
  <2>5. CASE op = [NoOp EXCEPT !.kind = "judge", !.pc = "verdict", !.id = i,
                               !.target = pending[i].against]
    <3>1. op.fact = NoFact /\ op.pc = "verdict"
      BY Zenon, <2>5 DEF NoOp
    <3>2. Sourced(Judge, op) /\ OpSafe(cf.flagged, history, facts, op)
      BY Zenon, <3>1 DEF Sourced, OpSafe, Vouched, Closing
    <3>. QED
      BY Zenon, <1>4, <2>2, <3>2
  <2>. QED
    BY Zenon, <2>3, <2>4, <2>5
<1>6. ASSUME op = NoOp \/ op = [ops[Judge] EXCEPT !.pc = "resolve"]
      PROVE  Sourced(Judge, op) /\ OpSafe(cf.flagged, history, facts, op)
  BY Zenon, <1>1, <1>6, OnSafe
<1>7. CASE VerdictAdmit \/ VerdictFails \/ MarkResolved
  <2>1. UNCHANGED facts /\ (op = NoOp \/ op = [ops[Judge] EXCEPT !.pc = "resolve"])
    <3>1. UNCHANGED facts
          /\ (Move(Judge, NoOp) \/ Move(Judge, [ops[Judge] EXCEPT !.pc = "resolve"]))
      BY Zenon, <1>7 DEF VerdictAdmit, VerdictFails, MarkResolved, To
    <3>. QED
      BY Zenon, <1>1, <1>3, <3>1 DEF Move, TypeOK
  <2>. QED
    BY Zenon, <1>4, <1>6, <2>1
<1>. DEFINE i == ops[Judge].id
<1>8. ASSUME op = [ops[Judge] EXCEPT !.pc = "resolve"], DOMAIN facts' = DOMAIN facts,
             \A j \in DOMAIN facts : /\ SameText(facts'[j].f, facts[j].f)
                                     /\ facts'[j].f.status = facts[j].f.status
                                     /\ facts'[j].f.by = facts[j].f.by
                                     /\ facts[j].deleted => facts'[j].deleted
      PROVE  FateInv'
  BY Zenon, <1>1, <1>2, <1>6, <1>8, SameLater, EditFate
<1>9. CASE VerdictDedup
  <2>1. op = [ops[Judge] EXCEPT !.pc = "resolve"]
    BY Zenon, <1>1, <1>3, <1>9 DEF VerdictDedup, To, Move, TypeOK
  <2>2. CASE ~Stored(i)
    BY Zenon, <1>4, <1>6, <1>9, <2>1, <2>2 DEF VerdictDedup, Tombstone
  <2>3. CASE Stored(i)
    <3>1. facts' = [facts EXCEPT ![i].deleted = TRUE, ![i].archived = TRUE, ![i].vec = FALSE]
      BY <1>9, <2>3 DEF VerdictDedup, Tombstone
    <3>2. DOMAIN facts' = DOMAIN facts
          /\ \A j \in DOMAIN facts : facts'[j].f = facts[j].f /\ (facts[j].deleted => facts'[j].deleted)
      BY Zenon, <1>1, <3>1 DEF Rows
    <3>. QED
      BY Zenon, <1>8, <2>1, <3>2 DEF SameText
  <2>. QED
    BY <2>2, <2>3
<1>10. CASE VerdictSupersede
  <2>1. CASE ~Gettable(i)
    <3>1. UNCHANGED facts /\ op = [ops[Judge] EXCEPT !.pc = "resolve"]
      BY ZenonT(30), <1>1, <1>3, <1>10, <2>1 DEF VerdictSupersede, To, Move, TypeOK
    <3>. QED
      BY Zenon, <1>4, <1>6, <3>1
  <2>2. CASE Gettable(i) /\ facts[i].f.status = "quarantined"
    <3>1. op = [ops[Judge] EXCEPT !.pc = "resolve"]
          /\ facts' = [facts EXCEPT ![i].f.of = ops[Judge].target]
      BY <1>1, <1>3, <1>10, <2>2 DEF VerdictSupersede, LinkPendingSupersede, Gettable, To, Move, TypeOK
    <3>2. DOMAIN facts' = DOMAIN facts
      BY Zenon, <3>1
    <3>3. \A j \in DOMAIN facts : /\ SameText(facts'[j].f, facts[j].f)
                                  /\ facts'[j].f.status = facts[j].f.status
                                  /\ facts'[j].f.by = facts[j].f.by
                                  /\ facts[j].deleted => facts'[j].deleted
      BY <1>1, <3>1 DEF Rows, Facts, SameText
    <3>. QED
      BY Zenon, <1>8, <3>1, <3>2, <3>3
  <2>3. CASE Gettable(i) /\ facts[i].f.status = "active"
    <3>1. UNCHANGED facts /\ op = [ops[Judge] EXCEPT !.pc = "rewrite", !.fact = facts[i].f]
      BY <1>1, <1>3, <1>10, <2>3 DEF VerdictSupersede, Move, TypeOK
    <3>2. op.pc = "rewrite" /\ op.id = i /\ op.fact = facts[i].f
      BY Zenon, <1>1, <3>1 DEF Ops
    <3>3. RowSafe(cf.flagged, history, facts, i) /\ i \in DOMAIN facts /\ ~facts[i].deleted
      BY ZenonT(30), <2>3 DEF Gettable, Stored, FateInv, SafeInv
    <3>4. Vouched(cf.flagged, history, facts, op)
      BY Zenon, <3>2, <3>3 DEF RowSafe, Vouched
    <3>5. Closing(history, facts, op)
      BY ZenonT(30), <2>3, <3>2, <3>3 DEF RowSafe, Closing
    <3>6. Sourced(Judge, op)
      BY Zenon, <3>2, <3>3 DEF Sourced, SameText
    <3>7. OpSafe(cf.flagged, history, facts, op)
      BY Zenon, <3>4, <3>5 DEF OpSafe
    <3>. QED
      BY Zenon, <1>4, <3>1, <3>6, <3>7
  <2>4. Gettable(i) => facts[i].f.status \in {"active", "quarantined"}
    BY Zenon, <1>1 DEF Gettable, Stored, Rows, Facts, Statuses
  <2>. QED
    BY <2>1, <2>2, <2>3, <2>4
<1>. QED
  BY Zenon, <1>5, <1>7, <1>9, <1>10

(* At first there is no row and no call.                                     *)
LEMMA InitFate == Init => FateInv
<1>. SUFFICES ASSUME Init PROVE FateInv
  OBVIOUS
<1>1. DOMAIN facts = {} /\ \A a \in Actors : ops[a] = NoOp
  BY DEF Init
<1>2. TextInv
  BY Zenon, <1>1, NoOpSafe DEF TextInv
<1>3. SafeInv
  BY Zenon, <1>1, NoOpSafe DEF SafeInv
<1>. QED
  BY Zenon, <1>2, <1>3 DEF FateInv

(* Every step keeps the texts, the trust and the closed rows in order.       *)
LEMMA FateStep == TypeOK /\ ChainInv /\ FateInv /\ [Next]_vars => FateInv'
<1>. SUFFICES ASSUME TypeOK, ChainInv, FateInv, [Next]_vars PROVE FateInv'
  BY Zenon
<1>0. ASSUME NEW a \in Actors, NEW op, Move(a, op), UNCHANGED <<cf, facts, history>>,
             op = NoOp \/ op = [ops[a] EXCEPT !.pc = "text"]
      PROVE  FateInv'
  <2>1. ops[a] \in Ops /\ \A b \in Actors : ops'[b] = IF b = a THEN op ELSE ops[b]
    BY Zenon, <1>0 DEF Move, TypeOK
  <2>2. Sourced(a, op) /\ OpSafe(cf.flagged, history, facts, op)
    BY Zenon, <1>0, <2>1, OnSafe
  <2>. QED
    BY Zenon, <1>0, <2>1, <2>2, QuietFate
<1>1. CASE UNCHANGED vars
  BY ZenonT(30), <1>1 DEF vars, FateInv, TextInv, SafeInv, SameText, RowSafe, OpSafe, Vouched, Closing,
              Trusted, Live
<1>2. ASSUME NEW a \in Callers, CallerStep(a)
      PROVE  FateInv'
  <2>0. a \in Actors
    BY Zenon DEF Actors
  <2>1. ASSUME NEW t \in cf.texts, NEW prov \in Provenances, Remember(a, t, prov)
        PROVE  FateInv'
    <3>1. PICK pc \in {"search", "text"} : pc = IF cf.embedder THEN "search" ELSE "text"
      BY Zenon
    <3>2. Write(a, "remember", pc, t, prov, FALSE, 0)
      BY Zenon, <2>1, <3>1 DEF Remember
    <3>. QED
      BY Zenon, <2>0, <3>1, <3>2, WriteFate
  <2>2. ASSUME NEW t \in cf.texts, Add(a, t)
        PROVE  FateInv'
    BY Zenon, <2>0, <2>2, WriteFate, Bounds DEF Add
  <2>3. ASSUME NEW t \in cf.texts, NEW prov \in Provenances, NEW old \in Ids,
               Supersede(a, t, prov, old)
        PROVE  FateInv'
    <3>1. PICK auto : auto = (prov = "extraction" /\ AllowImmediateSupersede(old))
      BY Zenon
    <3>2. auto \in BOOLEAN
      BY <3>1, Zenon
    <3>3. Write(a, "supersede", "commit", t, prov, auto, old)
      BY Zenon, <2>3, <3>1 DEF Supersede
    <3>. QED
      BY <2>0, <3>2, <3>3, WriteFate
  <2>4. ASSUME NEW i \in Ids, NEW force \in BOOLEAN, Validate(a, i, force)
        PROVE  FateInv'
    BY Zenon, <2>0, <2>4, ValidateFate
  <2>5. ASSUME NEW i \in Ids, Forget(a, i) \/ ArchiveFact(a, i) \/ Purge(a, i)
        PROVE  FateInv'
    BY Zenon, <2>5, RemoveFate
  <2>6. CASE SearchVectors(a)
    <3>1. CASE VectorHits # {}
      BY Zenon, <2>0, <2>6, <3>1, DecidedFate DEF SearchVectors, At
    <3>2. CASE VectorHits = {}
      <4>1. Move(a, [ops[a] EXCEPT !.pc = "text"]) /\ UNCHANGED <<cf, facts, history>>
        BY Zenon, <2>6, <3>2 DEF SearchVectors, To
      <4>. QED
        BY Zenon, <1>0, <2>0, <4>1
    <3>. QED
      BY Zenon, <3>1, <3>2
  <2>7. CASE SearchText(a)
    BY Zenon, <2>0, <2>7, DecidedFate DEF SearchText, At
  <2>8. CASE CommitFact(a) \/ Rewrite(a)
    BY Zenon, <2>0, <2>8, UpsertFate
  <2>9. CASE Close(a)
    BY Zenon, <2>0, <2>9, CloseFate
  <2>10. CASE Promote(a)
    BY Zenon, <2>0, <2>10, PromoteFate
  <2>11. CASE FetchOld(a)
    BY <2>0, <2>11, FetchOldFate
  <2>. QED
    BY Zenon, <1>2, <2>1, <2>2, <2>3, <2>4, <2>5, <2>6, <2>7, <2>8, <2>9, <2>10, <2>11
       DEF CallerStep, Continue
<1>3. CASE JudgeStep
  <2>0. Judge \in Actors
    BY Zenon DEF Actors
  <2>1. CASE Rewrite(Judge)
    BY Zenon, <2>0, <2>1, UpsertFate
  <2>2. CASE Close(Judge)
    BY Zenon, <2>0, <2>2, CloseFate
  <2>. QED
    BY Zenon, <1>3, <2>1, <2>2, JudgeFate DEF JudgeStep
<1>4. ASSUME NEW a \in Actors, Abandon(a)
      PROVE  FateInv'
  BY Zenon, <1>0, <1>4 DEF Abandon
<1>. QED
  BY Zenon, <1>1, <1>2, <1>3, <1>4 DEF Next

(* The three invariants hold together in every reachable state.              *)
LEMMA FateSafe == Spec => [](TypeOK /\ ChainInv /\ FateInv)
<1>1. Init => TypeOK /\ ChainInv /\ FateInv
  BY Zenon, InitType, InitChain, InitFate
<1>2. TypeOK /\ ChainInv /\ FateInv /\ [Next]_vars => (TypeOK /\ ChainInv /\ FateInv)'
  BY Zenon, TypeStep, ChainStep, FateStep
<1>. QED
  BY <1>1, <1>2, PTL DEF Spec

(* Default recall returns a synthesized fact only once it was validated or   *)
(* its promotion opted in to, and a flagged text only once an operator       *)
(* forced it, however the calls overlap and wherever one of them stops.      *)
THEOREM TrustGateSafe == Spec => []TrustGate
<1>1. FateInv => TrustGate
  <2>. SUFFICES ASSUME FateInv, NEW i \in Ids \ history.purged, Recalled(i)
                PROVE  /\ facts[i].f.text \in cf.flagged => i \in history.forced
                       /\ facts[i].f.prov = "extraction" => i \in history.promoted \cup history.auto
    BY Zenon DEF TrustGate
  <2>1. i \in DOMAIN facts /\ ~facts[i].deleted /\ facts[i].f.status = "active"
    BY Zenon DEF Recalled, Current, Stored
  <2>2. RowSafe(cf.flagged, history, facts, i)
    BY Zenon, <2>1 DEF FateInv, SafeInv
  <2>. QED
    BY Zenon, <2>1, <2>2 DEF RowSafe, Trusted
<1>. QED
  BY <1>1, FateSafe, PTL

(* No row is closed for a successor still in quarantine, unless the conflict *)
(* pipeline chose that supersede: supersede, validate and the judge leave    *)
(* the old fact open until the new one is active.                            *)
THEOREM QuarantineSafe == Spec => []QuarantineClosesNothing
<1>1. FateInv => QuarantineClosesNothing
  <2>. SUFFICES ASSUME FateInv, NEW o \in Ids, NEW n \in Ids, Replaced(o, n)
                PROVE  facts[n].f.status = "active" \/ n \in history.piped
    BY Zenon DEF QuarantineClosesNothing
  <2>1. o \in DOMAIN facts /\ facts[o].f.by = n /\ n \notin history.purged /\ n # 0
    BY DEF Replaced, Stored, Ids
  <2>2. Live(history, facts, n)
    BY Zenon, <2>1 DEF FateInv, SafeInv, RowSafe
  <2>. QED
    BY Zenon, <2>1, <2>2 DEF Live
<1>. QED
  BY <1>1, FateSafe, PTL

=============================================================================
