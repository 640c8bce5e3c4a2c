--------------------------- MODULE SemanticMemory ---------------------------
(* The semantic tier of a memory: the `facts` table of the SQLite store, the *)
(* SemanticMemory calls that write it, the five-stage conflict pipeline a    *)
(* remember() consults, and the deep phase's judge, which settles the        *)
(* conflicts the pipeline deferred.                                          *)
(*                                                                           *)
(* Every call awaits the store, an embedder or a model between its           *)
(* statements, and a server and a command-line process share the file: one   *)
(* SQL statement or transaction is one step, and other callers' statements   *)
(* come between any two.  A call holds the fact it read or built in memory   *)
(* and writes it back whole, so what it writes may be out of date.           *)
(*                                                                           *)
(* No caller supplies a validTo here, so a row's interval is open exactly    *)
(* while its superseded_by is null.                                          *)
EXTENDS Integers

CONSTANTS
    Callers,    (* tool calls, the standard phase, the promotion step, a CLI *)
    Judge,      (* the deep phase: one per scope, under the scope lock       *)
    Scenarios,  (* the texts that may be written, how they relate, and how   *)
                (* many writes, other calls and abandoned calls there are    *)
    MaxFacts    (* facts written in any scenario                             *)

ASSUME FactsAssumption ==
    /\ Judge \notin Callers
    /\ MaxFacts \in Nat
    /\ \A s \in Scenarios :
          /\ s.maxWrites \in 0..MaxFacts
          /\ s.maxCalls \in Nat
          /\ s.maxFaults \in Nat
          /\ s.flagged \subseteq s.texts
          /\ s.suspect \subseteq s.texts
          /\ s.zone \in [s.texts \X s.texts -> 0..3]
          /\ s.auto \in BOOLEAN /\ s.embedder \in BOOLEAN

VARIABLES
    cf,        (* the scenario                                               *)
    facts,     (* the table: id -> [f, deleted, archived, vec]               *)
    ops,       (* the call each actor is in                                  *)
    pending,   (* conflict_check_pending: id -> [against, state]             *)
    commits,   (* how many ids have been inserted, and for each id which of  *)
               (* these insertions was its first, 0 before                   *)
    history,   (* the ids a pipeline supersede wrote, validate promoted, a   *)
               (* forced validate promoted, the standard phase activated, a  *)
               (* purge removed                                              *)
    used       (* the bounds' counters                                       *)

vars == <<cf, facts, ops, pending, commits, history, used>>

Ids == 1..MaxFacts
Actors == Callers \cup {Judge}
(* Only the classes the code tells apart: the user's own, extracted, and the *)
(* facts no provenance was given for.                                        *)
Provenances == {"user", "unset", "extraction"}
Statuses == {"active", "quarantined"}

(* A Fact as a caller holds it: superseded_by and supersedes are ids, or 0.  *)
Facts == [text : cf.texts, prov : Provenances, status : Statuses,
          by : 0..MaxFacts, of : 0..MaxFacts]

Rows == [f : Facts, deleted : BOOLEAN, archived : BOOLEAN, vec : BOOLEAN]

(* What get() returns for a row that is not there.                           *)
NoFact == [text |-> "none", prov |-> "none", status |-> "none", by |-> 0, of |-> 0]

Ops == [kind : {"none", "remember", "supersede", "validate", "judge"},
        pc : {"idle", "search", "text", "commit", "rewrite", "close",
              "promote", "fetchOld", "verdict", "resolve"},
        id : 0..MaxFacts, target : 0..MaxFacts, fact : Facts \cup {NoFact}]

NoOp == [kind |-> "none", pc |-> "idle", id |-> 0, target |-> 0, fact |-> NoFact]

(* The zones of stage 2, as ranks of the raw cosine: cold, conflict check,   *)
(* near duplicate, hot.                                                      *)
Cold == 0
Check == 1
Near == 2
Hot == 3

TypeOK ==
    /\ cf \in Scenarios
    /\ DOMAIN facts \subseteq Ids
    /\ facts \in [DOMAIN facts -> Rows]
    /\ ops \in [Actors -> Ops]
    /\ \A a \in Actors :
          /\ ops[a].fact = NoFact => ops[a].pc \in {"idle", "promote", "verdict", "resolve"}
          /\ ops[a].id = 0 => ops[a].pc = "idle"
    /\ pending \in [Ids -> [against : 0..MaxFacts,
                            state : {"none", "open", "attempted", "resolved"}]]
    /\ commits \in [at : [Ids -> Nat], n : Nat]
    /\ history \in [piped : SUBSET Ids, promoted : SUBSET Ids,
                    forced : SUBSET Ids, auto : SUBSET Ids, purged : SUBSET Ids]
    /\ used \in [facts : 0..cf.maxWrites, calls : 0..cf.maxCalls, faults : 0..cf.maxFaults]

-----------------------------------------------------------------------------
(* The statements of the store.                                              *)

Stored(i) == i \in DOMAIN facts

(* The row clauses every recall shares: live, not archived, valid now.       *)
Current(i) ==
    /\ Stored(i)
    /\ ~facts[i].deleted
    /\ ~facts[i].archived
    /\ facts[i].f.by = 0

(* Default recall leaves quarantined rows out as well.                       *)
Recalled(i) == Current(i) /\ facts[i].f.status = "active"

(* get(): any row that is not soft-deleted, or null.                         *)
Gettable(i) == Stored(i) /\ ~facts[i].deleted

(* remember / rememberWithEmbedding: the upsert writes every field of the    *)
(* fact and leaves the tombstone, the archive flag and, without an           *)
(* embedding, the vector alone; an id that is not there is inserted.         *)
Upsert(i, f, embedded) ==
    /\ facts' = [j \in DOMAIN facts \cup {i} |->
                    IF j # i THEN facts[j]
                    ELSE IF Stored(i)
                         THEN [facts[i] EXCEPT !.f = f, !.vec = @ \/ embedded]
                         ELSE [f |-> f, deleted |-> FALSE, archived |-> FALSE,
                               vec |-> embedded]]
    /\ commits' = IF commits.at[i] # 0 THEN commits
                  ELSE [at |-> [commits.at EXCEPT ![i] = commits.n + 1], n |-> commits.n + 1]

(* Mutant: the two ids are swapped. *)
CloseRowSwapped(old, new) ==
    facts' = IF Stored(new) THEN [facts EXCEPT ![new].f.by = old] ELSE facts

(* The second statement of the store's supersede: superseded_by is           *)
(* overwritten, whatever the row holds.                                      *)
CloseRow(old, new) ==
    facts' = IF Stored(old) THEN [facts EXCEPT ![old].f.by = new] ELSE facts

SetActive(i) ==
    facts' = IF Stored(i) THEN [facts EXCEPT ![i].f.status = "active"] ELSE facts

LinkPendingSupersede(new, old) ==
    facts' = IF Stored(new) THEN [facts EXCEPT ![new].f.of = old] ELSE facts

Tombstone(i) ==
    IF Stored(i)
    THEN [facts EXCEPT ![i].deleted = TRUE, ![i].archived = TRUE, ![i].vec = FALSE]
    ELSE facts

-----------------------------------------------------------------------------
(* The conflict pipeline.                                                    *)

Admit == [kind |-> "admit", id |-> 0]
DedupTo(i) == [kind |-> "dedup", id |-> i]
SupersedeOf(i) == [kind |-> "supersede", id |-> i]
PendingOn(i) == [kind |-> "pending", id |-> i]

TextOf(i) == facts[i].f.text

(* Stage 4: the hits with the candidate's subject and predicate.             *)
SameSubject(t, hits) ==
    {i \in hits : cf.about[t] # "none" /\ cf.about[TextOf(i)] = cf.about[t]}

(* Stages 2 to 5 once no hit has the candidate's text, for the best hit and  *)
(* the zone its score falls in.  Only the hot zone comes before the markers  *)
(* and the triples; which of several same-subject hits is met first depends  *)
(* on the scores, and is left open.                                          *)
Staged(t, hits, top, zone) ==
    IF zone = Hot THEN {DedupTo(top)}
    ELSE IF t \in cf.marked THEN {SupersedeOf(top)}
    ELSE IF SameSubject(t, hits) # {}
         THEN {IF cf.says[TextOf(i)] = cf.says[t] THEN DedupTo(i) ELSE SupersedeOf(i) :
                  i \in SameSubject(t, hits)}
    ELSE {CASE zone = Near  -> DedupTo(top)
            [] zone = Check -> PendingOn(top)
            [] zone = Cold  -> Admit}

(* The decisions the pipeline may take about text t and these hits, when a   *)
(* hit's score may fall in the zones zoneOf gives.  Stage 1 goes through all *)
(* the hits, not only the best one.                                          *)
Orchestrate(t, hits, tops, zoneOf) ==
    IF hits = {} THEN {Admit}
    ELSE IF \E i \in hits : TextOf(i) = t
         THEN {DedupTo(i) : i \in {j \in hits : TextOf(j) = t}}
    ELSE UNION {UNION {Staged(t, hits, i, z) : z \in zoneOf[i]} : i \in tops}

(* Vector candidates: quarantined rows never compete, and the hits come in   *)
(* the order of their cosine.                                                *)
VectorHits == {i \in Ids : Recalled(i) /\ facts[i].vec}

VectorDecisions(t) ==
    LET zone == [i \in VectorHits |-> {cf.zone[<<t, TextOf(i)>>]}]
        tops == {i \in VectorHits : \A j \in VectorHits :
                    cf.zone[<<t, TextOf(j)>>] <= cf.zone[<<t, TextOf(i)>>]}
    IN  Orchestrate(t, VectorHits, tops, zone)

(* Full-text candidates: quarantined rows do compete.  The score is a BM25   *)
(* rank, which has no upper bound and depends on the whole corpus, so it may *)
(* fall in any of the zones.                                                 *)
TextHits == {i \in Ids : Current(i)}

TextDecisions(t) ==
    Orchestrate(t, TextHits, TextHits, [i \in TextHits |-> Cold..Hot])

-----------------------------------------------------------------------------
(* The calls.                                                                *)

Move(a, op) == ops' = [ops EXCEPT ![a] = op]

To(a, pc) == Move(a, [ops[a] EXCEPT !.pc = pc])

At(a, pc) == ops[a].pc = pc

(* A synthesized fact lands quarantined unless the standard phase opted in   *)
(* to promoting it; one that trips the injection heuristics, or that the     *)
(* injection classifier holds back, always does.                             *)
Status(t, prov, auto, held) ==
    IF t \in cf.flagged \/ held \/ (prov = "extraction" /\ ~auto) THEN "quarantined" ELSE "active"

NewFact(t, prov, auto, held, old) ==
    [text |-> t, prov |-> prov, status |-> Status(t, prov, auto, held), by |-> 0, of |-> old]

(* A call that writes a fact: the id is drawn and the fact built in memory.  *)
(* The classifier, if there is one, is asked about a text the heuristics     *)
(* pass; a call of it that fails holds nothing back.                         *)
Write(a, kind, pc, t, prov, auto, old) ==
    /\ At(a, "idle")
    /\ used.facts < cf.maxWrites
    /\ \E held \in BOOLEAN :
          /\ held => t \in cf.suspect \ cf.flagged
          /\ Move(a, [kind |-> kind, pc |-> pc, id |-> used.facts + 1, target |-> old,
                      fact |-> NewFact(t, prov, auto, held, old)])
    /\ used' = [used EXCEPT !.facts = @ + 1]
    /\ history' = IF auto THEN [history EXCEPT !.auto = @ \cup {used.facts + 1}] ELSE history
    /\ UNCHANGED <<cf, facts, pending, commits>>

(* remember() with the pipeline on: the fact_remember tool with the user's   *)
(* provenance, the memory-flush hook with extraction's.                      *)
Remember(a, t, prov) ==
    /\ t \in cf.texts
    /\ prov # "unset"
    /\ Write(a, "remember", IF cf.embedder THEN "search" ELSE "text", t, prov, FALSE, 0)

(* The standard phase's `add`: the pipeline is off.                          *)
Add(a, t) ==
    /\ t \in cf.texts
    /\ Write(a, "remember", "commit", t, "extraction", cf.auto, 0)

(* The standard phase may activate the successor at once only when the fact  *)
(* it replaces is active and not the user's own.                             *)
AllowImmediateSupersede(old) ==
    /\ cf.auto
    /\ Gettable(old)
    /\ facts[old].f.status # "quarantined"
    /\ facts[old].f.prov # "user"

(* supersede(): the fact_supersede tool gives no provenance, the standard    *)
(* phase's `update` and `conflict` extraction's.  The target is a fact the   *)
(* caller was shown by a search.                                             *)
Supersede(a, t, prov, old) ==
    /\ t \in cf.texts
    /\ prov # "user"
    /\ Current(old)
    /\ Write(a, "supersede", "commit", t, prov,
             prov = "extraction" /\ AllowImmediateSupersede(old), old)

(* The pipeline's decision, with the pending row it enqueues: that happens   *)
(* before the candidate itself is written.                                   *)
Decided(a, d) ==
    /\ IF d.kind = "dedup" THEN Move(a, NoOp)
       ELSE Move(a, [ops[a] EXCEPT !.pc = "commit",
                                   !.target = IF d.kind = "supersede" THEN d.id ELSE 0])
    /\ pending' = IF d.kind = "pending"
                  THEN [pending EXCEPT ![ops[a].id] = [against |-> d.id, state |-> "open"]]
                  ELSE pending
    /\ history' = IF d.kind = "supersede"
                  THEN [history EXCEPT !.piped = @ \cup {ops[a].id}]
                  ELSE history
    /\ UNCHANGED <<cf, facts, commits, used>>

(* collectVectorCandidates: with no hit the pipeline asks the full-text      *)
(* index.                                                                    *)
SearchVectors(a) ==
    /\ At(a, "search")
    /\ IF VectorHits = {}
       THEN To(a, "text") /\ UNCHANGED <<cf, facts, pending, commits, history, used>>
       ELSE \E d \in VectorDecisions(ops[a].fact.text) : Decided(a, d)

SearchText(a) ==
    /\ At(a, "text")
    /\ \E d \in TextDecisions(ops[a].fact.text) : Decided(a, d)

(* Mutant: an explicit supersede closes the old row at once. *)
ClosesAtOnce(op) == op.target # 0

(* After the commit: remember() closes the row the pipeline chose; a         *)
(* supersede() whose successor is quarantined stops, the old row left open.  *)
Closes(op) ==
    /\ op.target # 0
    /\ op.kind = "remember" \/ op.fact.status = "active"

CommitFact(a) ==
    /\ At(a, "commit")
    /\ Upsert(ops[a].id, ops[a].fact, cf.embedder)
    /\ IF Closes(ops[a]) THEN To(a, "rewrite") ELSE Move(a, NoOp)
    /\ UNCHANGED <<cf, pending, history, used>>

(* The store's supersede writes the successor first ...                      *)
Rewrite(a) ==
    /\ At(a, "rewrite")
    /\ Upsert(ops[a].id, ops[a].fact, FALSE)
    /\ To(a, "close")
    /\ UNCHANGED <<cf, pending, history, used>>

(* ... and then closes the row it replaces.                                  *)
Close(a) ==
    /\ At(a, "close")
    /\ CloseRow(ops[a].target, ops[a].id)
    /\ IF ops[a].kind = "judge" THEN To(a, "resolve") ELSE Move(a, NoOp)
    /\ UNCHANGED <<cf, pending, commits, history, used>>

Call(a) ==
    /\ At(a, "idle")
    /\ used.calls < cf.maxCalls
    /\ used' = [used EXCEPT !.calls = @ + 1]

(* Mutant: the text is not judged again. *)
RefusedNever(i, force) == FALSE

(* validate(): the fact is read and its text judged again, by the heuristics *)
(* alone; a flagged one needs force.  A row get() does not return passes     *)
(* this test.                                                                *)
Refused(i, force) == Gettable(i) /\ ~force /\ facts[i].f.text \in cf.flagged

Validate(a, i, force) ==
    /\ i \in DOMAIN facts \cup history.purged
    /\ Call(a)
    /\ IF Refused(i, force)
       THEN UNCHANGED <<ops, history>>
       ELSE /\ Move(a, [kind |-> "validate", pc |-> "promote", id |-> i, target |-> 0,
                        fact |-> IF Gettable(i) THEN facts[i].f ELSE NoFact])
            /\ history' = [history EXCEPT !.promoted = @ \cup {i},
                                          !.forced = IF force THEN @ \cup {i} ELSE @]
    /\ UNCHANGED <<cf, facts, pending, commits>>

(* setStatus: any row of that id, a tombstone too.                           *)
Promote(a) ==
    LET op == ops[a]
    IN  /\ At(a, "promote")
        /\ SetActive(op.id)
        /\ IF op.fact = NoFact \/ op.fact.of = 0 THEN Move(a, NoOp)
           ELSE Move(a, [op EXCEPT !.pc = "fetchOld", !.target = op.fact.of])
        /\ UNCHANGED <<cf, pending, commits, history, used>>

(* A pending supersede is completed while the old row is still open, with    *)
(* the fact as validate() first read it.                                     *)
FetchOld(a) ==
    LET op == ops[a]
    IN  /\ At(a, "fetchOld")
        /\ IF Gettable(op.target) /\ facts[op.target].f.by = 0
           THEN Move(a, [op EXCEPT !.pc = "rewrite", !.fact.status = "active"])
           ELSE Move(a, NoOp)
        /\ UNCHANGED <<cf, facts, pending, commits, history, used>>

Forget(a, i) ==
    /\ Call(a)
    /\ Gettable(i)
    /\ facts' = Tombstone(i)
    /\ UNCHANGED <<cf, ops, pending, commits, history>>

(* The light phase's decay.                                                  *)
ArchiveFact(a, i) ==
    /\ Call(a)
    /\ Recalled(i)
    /\ facts' = [facts EXCEPT ![i].archived = TRUE]
    /\ UNCHANGED <<cf, ops, pending, commits, history>>

Purge(a, i) ==
    /\ Call(a)
    /\ Stored(i)
    /\ facts' = [j \in DOMAIN facts \ {i} |-> facts[j]]
    /\ history' = [history EXCEPT !.purged = @ \cup {i}]
    /\ UNCHANGED <<cf, ops, pending, commits>>

-----------------------------------------------------------------------------
(* The deep phase's judge.                                                   *)

Resolve(i) == pending' = [pending EXCEPT ![i].state = "resolved"]

Unresolved(i) == pending[i].state \in {"open", "attempted"}

(* The next pending row: when the fact it conflicts with is gone, the        *)
(* candidate is admitted without a model call.                               *)
JudgeNext(i) ==
    /\ At(Judge, "idle")
    /\ Unresolved(i)
    /\ IF Gettable(pending[i].against)
       THEN /\ Move(Judge, [NoOp EXCEPT !.kind = "judge", !.pc = "verdict", !.id = i,
                                        !.target = pending[i].against])
            /\ UNCHANGED pending
       ELSE Resolve(i) /\ UNCHANGED ops
    /\ UNCHANGED <<cf, facts, commits, history, used>>

(* The model's answer after its call.  A quarantined candidate only records  *)
(* the link; an active one replaces the row; a duplicate candidate is        *)
(* soft-deleted.                                                             *)
VerdictSupersede ==
    LET i == ops[Judge].id
        old == ops[Judge].target
    IN  /\ At(Judge, "verdict")
        /\ CASE ~Gettable(i) ->
                  To(Judge, "resolve") /\ UNCHANGED facts
             [] Gettable(i) /\ facts[i].f.status = "quarantined" ->
                  To(Judge, "resolve") /\ LinkPendingSupersede(i, old)
             [] Gettable(i) /\ facts[i].f.status = "active" ->
                  /\ Move(Judge, [ops[Judge] EXCEPT !.pc = "rewrite", !.fact = facts[i].f])
                  /\ UNCHANGED facts
        /\ UNCHANGED <<cf, pending, commits, history, used>>

VerdictDedup ==
    /\ At(Judge, "verdict")
    /\ facts' = Tombstone(ops[Judge].id)
    /\ To(Judge, "resolve")
    /\ UNCHANGED <<cf, pending, commits, history, used>>

VerdictAdmit ==
    /\ At(Judge, "verdict")
    /\ To(Judge, "resolve")
    /\ UNCHANGED <<cf, facts, pending, commits, history, used>>

(* Mutant: a failed call leaves no mark. *)
VerdictFailsUnmarked ==
    /\ At(Judge, "verdict")
    /\ Move(Judge, NoOp)
    /\ UNCHANGED <<cf, facts, pending, commits, history, used>>

(* The call threw or the answer could not be parsed: the second time closes  *)
(* the row.                                                                  *)
VerdictFails ==
    LET i == ops[Judge].id
    IN  /\ At(Judge, "verdict")
        /\ pending' = [pending EXCEPT ![i].state =
                          IF @ = "attempted" THEN "resolved" ELSE "attempted"]
        /\ Move(Judge, NoOp)
        /\ UNCHANGED <<cf, facts, commits, history, used>>

MarkResolved ==
    /\ At(Judge, "resolve")
    /\ Resolve(ops[Judge].id)
    /\ Move(Judge, NoOp)
    /\ UNCHANGED <<cf, facts, commits, history, used>>

(* A process dies, an embedder call rejects or a signal aborts the call:     *)
(* what is in the tables stays.                                              *)
Abandon(a) ==
    /\ ~At(a, "idle")
    /\ used.faults < cf.maxFaults
    /\ used' = [used EXCEPT !.faults = @ + 1]
    /\ Move(a, NoOp)
    /\ UNCHANGED <<cf, facts, pending, commits, history>>

-----------------------------------------------------------------------------
Init ==
    /\ cf \in Scenarios
    /\ facts = <<>>
    /\ ops = [a \in Actors |-> NoOp]
    /\ pending = [i \in Ids |-> [against |-> 0, state |-> "none"]]
    /\ commits = [at |-> [i \in Ids |-> 0], n |-> 0]
    /\ history = [piped |-> {}, promoted |-> {}, forced |-> {}, auto |-> {}, purged |-> {}]
    /\ used = [facts |-> 0, calls |-> 0, faults |-> 0]

(* The statements of a call in progress.                                     *)
Continue(a) ==
    \/ SearchVectors(a)
    \/ SearchText(a)
    \/ CommitFact(a)
    \/ Rewrite(a)
    \/ Close(a)
    \/ Promote(a)
    \/ FetchOld(a)

CallerStep(a) ==
    \/ \E t \in cf.texts, prov \in Provenances : Remember(a, t, prov)
    \/ \E t \in cf.texts : Add(a, t)
    \/ \E t \in cf.texts, prov \in Provenances, old \in Ids : Supersede(a, t, prov, old)
    \/ \E i \in Ids, force \in BOOLEAN : Validate(a, i, force)
    \/ \E i \in Ids : Forget(a, i)
    \/ \E i \in Ids : ArchiveFact(a, i)
    \/ \E i \in Ids : Purge(a, i)
    \/ Continue(a)

JudgeStep ==
    \/ \E i \in Ids : JudgeNext(i)
    \/ VerdictSupersede
    \/ VerdictDedup
    \/ VerdictAdmit
    \/ VerdictFails
    \/ Rewrite(Judge)
    \/ Close(Judge)
    \/ MarkResolved

Next ==
    \/ \E a \in Callers : CallerStep(a)
    \/ JudgeStep
    \/ \E a \in Actors : Abandon(a)

Spec == Init /\ [][Next]_vars

(* The consolidator's triggers keep starting the deep phase, which goes      *)
(* through its pending rows.                                                 *)
FairSpec == Spec /\ WF_vars(JudgeStep)

-----------------------------------------------------------------------------
(* SemanticMemory.rememberWithDecision and validate: default recall returns  *)
(* a synthesized fact only after it was validated or the standard phase was  *)
(* told to promote it, and a fact whose text the injection heuristics flag   *)
(* only after an operator forced it, whatever calls overlap and wherever one *)
(* stops.  (A fact that was purged is left out: a write in progress may      *)
(* insert it again.)                                                         *)
TrustGate ==
    \A i \in Ids \ history.purged : Recalled(i) =>
        /\ facts[i].f.text \in cf.flagged => i \in history.forced
        /\ facts[i].f.prov = "extraction" => i \in history.promoted \cup history.auto

Replaced(o, n) == Stored(o) /\ Stored(n) /\ facts[o].f.by = n /\ n \notin history.purged

(* SemanticMemory.supersede, validate and the deep phase's judge: a row is   *)
(* closed only in favour of one that recall returns in its place.  A         *)
(* successor still in quarantine leaves the row it will replace open, unless *)
(* it was the conflict pipeline that chose to supersede.                     *)
QuarantineClosesNothing ==
    \A o, n \in Ids : Replaced(o, n) =>
        facts[n].f.status = "active" \/ n \in history.piped

(* superseded_by and supersedes lead from a row to one that was inserted     *)
(* after it, respectively before it: historyOf's chains have no cycle, and   *)
(* no two facts supersede each other although the pipeline, the judge and    *)
(* validate set these links from what they read earlier.                     *)
ChainsForward ==
    \A i \in DOMAIN facts :
        /\ facts[i].f.by # 0 => commits.at[i] < commits.at[facts[i].f.by]
        /\ facts[i].f.of # 0 => commits.at[facts[i].f.of] < commits.at[i]

(* The deep phase: a conflict the pipeline deferred is settled in the end,   *)
(* also when the judge's calls keep failing or a phase dies in between.      *)
PendingSettled ==
    \A i \in Ids : Unresolved(i) ~> pending[i].state = "resolved"
=============================================================================
