------------------------------- MODULE RunTracker -------------------------------
(***************************************************************************)
(* The run tracker of the standalone server: the in-memory record of every *)
(* run, the durable row of every run parked on an approval, and the        *)
(* requests that start, resume and cancel runs of one agent, which runs at *)
(* most one of them at a time.                                             *)
(*                                                                         *)
(* A request handler is interrupted where it waits: a resume reads its     *)
(* request body after it looked at the run, and every run waits for the    *)
(* agent.  Everything between two waits is one step.  The resumable state  *)
(* of a parked run is a number, fresh for each suspension; an abort        *)
(* controller is a number too, one for each record created.                *)
(*                                                                         *)
(* The table is best-effort: a put fails (an agent without the codec, a    *)
(* state that does not serialize, a store that rejects), a delete fails,   *)
(* and the listing at boot fails.  Each leaves the rows as they were and   *)
(* is only logged.                                                         *)
(***************************************************************************)
EXTENDS Integers, FiniteSets

CONSTANTS Runs,        \* run ids
          Handlers,    \* requests under way at a time
          MaxRequests, MaxCancels, MaxDowns, MaxParks, MaxFaults   \* bounds

ASSUME BoundsAssumption == {MaxRequests, MaxCancels, MaxDowns, MaxParks, MaxFaults} \subseteq Nat
ASSUME RunsAssumption == IsFiniteSet(Runs)

VARIABLES rec,       \* run -> its record
          row,       \* run -> state in the suspended_runs table, 0: no row
          req,       \* handler -> where the request is
          phase,     \* "up", "draining", "closing", "down"
          ctls, cut, \* controllers created, controllers aborted
          parks,     \* states suspended so far
          used,      \* how much of the bounds is used up
          faults,    \* store calls that failed
          emitted,   \* run -> times onTerminal was called (history)
          parked,    \* runs that were ever suspended (history)
          open,      \* runs parked, and neither resumed nor cancelled since (history)
          unsaved,   \* runs whose state the table does not hold: the put failed (history)
          missed     \* open runs the last boot did not bring back (history)

tableVars == <<row, faults, unsaved>>
vars == <<rec, row, req, phase, ctls, cut, parks, used, faults, emitted, parked, open, unsaved, missed>>

Terminal == {"completed", "failed", "aborted"}
(* "none": the tracker holds no record of the run. *)
NoRecord == [status |-> "none", ctl |-> 0, park |-> 0]
IdleRequest == [pc |-> "idle", kind |-> "run", run |-> "none", park |-> 0, ctl |-> 0]

Init ==
  /\ rec = [r \in Runs |-> NoRecord]
  /\ row = [r \in Runs |-> 0]
  /\ req = [h \in Handlers |-> IdleRequest]
  /\ phase = "up"
  /\ ctls = 0 /\ cut = {} /\ parks = 0
  /\ used = [requests |-> 0, cancels |-> 0, downs |-> 0]
  /\ emitted = [r \in Runs |-> 0]
  /\ faults = 0
  /\ parked = {} /\ open = {} /\ unsaved = {} /\ missed = {}

-----------------------------------------------------------------------------
Known(r) == rec[r].status # "none"
Fresh(r) == ~Known(r) /\ row[r] = 0 /\ emitted[r] = 0 /\ r \notin parked
              /\ \A h \in Handlers : req[h].run # r
(* runInFlight: the agent is running for some request. *)
Busy == \E h \in Handlers : req[h].pc = "agent"
Serving == phase \in {"up", "draining"}
Alive == phase # "down"

Use(b, max) == used[b] < max /\ used' = [used EXCEPT ![b] = @ + 1]

(* The record start() and registerSuspended() work on: the one the tracker *)
(* holds, controller and all, or a new one.                                *)
Existing(r) == IF Known(r) THEN rec[r] ELSE [NoRecord EXCEPT !.ctl = ctls + 1]
Created(r) == IF Known(r) THEN ctls ELSE ctls + 1

(* A call of the store that is rejected, or never made. *)
StoreFails == faults < MaxFaults /\ faults' = faults + 1 /\ UNCHANGED row

(* suspended(): the state is serialized and put. *)
Persist(r, state) ==
  \/ row' = [row EXCEPT ![r] = state] /\ unsaved' = unsaved \ {r} /\ UNCHANGED faults
  \/ StoreFails /\ unsaved' = unsaved \cup {r}

(* settled(), and the delete of the abort route. *)
DropRow(r) ==
  /\ UNCHANGED unsaved
  /\ \/ row' = [row EXCEPT ![r] = 0] /\ UNCHANGED faults
     \/ StoreFails

(* Mutant: every settling of a run is counted. *)
completeRecounted(r, status) ==
  IF ~Known(r) THEN UNCHANGED <<rec, emitted, tableVars>>
  ELSE /\ rec' = [rec EXCEPT ![r].status = status, ![r].park = 0]
       /\ IF rec[r].status = "awaiting_approval" \/ rec[r].park # 0
            THEN DropRow(r) ELSE UNCHANGED tableVars
       /\ emitted' = [emitted EXCEPT ![r] = @ + 1]

(* Tracker.complete: the row of a run that kept a suspended state goes;    *)
(* only the first terminal status of a run is counted.                     *)
complete(r, status) ==
  IF ~Known(r) THEN UNCHANGED <<rec, emitted, tableVars>>
  ELSE /\ rec' = [rec EXCEPT ![r].status = status, ![r].park = 0]
       /\ IF rec[r].status = "awaiting_approval" \/ rec[r].park # 0
            THEN DropRow(r) ELSE UNCHANGED tableVars
       /\ emitted' = IF rec[r].status \in Terminal THEN emitted
                       ELSE [emitted EXCEPT ![r] = @ + 1]

(* Mutant: a run suspended again keeps the row of its first suspension. *)
suspendUnpersisted(r, state) ==
  /\ UNCHANGED emitted
  /\ IF ~Known(r) THEN UNCHANGED <<rec, tableVars>>
     ELSE /\ rec' = [rec EXCEPT ![r].status = "awaiting_approval", ![r].park = state]
          /\ IF row[r] = 0 THEN Persist(r, state) ELSE UNCHANGED tableVars

(* Tracker.suspend: the state is kept and mirrored in the table. *)
suspend(r, state) ==
  /\ UNCHANGED emitted
  /\ IF ~Known(r) THEN UNCHANGED <<rec, tableVars>>
     ELSE /\ rec' = [rec EXCEPT ![r].status = "awaiting_approval", ![r].park = state]
          /\ Persist(r, state)

(* Tracker.abort of every run in R: the controller is aborted in any case, *)
(* a run that is not over becomes "aborted" and loses its state; rows stay. *)
Abortable(R) == {r \in R : rec[r].status \in {"pending", "running", "awaiting_approval"}}

abort(R) ==
  /\ rec' = [r \in Runs |-> IF r \in Abortable(R)
                              THEN [rec[r] EXCEPT !.status = "aborted", !.park = 0] ELSE rec[r]]
  /\ cut' = cut \cup {rec[r].ctl : r \in {q \in R : Known(q)}}
  /\ emitted' = [r \in Runs |-> IF r \in Abortable(R) THEN emitted[r] + 1 ELSE emitted[r]]

-----------------------------------------------------------------------------
(* POST /agents/:id/run and /stream, from the body on: the agent is asked  *)
(* to run, and refuses when it runs already.                               *)
Refused(r) ==
  /\ ctls' = ctls + 1
  /\ rec' = [rec EXCEPT ![r] = [status |-> "failed", ctl |-> ctls + 1, park |-> 0]]
  /\ emitted' = [emitted EXCEPT ![r] = @ + 1]
  /\ UNCHANGED <<req, phase, cut, parks, parked, open, missed, tableVars>>

Run(h, kind, r) ==
  /\ Serving /\ req[h].pc = "idle" /\ Fresh(r)
  /\ Use("requests", MaxRequests)
  /\ IF Busy THEN Refused(r)
     ELSE /\ ctls' = ctls + 1
          /\ rec' = [rec EXCEPT ![r] = [status |-> "running", ctl |-> ctls + 1, park |-> 0]]
          /\ req' = [req EXCEPT ![h] = [pc |-> "agent", kind |-> kind, run |-> r, park |-> 0,
                                        ctl |-> ctls + 1]]
          /\ UNCHANGED <<phase, cut, parks, emitted, parked, open, missed, tableVars>>

(* POST /runs/:runId/resume up to the request body: the run must be parked. *)
Resumable(r) == rec[r].status = "awaiting_approval" /\ rec[r].park # 0

Resume(h, r) ==
  /\ Serving /\ req[h].pc = "idle" /\ Resumable(r)
  /\ Use("requests", MaxRequests)
  /\ req' = [req EXCEPT ![h] = [pc |-> "body", kind |-> "resume", run |-> r,
                                park |-> rec[r].park, ctl |-> 0]]
  /\ UNCHANGED <<rec, phase, ctls, cut, parks, emitted, parked, open, missed, tableVars>>

(* An invalid body ends the request. *)
BadBody(h) ==
  /\ Alive /\ req[h].pc = "body"
  /\ req' = [req EXCEPT ![h] = IdleRequest]
  /\ UNCHANGED <<rec, phase, ctls, cut, parks, used, emitted, parked, open, missed, tableVars>>

(* The body arrived: start() and agent.run() on the state read earlier.  A *)
(* busy agent refuses, and the handler parks the run on that state again.  *)
ResumeBody(h) ==
  LET r == req[h].run  f == Existing(r) IN
  /\ Alive /\ req[h].pc = "body"
  /\ ctls' = Created(r)
  /\ IF Busy
     THEN /\ rec' = [rec EXCEPT ![r] = [f EXCEPT !.status = "awaiting_approval", !.park = req[h].park]]
          /\ Persist(r, req[h].park)
          /\ req' = [req EXCEPT ![h] = IdleRequest]
          /\ UNCHANGED open
     ELSE /\ rec' = [rec EXCEPT ![r] = [f EXCEPT !.status = "running"]]
          /\ req' = [req EXCEPT ![h].pc = "agent", ![h].ctl = f.ctl]
          /\ open' = open \ {r}
          /\ UNCHANGED tableVars
  /\ UNCHANGED <<phase, cut, parks, used, emitted, parked, missed>>

-----------------------------------------------------------------------------
(* The agent is done with the run of h, and the handler settles it.  The   *)
(* agent may come back suspended although it was aborted: the abort may    *)
(* arrive when the suspension is already being stored.                     *)
Finished(h) ==
  /\ Alive /\ req[h].pc = "agent"
  /\ req' = [req EXCEPT ![h] = IdleRequest]
  /\ UNCHANGED <<phase, ctls, cut, used, missed>>

(* agent.run() returned a result that is no suspension, whatever its status; *)
(* a stream looks at the signal as well.                                   *)
Returned(h) ==
  /\ Finished(h)
  /\ complete(req[h].run, IF req[h].kind = "stream" /\ req[h].ctl \in cut THEN "aborted" ELSE "completed")
  /\ UNCHANGED <<parks, parked, open>>

Threw(h) ==
  /\ Finished(h)
  /\ complete(req[h].run, IF req[h].ctl \in cut THEN "aborted" ELSE "failed")
  /\ UNCHANGED <<parks, parked, open>>

Suspended(h) ==
  LET r == req[h].run IN
  /\ Finished(h) /\ req[h].kind # "stream" /\ parks < MaxParks
  /\ parks' = parks + 1
  /\ suspend(r, parks + 1)
  /\ parked' = parked \cup {r}
  /\ open' = IF Known(r) THEN open \cup {r} ELSE open

-----------------------------------------------------------------------------
(* Calls of the embedding program. *)
Declare(r) ==
  /\ phase = "up" /\ Fresh(r)
  /\ Use("requests", MaxRequests)
  /\ ctls' = ctls + 1
  /\ rec' = [rec EXCEPT ![r] = [status |-> "pending", ctl |-> ctls + 1, park |-> 0]]
  /\ UNCHANGED <<req, phase, cut, parks, emitted, parked, open, missed, tableVars>>

RegisterSuspended(r) ==
  /\ phase = "up" /\ Fresh(r) /\ parks < MaxParks
  /\ Use("requests", MaxRequests)
  /\ ctls' = ctls + 1 /\ parks' = parks + 1
  /\ rec' = [rec EXCEPT ![r] = [status |-> "awaiting_approval", ctl |-> ctls + 1, park |-> parks + 1]]
  /\ Persist(r, parks + 1)
  /\ parked' = parked \cup {r} /\ open' = open \cup {r}
  /\ UNCHANGED <<req, phase, cut, emitted, missed>>

(* POST /runs/:runId/abort drops the row of a run it found parked. *)
AbortRoute(r) ==
  /\ Serving /\ Known(r)
  /\ Use("cancels", MaxCancels)
  /\ abort({r})
  /\ IF rec[r].status = "awaiting_approval" THEN DropRow(r) ELSE UNCHANGED tableVars
  /\ open' = open \ {r}
  /\ UNCHANGED <<req, phase, ctls, parks, parked, missed>>

(* run.cancel over the WebSocket. *)
RunCancel(r) ==
  /\ Serving /\ Known(r)
  /\ Use("cancels", MaxCancels)
  /\ abort({r})
  /\ open' = open \ {r}
  /\ UNCHANGED <<req, phase, ctls, parks, parked, missed, tableVars>>

(* The sweep of scheduleRunPruning, the retention of its victims over. *)
Prunable == {r \in Runs : rec[r].status \in Terminal}

Prune ==
  \E R \in SUBSET Prunable :
    /\ phase = "up" /\ R # {}
    /\ rec' = [r \in Runs |-> IF r \in R THEN NoRecord ELSE rec[r]]
    /\ UNCHANGED <<req, phase, ctls, cut, parks, used, emitted, parked, open, missed, tableVars>>

-----------------------------------------------------------------------------
(* stop(): reservations are dropped, then running runs are waited for. *)
Stop ==
  /\ phase = "up"
  /\ Use("downs", MaxDowns)
  /\ phase' = "draining"
  /\ abort({r \in Runs : rec[r].status = "pending"})
  /\ UNCHANGED <<req, ctls, parks, parked, open, missed, tableVars>>

Running == {r \in Runs : rec[r].status = "running"}

Drained ==
  /\ phase = "draining" /\ Running = {}
  /\ phase' = "closing"
  /\ UNCHANGED <<rec, req, ctls, cut, parks, used, emitted, parked, open, missed, tableVars>>

(* Mutant: the shutdown drops the rows of the runs it aborts. *)
abortAllDropping ==
  /\ abort(Runs)
  /\ row' = [r \in Runs |-> IF r \in Abortable(Runs) THEN 0 ELSE row[r]]
  /\ UNCHANGED <<faults, unsaved>>

(* The drain timed out: abortAll(). *)
abortAll == abort(Runs) /\ UNCHANGED tableVars

DrainTimeout ==
  /\ phase = "draining" /\ Running # {}
  /\ phase' = "closing"
  /\ abortAll
  /\ UNCHANGED <<req, ctls, parks, used, parked, open, missed>>

(* stop({ force: true }) waits for nothing and aborts nothing. *)
ForcedStop ==
  /\ phase = "draining" /\ Running # {}
  /\ phase' = "closing"
  /\ UNCHANGED <<rec, req, ctls, cut, parks, used, emitted, parked, open, missed, tableVars>>

Down ==
  /\ rec' = [r \in Runs |-> NoRecord]
  /\ req' = [h \in Handlers |-> IdleRequest]
  /\ phase' = "down"
  /\ UNCHANGED <<ctls, cut, parks, emitted, parked, open, missed, tableVars>>

Exit == phase = "closing" /\ Down /\ UNCHANGED used
Crash == phase # "down" /\ Use("downs", MaxDowns) /\ Down

(* start(): every row is registered again, its state put as it was read;   *)
(* when the listing fails, none is.                                        *)
Hydrated == {r \in Runs : row[r] # 0}

Hydrate ==
  /\ \E num \in [Hydrated -> (ctls + 1)..(ctls + Cardinality(Hydrated))] :
       /\ \A r, q \in Hydrated : num[r] = num[q] => r = q
       /\ rec' = [r \in Runs |-> IF r \in Hydrated
                    THEN [status |-> "awaiting_approval", ctl |-> num[r], park |-> row[r]] ELSE NoRecord]
  /\ ctls' = ctls + Cardinality(Hydrated)
  /\ unsaved' = unsaved \ Hydrated /\ missed' = open \ Hydrated
  /\ UNCHANGED <<row, faults>>

HydrateFails == StoreFails /\ missed' = open /\ UNCHANGED <<rec, ctls, unsaved>>

Restart ==
  /\ phase = "down"
  /\ phase' = "up"
  /\ Hydrate \/ HydrateFails
  /\ UNCHANGED <<req, cut, parks, used, emitted, parked, open>>

-----------------------------------------------------------------------------
Next ==
  \/ \E h \in Handlers, r \in Runs : Run(h, "run", r) \/ Run(h, "stream", r) \/ Resume(h, r)
  \/ \E h \in Handlers : BadBody(h) \/ ResumeBody(h) \/ Returned(h) \/ Threw(h) \/ Suspended(h)
  \/ \E r \in Runs : Declare(r) \/ RegisterSuspended(r) \/ AbortRoute(r) \/ RunCancel(r)
  \/ Prune \/ Stop \/ Drained \/ DrainTimeout \/ ForcedStop \/ Exit \/ Crash \/ Restart

Spec == Init /\ [][Next]_vars

-----------------------------------------------------------------------------
(* What a resume would run is what a restart would restore: a run shown as *)
(* awaiting_approval holds a state, stored or not, and unless the store    *)
(* failed to take that state the suspended_runs table holds the same one,  *)
(* whatever suspensions, refusals, aborts, failed deletes and restarts     *)
(* went before (suspend, registerSuspended, the agent-busy branch of       *)
(* resume).                                                                *)
ParkMirrored ==
  \A r \in Runs : rec[r].status = "awaiting_approval" =>
    rec[r].park # 0 /\ (r \notin unsaved => row[r] = rec[r].park)

(* A parked run nobody resumed or cancelled is not lost: not to a sweep of *)
(* the retention, a request that raced the suspension, a drain that timed  *)
(* out and aborted every run, or a crash.  Its row is there unless the put *)
(* failed, and a server that is up offers it for resume unless its boot    *)
(* did not bring it back: no row, or a table it could not read.  A failed  *)
(* put costs the row and never the parked run itself.                      *)
ParkSurvives ==
  \A r \in open :
    /\ r \notin unsaved => row[r] # 0
    /\ phase = "up" /\ r \notin missed => rec[r].status = "awaiting_approval"

(* onTerminal is called once for a run that never parked, even when a      *)
(* cancel, a shutdown and the handler of the run all settle it.            *)
CountedOnce == \A r \in Runs \ parked : emitted[r] <= 1
=============================================================================
