----------------------------- MODULE RunTrackerProofs -----------------------------
(***************************************************************************)
(* Parked runs of the standalone server, for any number of runs, handlers, *)
(* requests, cancels, restarts and calls of the store that fail.           *)
(*                                                                         *)
(* The invariant adds to the properties what the handlers know: a resume   *)
(* that waits for its body read a state of a run that was parked, at most  *)
(* one handler waits for the agent, and the run it waits for is not open.  *)
(***************************************************************************)
EXTENDS RunTracker, FiniteSetTheorems, TLAPS

RecordStates ==
  [status : Terminal \cup {"none", "pending", "running", "awaiting_approval"}, ctl : Nat, park : Nat]
RequestStates ==
  [pc : {"idle", "body", "agent"}, kind : {"run", "stream", "resume"}, run : Runs \cup {"none"},
   park : Nat, ctl : Nat]

TrackerTypes ==
  /\ rec \in [Runs -> RecordStates]
  /\ row \in [Runs -> Nat]
  /\ req \in [Handlers -> RequestStates]
  /\ ctls \in Nat /\ parks \in Nat
  /\ emitted \in [Runs -> Nat]
  /\ open \subseteq Runs

(* What a request under way holds. *)
RequestsSound ==
  /\ \A h \in Handlers : req[h].pc # "idle" => req[h].run \in Runs
  /\ \A h \in Handlers : req[h].pc = "body" => req[h].park # 0 /\ req[h].run \in parked
  /\ \A h \in Handlers : req[h].pc = "agent" => req[h].run \notin open
  /\ \A h, g \in Handlers : req[h].pc = "agent" /\ req[g].pc = "agent" => h = g

(* What was parked, and what of it was counted. *)
CountsSound ==
  /\ \A r \in Runs : row[r] # 0 \/ rec[r].status = "awaiting_approval" => r \in parked
  /\ \A r \in Runs \ parked : rec[r].status \in {"pending", "running"} => emitted[r] = 0
  /\ open \subseteq parked

TrackerInv ==
  TrackerTypes /\ RequestsSound /\ CountsSound /\ ParkMirrored /\ ParkSurvives /\ CountedOnce

-----------------------------------------------------------------------------
(* The records the actions build are well-formed.                             *)
LEMMA Shapes ==
  /\ NoRecord \in RecordStates /\ IdleRequest \in RequestStates /\ IdleRequest.pc = "idle"
  /\ NoRecord.status = "none"
BY DEF NoRecord, RecordStates, IdleRequest, RequestStates

(* A put concerns one row: it holds the state, or the run counts as unsaved.  *)
LEMMA PersistFacts ==
  ASSUME TrackerTypes, NEW r \in Runs, NEW n \in Nat, Persist(r, n)
  PROVE  /\ row' \in [Runs -> Nat]
         /\ r \notin unsaved' => row'[r] = n
         /\ \A q \in Runs : q # r => row'[q] = row[q] /\ (q \in unsaved' <=> q \in unsaved)
BY DEF TrackerTypes, Persist, StoreFails

(* A run that is started anew: the record and the handler are filled in.      *)
LEMMA RunKeeps ==
  ASSUME TrackerInv, NEW h \in Handlers, NEW r \in Runs, NEW kind \in {"run", "stream"}, Run(h, kind, r)
  PROVE  TrackerInv'
<1>1. TrackerTypes /\ Fresh(r) /\ req[h].pc = "idle"
  BY DEF TrackerInv, Run
<1>2. UNCHANGED <<row, parks, parked, open, unsaved, missed>>
  BY DEF Run, Refused, tableVars
<1>3. r \notin parked /\ r \notin open /\ row[r] = 0 /\ emitted[r] = 0
  BY <1>1 DEF TrackerInv, Fresh, CountsSound
<1>4. CASE Busy
  <2>1. Refused(r) /\ phase' = phase
    BY <1>4 DEF Run, Refused
  <2>2. PICK v : v = [status |-> "failed", ctl |-> ctls + 1, park |-> 0]
    BY Zenon
  <2>3. v \in RecordStates /\ v.status = "failed"
    BY <1>1, <2>2 DEF RecordStates, TrackerTypes, Terminal
  <2>4. rec' = [rec EXCEPT ![r] = v] /\ emitted' = [emitted EXCEPT ![r] = 1] /\ ctls' = ctls + 1 /\ req' = req
    BY <1>1, <1>3, <2>1, <2>2 DEF Refused, TrackerTypes
  <2>5. TrackerTypes'
    BY <1>1, <1>2, <2>3, <2>4 DEF TrackerTypes
  <2>6. RequestsSound'
    BY <1>2, <2>4 DEF TrackerInv, RequestsSound
  <2>7. CountsSound' /\ CountedOnce'
    BY <1>1, <1>2, <2>3, <2>4 DEF TrackerInv, TrackerTypes, CountsSound, CountedOnce
  <2>8. ParkMirrored' /\ ParkSurvives'
    BY <1>1, <1>2, <1>3, <2>1, <2>3, <2>4 DEF TrackerInv, TrackerTypes, ParkMirrored, ParkSurvives
  <2> QED
    BY <2>5, <2>6, <2>7, <2>8 DEF TrackerInv
<1>5. CASE ~Busy
  <2>1. phase' = phase /\ emitted' = emitted /\ ctls' = ctls + 1
    BY <1>5 DEF Run
  <2>2. PICK v, w : /\ v = [status |-> "running", ctl |-> ctls + 1, park |-> 0]
                    /\ w = [pc |-> "agent", kind |-> kind, run |-> r, park |-> 0, ctl |-> ctls + 1]
    BY Zenon
  <2>3. v \in RecordStates /\ v.status = "running" /\ w \in RequestStates /\ w.pc = "agent" /\ w.run = r
    BY <1>1, <2>2 DEF RecordStates, RequestStates, TrackerTypes
  <2>4. rec' = [rec EXCEPT ![r] = v] /\ req' = [req EXCEPT ![h] = w]
    BY <1>5, <2>2 DEF Run
  <2>5. TrackerTypes'
    BY <1>1, <1>2, <2>1, <2>3, <2>4 DEF TrackerTypes
  <2>6. RequestsSound'
    BY <1>1, <1>2, <1>3, <1>5, <2>3, <2>4 DEF TrackerInv, TrackerTypes, RequestsSound, Busy
  <2>7. CountsSound' /\ CountedOnce'
    BY <1>1, <1>2, <1>3, <2>1, <2>3, <2>4 DEF TrackerInv, TrackerTypes, CountsSound, CountedOnce
  <2>8. ParkMirrored' /\ ParkSurvives'
    BY <1>1, <1>2, <1>3, <2>1, <2>3, <2>4 DEF TrackerInv, TrackerTypes, ParkMirrored, ParkSurvives
  <2> QED
    BY <2>5, <2>6, <2>7, <2>8 DEF TrackerInv
<1> QED
  BY <1>4, <1>5

(* A resume reads the parked state, then waits for its body.                  *)
LEMMA ResumeKeeps ==
  ASSUME TrackerInv, NEW h \in Handlers, NEW r \in Runs, Resume(h, r)
  PROVE  TrackerInv'
<1>1. PICK w : w = [pc |-> "body", kind |-> "resume", run |-> r, park |-> rec[r].park, ctl |-> 0]
  BY Zenon
<1>2. req' = [req EXCEPT ![h] = w] /\ UNCHANGED <<rec, row, phase, ctls, parks, emitted, parked, open, unsaved, missed>>
  BY <1>1 DEF Resume, tableVars
<1>3. w \in RequestStates /\ w.pc = "body" /\ w.run = r /\ w.park # 0 /\ r \in parked
  BY <1>1 DEF TrackerInv, TrackerTypes, CountsSound, RecordStates, RequestStates, Resume, Resumable
<1>4. TrackerTypes'
  BY <1>2, <1>3 DEF TrackerInv, TrackerTypes
<1>5. RequestsSound'
  BY <1>2, <1>3 DEF TrackerInv, TrackerTypes, RequestsSound
<1> QED
  BY <1>2, <1>4, <1>5 DEF TrackerInv, CountsSound, ParkMirrored, ParkSurvives, CountedOnce

(* A request that ends while the records stay.                                *)
LEMMA BadBodyKeeps ==
  ASSUME TrackerInv, NEW h \in Handlers, BadBody(h)
  PROVE  TrackerInv'
<1>1. /\ req' = [req EXCEPT ![h] = IdleRequest]
      /\ UNCHANGED <<rec, row, phase, ctls, parks, emitted, parked, open, unsaved, missed>>
  BY DEF BadBody, tableVars
<1>2. TrackerTypes' /\ RequestsSound'
  BY <1>1, Shapes DEF TrackerInv, TrackerTypes, RequestsSound
<1> QED
  BY <1>1, <1>2 DEF TrackerInv, CountsSound, ParkMirrored, ParkSurvives, CountedOnce

(* The body of a resume has arrived: the run starts, or is parked again.      *)
LEMMA ResumeBodyKeeps ==
  ASSUME TrackerInv, NEW h \in Handlers, ResumeBody(h)
  PROVE  TrackerInv'
<1>1. PICK r, f : r = req[h].run /\ f = Existing(r)
  OBVIOUS
<1>2. TrackerTypes /\ r \in Runs /\ r \in parked /\ req[h].park \in Nat \ {0} /\ req[h].pc = "body"
  BY <1>1 DEF ResumeBody, TrackerInv, TrackerTypes, RequestStates, RequestsSound
<1>3. f \in RecordStates /\ ctls' \in Nat
  BY <1>1, <1>2 DEF ResumeBody, Existing, Created, TrackerTypes, RecordStates, NoRecord
<1>4. UNCHANGED <<phase, parks, emitted, parked, missed>>
  BY DEF ResumeBody
<1>5. CASE Busy
  <2>1. PICK v : v = [f EXCEPT !.status = "awaiting_approval", !.park = req[h].park]
    OBVIOUS
  <2>2. v \in RecordStates /\ v.status = "awaiting_approval" /\ v.park = req[h].park
    BY Zenon, <1>2, <1>3, <2>1 DEF RecordStates
  <2>3. /\ rec' = [rec EXCEPT ![r] = v] /\ Persist(r, req[h].park)
        /\ req' = [req EXCEPT ![h] = IdleRequest] /\ open' = open
    BY <1>1, <1>5, <2>1 DEF ResumeBody
  <2>4. /\ row' \in [Runs -> Nat]
        /\ r \notin unsaved' => row'[r] = req[h].park
        /\ \A q \in Runs : q # r => row'[q] = row[q] /\ (q \in unsaved' <=> q \in unsaved)
    BY Zenon, <1>2, <2>3, PersistFacts
  <2>5. TrackerTypes' /\ RequestsSound'
    BY <1>2, <1>3, <1>4, <2>2, <2>3, <2>4, Shapes DEF TrackerInv, TrackerTypes, RequestsSound
  <2>6. CountsSound' /\ CountedOnce'
    BY <1>2, <1>4, <2>2, <2>3, <2>4 DEF TrackerInv, TrackerTypes, CountsSound, CountedOnce
  <2>7. ParkMirrored' /\ ParkSurvives'
    BY <1>2, <1>4, <2>2, <2>3, <2>4 DEF TrackerInv, TrackerTypes, ParkMirrored, ParkSurvives
  <2> QED
    BY <2>5, <2>6, <2>7 DEF TrackerInv
<1>6. CASE ~Busy
  <2>1. PICK v, w : v = [f EXCEPT !.status = "running"] /\ w = [req[h] EXCEPT !.pc = "agent", !.ctl = f.ctl]
    BY Zenon
  <2>2. v \in RecordStates /\ v.status = "running"
    BY <1>3, <2>1 DEF RecordStates
  <2>3. w \in RequestStates /\ w.pc = "agent" /\ w.run = r
    BY ZenonT(30), <1>1, <1>2, <1>3, <2>1 DEF TrackerTypes, RequestStates, RecordStates
  <2>4. /\ rec' = [rec EXCEPT ![r] = v] /\ row' = row /\ unsaved' = unsaved
        /\ req' = [req EXCEPT ![h] = w] /\ open' = open \ {r}
    BY Zenon, <1>1, <1>2, <1>6, <2>1 DEF ResumeBody, TrackerTypes, tableVars
  <2>5. TrackerTypes'
    BY <1>2, <1>3, <1>4, <2>2, <2>3, <2>4 DEF TrackerTypes
  <2>6. RequestsSound'
    BY <1>2, <1>4, <1>6, <2>3, <2>4 DEF TrackerInv, TrackerTypes, RequestsSound, Busy
  <2>7. CountsSound' /\ CountedOnce'
    BY <1>2, <1>4, <2>2, <2>4 DEF TrackerInv, TrackerTypes, CountsSound, CountedOnce
  <2>8. ParkMirrored' /\ ParkSurvives'
    BY <1>2, <1>4, <2>2, <2>4 DEF TrackerInv, TrackerTypes, ParkMirrored, ParkSurvives
  <2> QED
    BY <2>5, <2>6, <2>7, <2>8 DEF TrackerInv
<1> QED
  BY <1>5, <1>6

(* The agent is done with a run: only the handler's own run is settled, and   *)
(* that run is not open.                                                      *)
LEMMA SettledKeeps ==
  ASSUME TrackerInv, NEW h \in Handlers, NEW s \in Terminal, Finished(h), complete(req[h].run, s),
         UNCHANGED <<parks, parked, open>>
  PROVE  TrackerInv'
<1>1. PICK r : r = req[h].run
  OBVIOUS
<1>2. TrackerTypes /\ r \in Runs /\ r \notin open /\ req[h].pc = "agent"
  BY <1>1 DEF Finished, TrackerInv, RequestsSound
<1>3. req' = [req EXCEPT ![h] = IdleRequest] /\ phase' = phase /\ ctls' = ctls /\ missed' = missed
  BY DEF Finished
<1>4. RequestsSound'
  BY <1>2, <1>3, Shapes DEF TrackerInv, TrackerTypes, RequestsSound
<1>5. CASE ~Known(r)
  <2>1. UNCHANGED <<rec, row, emitted, unsaved>>
    BY <1>1, <1>5 DEF complete, tableVars
  <2> QED
    BY <1>2, <1>3, <1>4, <2>1, Shapes
       DEF TrackerInv, TrackerTypes, CountsSound, ParkMirrored, ParkSurvives, CountedOnce
<1>6. CASE Known(r)
  <2>1. PICK v : v = [rec[r] EXCEPT !.status = s, !.park = 0]
    OBVIOUS
  <2>2. v \in RecordStates /\ v.status = s
    BY Zenon, <1>2, <2>1 DEF TrackerTypes, RecordStates
  <2>3. rec' = [rec EXCEPT ![r] = v]
    BY Zenon, <1>1, <1>2, <1>6, <2>1 DEF complete, TrackerTypes
  <2>4. (row' = row \/ row' = [row EXCEPT ![r] = 0]) /\ unsaved' = unsaved
    BY <1>1, <1>6 DEF complete, DropRow, StoreFails, tableVars
  <2>5. /\ rec[r].status \in Terminal => emitted' = emitted
        /\ rec[r].status \notin Terminal => emitted' = [emitted EXCEPT ![r] = @ + 1]
    BY <1>1, <1>6 DEF complete
  <2>6. TrackerTypes'
    BY <1>2, <1>3, <2>2, <2>3, <2>4, <2>5, Shapes DEF TrackerTypes
  <2>7. s # "awaiting_approval" /\ s # "pending" /\ s # "running"
    BY DEF Terminal
  <2>8. CountsSound'
    BY <1>2, <2>2, <2>3, <2>4, <2>5, <2>7 DEF TrackerInv, TrackerTypes, CountsSound
  <2>9. r \notin parked /\ rec[r].status \notin Terminal => emitted[r] = 0
    BY <1>2, <1>6 DEF TrackerInv, TrackerTypes, CountsSound, RecordStates, Known
  <2>10. CountedOnce'
    BY <1>2, <2>5, <2>9 DEF TrackerInv, TrackerTypes, CountedOnce
  <2>11. ParkMirrored' /\ ParkSurvives'
    BY <1>2, <1>3, <2>2, <2>3, <2>4, <2>7 DEF TrackerInv, TrackerTypes, ParkMirrored, ParkSurvives
  <2> QED
    BY <1>4, <2>6, <2>8, <2>10, <2>11 DEF TrackerInv
<1> QED
  BY <1>5, <1>6


(* The agent suspended: the state is kept, mirrored and open.                 *)
LEMMA SuspendedKeeps ==
  ASSUME TrackerInv, NEW h \in Handlers, Suspended(h)
  PROVE  TrackerInv'
<1>1. PICK r : r = req[h].run
  OBVIOUS
<1>2. TrackerTypes /\ r \in Runs /\ r \notin open /\ req[h].pc = "agent"
  BY <1>1 DEF Suspended, Finished, TrackerInv, RequestsSound
<1>3. /\ req' = [req EXCEPT ![h] = IdleRequest] /\ phase' = phase /\ ctls' = ctls /\ missed' = missed
      /\ parks' = parks + 1 /\ parked' = parked \cup {r} /\ emitted' = emitted
  BY <1>1 DEF Suspended, Finished, suspend
<1>4. \A g \in Handlers : req'[g].pc # "agent"
  BY <1>2, <1>3, Shapes DEF TrackerInv, TrackerTypes, RequestsSound
<1>5. RequestsSound'
  BY <1>2, <1>3, <1>4, Shapes DEF TrackerInv, TrackerTypes, RequestsSound
<1>6. CASE ~Known(r)
  <2>1. UNCHANGED <<rec, row, open, unsaved>>
    BY <1>1, <1>6 DEF Suspended, suspend, tableVars
  <2>2. TrackerTypes'
    BY <1>2, <1>3, <2>1, Shapes DEF TrackerTypes
  <2>3. CountsSound' /\ CountedOnce'
    BY <1>3, <2>1 DEF TrackerInv, CountsSound, CountedOnce
  <2>4. ParkMirrored' /\ ParkSurvives'
    BY <1>3, <2>1 DEF TrackerInv, ParkMirrored, ParkSurvives
  <2> QED
    BY <1>5, <2>2, <2>3, <2>4 DEF TrackerInv
<1>7. CASE Known(r)
  <2>0. PICK n \in Nat \ {0} : n = parks + 1
    BY <1>2 DEF TrackerTypes
  <2>1. PICK v : v = [rec[r] EXCEPT !.status = "awaiting_approval", !.park = n]
    OBVIOUS
  <2>2. v \in RecordStates /\ v.status = "awaiting_approval" /\ v.park = n
    BY Zenon, <1>2, <2>0, <2>1 DEF TrackerTypes, RecordStates
  <2>3. rec' = [rec EXCEPT ![r] = v] /\ Persist(r, n) /\ open' = open \cup {r}
    BY Zenon, <1>1, <1>2, <1>7, <2>0, <2>1 DEF Suspended, suspend, TrackerTypes
  <2>4. /\ row' \in [Runs -> Nat]
        /\ r \notin unsaved' => row'[r] = n
        /\ \A q \in Runs : q # r => row'[q] = row[q] /\ (q \in unsaved' <=> q \in unsaved)
    BY Zenon, <1>2, <2>0, <2>3, PersistFacts
  <2>5. TrackerTypes'
    BY <1>2, <1>3, <2>0, <2>2, <2>3, <2>4, Shapes DEF TrackerTypes
  <2>6. CountsSound' /\ CountedOnce'
    BY <1>2, <1>3, <2>2, <2>3, <2>4 DEF TrackerInv, TrackerTypes, CountsSound, CountedOnce
  <2>7. ParkMirrored' /\ ParkSurvives'
    BY <1>2, <1>3, <2>0, <2>2, <2>3, <2>4 DEF TrackerInv, TrackerTypes, ParkMirrored, ParkSurvives
  <2> QED
    BY <1>5, <2>5, <2>6, <2>7 DEF TrackerInv
<1> QED
  BY <1>6, <1>7

(* A reservation, or a run registered as suspended by the embedding program.  *)
LEMMA DeclareKeeps ==
  ASSUME TrackerInv, NEW r \in Runs, Declare(r) \/ RegisterSuspended(r)
  PROVE  TrackerInv'
<1>1. TrackerTypes /\ Fresh(r)
  BY DEF TrackerInv, Declare, RegisterSuspended
<1>2. r \notin open /\ \A h \in Handlers : req[h].run # r
  BY <1>1 DEF TrackerInv, Fresh, CountsSound
<1>3. UNCHANGED <<req, phase, emitted, missed>> /\ ctls' = ctls + 1
  BY DEF Declare, RegisterSuspended
<1>4. CASE Declare(r)
  <2>1. PICK v : v = [status |-> "pending", ctl |-> ctls + 1, park |-> 0]
    BY Zenon
  <2>2. v \in RecordStates /\ v.status = "pending"
    BY <1>1, <2>1 DEF TrackerTypes, RecordStates
  <2>3. rec' = [rec EXCEPT ![r] = v] /\ UNCHANGED <<row, parks, parked, open, unsaved>>
    BY <1>4, <2>1 DEF Declare, tableVars
  <2>4. TrackerTypes' /\ RequestsSound'
    BY <1>1, <1>3, <2>2, <2>3 DEF TrackerInv, TrackerTypes, RequestsSound
  <2>5. CountsSound' /\ CountedOnce'
    BY <1>1, <1>3, <2>2, <2>3 DEF TrackerInv, TrackerTypes, CountsSound, CountedOnce, Fresh
  <2>6. ParkMirrored' /\ ParkSurvives'
    BY <1>1, <1>2, <1>3, <2>2, <2>3 DEF TrackerInv, TrackerTypes, ParkMirrored, ParkSurvives
  <2> QED
    BY <2>4, <2>5, <2>6 DEF TrackerInv
<1>5. CASE RegisterSuspended(r)
  <2>1. PICK v : v = [status |-> "awaiting_approval", ctl |-> ctls + 1, park |-> parks + 1]
    BY Zenon
  <2>2. v \in RecordStates /\ v.status = "awaiting_approval" /\ v.park = parks + 1
    BY <1>1, <2>1 DEF TrackerTypes, RecordStates
  <2>3. /\ rec' = [rec EXCEPT ![r] = v] /\ Persist(r, parks + 1)
        /\ parks' = parks + 1 /\ parked' = parked \cup {r} /\ open' = open \cup {r}
    BY <1>5, <2>1 DEF RegisterSuspended
  <2>4. PICK n \in Nat \ {0} : n = parks + 1
    BY <1>1 DEF TrackerTypes
  <2>5. /\ row' \in [Runs -> Nat]
        /\ r \notin unsaved' => row'[r] = n
        /\ \A q \in Runs : q # r => row'[q] = row[q] /\ (q \in unsaved' <=> q \in unsaved)
    BY Zenon, <1>1, <2>3, <2>4, PersistFacts
  <2>6. TrackerTypes' /\ RequestsSound'
    <3>0. rec' \in [Runs -> RecordStates] /\ ctls' \in Nat /\ parks' \in Nat /\ open' \subseteq Runs
      BY <1>1, <1>3, <2>2, <2>3 DEF TrackerTypes
    <3>1. TrackerTypes'
      BY <1>1, <1>3, <2>5, <3>0 DEF TrackerTypes
    <3>2. RequestsSound /\ req' = req /\ parked' = parked \cup {r} /\ open' = open \cup {r}
      BY <1>3, <2>3 DEF TrackerInv
    <3>3. RequestsSound'
      BY <1>2, <3>2 DEF RequestsSound
    <3> QED
      BY <3>1, <3>3
  <2>7. CountsSound' /\ CountedOnce'
    BY <1>1, <1>3, <2>2, <2>3, <2>5 DEF TrackerInv, TrackerTypes, CountsSound, CountedOnce
  <2>8. ParkMirrored' /\ ParkSurvives'
    BY <1>1, <1>3, <2>2, <2>3, <2>4, <2>5 DEF TrackerInv, TrackerTypes, ParkMirrored, ParkSurvives
  <2> QED
    BY <2>6, <2>7, <2>8 DEF TrackerInv
<1> QED
  BY <1>4, <1>5

(* abort(R) counts the runs of R that were not over, and moves no other.      *)
LEMMA AbortFacts ==
  ASSUME TrackerTypes, NEW R, abort(R)
  PROVE  /\ rec' \in [Runs -> RecordStates] /\ emitted' \in [Runs -> Nat]
         /\ \A r \in Runs : r \in Abortable(R) => rec'[r].status = "aborted" /\ emitted'[r] = emitted[r] + 1
         /\ \A r \in Runs : r \notin Abortable(R) => rec'[r] = rec[r] /\ emitted'[r] = emitted[r]
<1>1. \A r \in Runs : [rec[r] EXCEPT !.status = "aborted", !.park = 0] \in RecordStates
  BY ZenonT(30) DEF TrackerTypes, RecordStates, Terminal
<1>2. \A r \in Runs : [rec[r] EXCEPT !.status = "aborted", !.park = 0].status = "aborted"
  BY DEF TrackerTypes, RecordStates
<1>3. rec' \in [Runs -> RecordStates]
  BY Zenon, <1>1 DEF abort, TrackerTypes
<1>4. emitted' \in [Runs -> Nat]
  <2>1. \A r \in Runs : emitted[r] \in Nat /\ emitted[r] + 1 \in Nat
    BY SMTT(30) DEF TrackerTypes
  <2> QED
    BY Zenon, <2>1 DEF abort
<1>5. \A r \in Runs : r \in Abortable(R) => rec'[r].status = "aborted" /\ emitted'[r] = emitted[r] + 1
  BY ZenonT(30), <1>2 DEF abort
<1>6. \A r \in Runs : r \notin Abortable(R) => rec'[r] = rec[r] /\ emitted'[r] = emitted[r]
  BY Zenon DEF abort
<1> QED
  BY <1>3, <1>4, <1>5, <1>6

(* Aborting runs keeps the invariant when the rows of open runs stay, and     *)
(* the open runs themselves are untouched or the server is no longer up.      *)
LEMMA AbortKeeps ==
  ASSUME TrackerInv, NEW R \in SUBSET Runs, abort(R), UNCHANGED <<req, ctls, parks, parked, unsaved, missed>>,
         open' \subseteq open, row' \in [Runs -> Nat],
         \A r \in Runs : row'[r] = row[r] \/ (row'[r] = 0 /\ r \in Abortable(R) /\ r \notin open'),
         phase' = "up" => phase = "up" /\ \A r \in open' : r \notin Abortable(R)
  PROVE  TrackerInv'
<1>1. TrackerTypes
  BY DEF TrackerInv
<1>2. TrackerTypes'
  BY <1>1, AbortFacts DEF TrackerTypes
<1>3. RequestsSound'
  BY DEF TrackerInv, RequestsSound
<1>4. CountsSound'
  BY <1>1, AbortFacts DEF TrackerInv, CountsSound
<1>5. \A r \in Runs \ parked : r \in Abortable(R) => emitted[r] = 0
  BY DEF TrackerInv, CountsSound, Abortable
<1>6. CountedOnce'
  BY <1>1, <1>5, AbortFacts DEF TrackerInv, CountedOnce
<1>7. ParkMirrored'
  BY <1>1, AbortFacts DEF TrackerInv, ParkMirrored
<1>8. ParkSurvives'
  <2> SUFFICES ASSUME NEW r \in open'
               PROVE  /\ r \notin unsaved => row'[r] # 0
                      /\ phase' = "up" /\ r \notin missed => rec'[r].status = "awaiting_approval"
    BY DEF ParkSurvives
  <2>1. r \in open /\ r \in Runs
    BY <1>1 DEF TrackerTypes
  <2>2. r \notin unsaved => row'[r] # 0
    BY <2>1 DEF TrackerInv, ParkSurvives
  <2> QED
    BY <1>1, <2>1, <2>2, AbortFacts DEF TrackerInv, ParkSurvives
<1> QED
  BY <1>2, <1>3, <1>4, <1>6, <1>7, <1>8 DEF TrackerInv


(* The two cancel surfaces: the run that is cancelled is no longer open.      *)
LEMMA CancelKeeps ==
  ASSUME TrackerInv, NEW r \in Runs, AbortRoute(r) \/ RunCancel(r)
  PROVE  TrackerInv'
<1>1. /\ abort({r}) /\ UNCHANGED <<req, ctls, parks, parked, unsaved, missed>>
      /\ open' = open \ {r} /\ phase' = phase
      /\ row' = row \/ (rec[r].status = "awaiting_approval" /\ row' = [row EXCEPT ![r] = 0])
  BY DEF AbortRoute, RunCancel, DropRow, StoreFails, tableVars
<1>2. row' \in [Runs -> Nat]
  BY <1>1 DEF TrackerInv, TrackerTypes
<1>3. \A q \in Runs : row'[q] = row[q] \/ (row'[q] = 0 /\ q \in Abortable({r}) /\ q \notin open')
  BY <1>1 DEF TrackerInv, TrackerTypes, Abortable
<1>4. \A q \in open' : q \notin Abortable({r})
  BY <1>1 DEF Abortable
<1> QED
  BY Zenon, <1>1, <1>2, <1>3, <1>4, AbortKeeps

(* The steps of a shutdown that aborts runs: stop() aborts reservations only, *)
(* and when the drain times out the server is no longer up.                   *)
LEMMA ShutdownKeeps ==
  ASSUME TrackerInv, Stop \/ DrainTimeout
  PROVE  TrackerInv'
<1>1. PICK R \in SUBSET Runs : abort(R)
  BY DEF Stop, DrainTimeout, abortAll
<1>2. UNCHANGED <<row, req, ctls, parks, parked, open, unsaved, missed>> /\ phase' # "up"
  BY DEF Stop, DrainTimeout, abortAll, tableVars
<1>3. row' \in [Runs -> Nat]
  BY <1>2 DEF TrackerInv, TrackerTypes
<1> QED
  BY <1>1, <1>2, <1>3, AbortKeeps

(* The retention forgets runs that are over.                                  *)
LEMMA PruneKeeps == ASSUME TrackerInv, Prune PROVE TrackerInv'
<1>1. PICK R \in SUBSET Prunable : rec' = [r \in Runs |-> IF r \in R THEN NoRecord ELSE rec[r]]
  BY DEF Prune
<1>2. UNCHANGED <<row, req, phase, ctls, parks, emitted, parked, open, unsaved, missed>>
  BY DEF Prune, tableVars
<1>3. \A r \in Runs : rec'[r] = rec[r] \/ (rec[r].status \in Terminal /\ rec'[r] = NoRecord)
  BY <1>1 DEF Prunable
<1>4. TrackerTypes'
  BY <1>1, <1>2, Shapes DEF TrackerInv, TrackerTypes
<1>5. RequestsSound' /\ CountedOnce'
  BY <1>2 DEF TrackerInv, RequestsSound, CountedOnce
<1>6. CountsSound' /\ ParkMirrored'
  BY <1>2, <1>3, Shapes DEF TrackerInv, CountsSound, ParkMirrored
<1>7. ParkSurvives'
  <2>1. \A r \in open : r \in Runs /\ (phase = "up" /\ r \notin missed => rec[r].status \notin Terminal)
    BY DEF TrackerInv, TrackerTypes, ParkSurvives, Terminal
  <2> QED
    BY <1>2, <1>3, <2>1 DEF TrackerInv, ParkSurvives
<1> QED
  BY <1>4, <1>5, <1>6, <1>7 DEF TrackerInv

(* The process ends: the records and the requests are gone, the rows stay.    *)
LEMMA DownKeeps == ASSUME TrackerInv, Down PROVE TrackerInv'
<1>1. /\ rec' = [r \in Runs |-> NoRecord] /\ req' = [h \in Handlers |-> IdleRequest] /\ phase' = "down"
      /\ UNCHANGED <<row, ctls, parks, emitted, parked, open, unsaved, missed>>
  BY DEF Down, tableVars
<1>2. TrackerTypes'
  BY <1>1, Shapes DEF TrackerInv, TrackerTypes
<1>3. RequestsSound' /\ CountedOnce'
  BY <1>1, Shapes DEF TrackerInv, RequestsSound, CountedOnce
<1>4. CountsSound' /\ ParkMirrored' /\ ParkSurvives'
  BY <1>1, Shapes DEF TrackerInv, CountsSound, ParkMirrored, ParkSurvives
<1> QED
  BY <1>2, <1>3, <1>4 DEF TrackerInv

(* start(): every row is a run that awaits its approval again.                *)
LEMMA HydrateKeeps == ASSUME TrackerInv, Restart, Hydrate PROVE TrackerInv'
<1>1. PICK num \in [Hydrated -> (ctls + 1)..(ctls + Cardinality(Hydrated))] :
        rec' = [r \in Runs |-> IF r \in Hydrated
                  THEN [status |-> "awaiting_approval", ctl |-> num[r], park |-> row[r]] ELSE NoRecord]
  BY DEF Hydrate
<1>2. /\ UNCHANGED <<row, req, parks, emitted, parked, open>> /\ ctls' = ctls + Cardinality(Hydrated)
      /\ unsaved' = unsaved \ Hydrated /\ missed' = open \ Hydrated
  BY DEF Hydrate, Restart
<1>3. Cardinality(Hydrated) \in Nat
  BY RunsAssumption, FS_Subset, FS_CardinalityType DEF Hydrated
<1>4. TrackerTypes
  BY DEF TrackerInv
<1>5. \A r \in Hydrated : num[r] \in Nat
  BY <1>3, <1>4 DEF TrackerTypes
<1>6. \A r \in Hydrated :
        [status |-> "awaiting_approval", ctl |-> num[r], park |-> row[r]] \in RecordStates
  BY <1>4, <1>5 DEF TrackerTypes, RecordStates, Hydrated
<1>7. TrackerTypes'
  BY <1>1, <1>2, <1>3, <1>4, <1>6, Shapes DEF TrackerTypes
<1>8. \A r \in Runs :
        /\ row[r] # 0 => rec'[r].status = "awaiting_approval" /\ rec'[r].park = row[r]
        /\ row[r] = 0 => rec'[r].status = "none"
  BY <1>1, Shapes DEF Hydrated
<1>9. RequestsSound' /\ CountedOnce'
  BY <1>2 DEF TrackerInv, RequestsSound, CountedOnce
<1>10. CountsSound' /\ ParkMirrored'
  BY <1>2, <1>8 DEF TrackerInv, CountsSound, ParkMirrored
<1>11. ParkSurvives'
  BY <1>2, <1>4, <1>8 DEF TrackerInv, TrackerTypes, ParkSurvives, Hydrated
<1> QED
  BY <1>7, <1>9, <1>10, <1>11 DEF TrackerInv

(* start() with a table that cannot be read: every open run is missed, its    *)
(* row stays for the next boot.                                               *)
LEMMA HydrateFailsKeeps == ASSUME TrackerInv, Restart, HydrateFails PROVE TrackerInv'
<1>1. UNCHANGED <<rec, row, req, ctls, parks, emitted, parked, open, unsaved>> /\ missed' = open
  BY DEF Restart, HydrateFails, StoreFails
<1>2. TrackerTypes' /\ RequestsSound' /\ CountsSound'
  BY <1>1 DEF TrackerInv, TrackerTypes, RequestsSound, CountsSound
<1>3. ParkMirrored' /\ ParkSurvives' /\ CountedOnce'
  BY <1>1 DEF TrackerInv, ParkMirrored, ParkSurvives, CountedOnce
<1> QED
  BY <1>2, <1>3 DEF TrackerInv

(* A step that leaves records, rows and requests alone, and does not bring    *)
(* the server up.                                                             *)
LEMMA PhaseKeeps ==
  ASSUME TrackerInv, UNCHANGED <<rec, row, req, ctls, parks, emitted, parked, open, unsaved, missed>>,
         phase' = "up" => phase = "up"
  PROVE  TrackerInv'
<1>1. TrackerTypes' /\ RequestsSound' /\ CountsSound'
  BY DEF TrackerInv, TrackerTypes, RequestsSound, CountsSound
<1>2. ParkMirrored' /\ ParkSurvives' /\ CountedOnce'
  BY DEF TrackerInv, ParkMirrored, ParkSurvives, CountedOnce
<1> QED
  BY <1>1, <1>2 DEF TrackerInv

(* No run is parked, counted or under way at the start.                       *)
LEMMA TrackerStarts == Init => TrackerInv
<1> SUFFICES ASSUME Init PROVE TrackerInv
  OBVIOUS
<1>1. TrackerTypes
  BY Shapes DEF Init, TrackerTypes
<1>2. RequestsSound /\ CountsSound
  BY Shapes DEF Init, RequestsSound, CountsSound
<1>3. ParkMirrored /\ ParkSurvives /\ CountedOnce
  BY Shapes DEF Init, ParkMirrored, ParkSurvives, CountedOnce
<1> QED
  BY <1>1, <1>2, <1>3 DEF TrackerInv

(* Every step of the server keeps the invariant.                              *)
LEMMA TrackerStep == TrackerInv /\ [Next]_vars => TrackerInv'
<1> SUFFICES ASSUME TrackerInv, [Next]_vars PROVE TrackerInv'
  OBVIOUS
<1>1. ASSUME NEW h \in Handlers, NEW r \in Runs, Run(h, "run", r) \/ Run(h, "stream", r) \/ Resume(h, r)
      PROVE  TrackerInv'
  BY <1>1, RunKeeps, ResumeKeeps
<1>2. ASSUME NEW h \in Handlers, BadBody(h) \/ ResumeBody(h) \/ Suspended(h)
      PROVE  TrackerInv'
  BY <1>2, BadBodyKeeps, ResumeBodyKeeps, SuspendedKeeps
<1>3. ASSUME NEW h \in Handlers, Returned(h) \/ Threw(h)
      PROVE  TrackerInv'
  <2>1. PICK s \in Terminal : Finished(h) /\ complete(req[h].run, s) /\ UNCHANGED <<parks, parked, open>>
    BY <1>3 DEF Returned, Threw, Terminal
  <2> QED
    BY <2>1, SettledKeeps
<1>4. ASSUME NEW r \in Runs, Declare(r) \/ RegisterSuspended(r) \/ AbortRoute(r) \/ RunCancel(r)
      PROVE  TrackerInv'
  BY <1>4, DeclareKeeps, CancelKeeps
<1>5. CASE Prune \/ Stop \/ DrainTimeout \/ Restart
  BY <1>5, PruneKeeps, ShutdownKeeps, HydrateKeeps, HydrateFailsKeeps DEF Restart
<1>6. CASE Exit \/ Crash
  BY <1>6, DownKeeps DEF Exit, Crash
<1>7. CASE Drained \/ ForcedStop
  BY <1>7, PhaseKeeps DEF Drained, ForcedStop, tableVars
<1>8. CASE UNCHANGED vars
  BY <1>8, PhaseKeeps DEF vars
<1> QED
  BY <1>1, <1>2, <1>3, <1>4, <1>5, <1>6, <1>7, <1>8 DEF Next

-----------------------------------------------------------------------------
(* What a resume would run is what a restart would restore, unless the store  *)
(* failed to take it: then the run still holds its state in memory.           *)
THEOREM MirroredSafe == Spec => []ParkMirrored
<1>1. TrackerInv => ParkMirrored
  BY DEF TrackerInv
<1> QED
  BY <1>1, TrackerStarts, TrackerStep, PTL DEF Spec

(* A parked run that nobody resumed or cancelled is never lost: the row of a  *)
(* put that took survives sweeps, races, drains, aborts and crashes, and a    *)
(* server that is up offers every such run its boot brought back or it parked *)
(* itself, whatever calls of the store fail.                                  *)
THEOREM SurvivesSafe == Spec => []ParkSurvives
<1>1. TrackerInv => ParkSurvives
  BY DEF TrackerInv
<1> QED
  BY <1>1, TrackerStarts, TrackerStep, PTL DEF Spec

(* onTerminal is called at most once for a run that never parked.             *)
THEOREM CountedSafe == Spec => []CountedOnce
<1>1. TrackerInv => CountedOnce
  BY DEF TrackerInv
<1> QED
  BY <1>1, TrackerStarts, TrackerStep, PTL DEF Spec


=============================================================================
