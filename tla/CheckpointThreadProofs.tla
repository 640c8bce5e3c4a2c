------------------------ MODULE CheckpointThreadProofs ------------------------
(***************************************************************************)
(* Proofs about CheckpointThread for any number of calls, processes,       *)
(* executes, steps and checkpoints.                                        *)
(***************************************************************************)
EXTENDS CheckpointThread, TLAPS

(* What moving one call does to the function of all calls. *)
LEMMA MoveFacts ==
  ASSUME runner \in [Runners -> RunnerState], NEW r \in Runners,
         NEW v \in RunnerState, Move(r, v)
  PROVE  /\ runner' \in [Runners -> RunnerState]
         /\ runner'[r] = v
         /\ \A q \in Runners : q # r => runner'[q] = runner[q]
  BY DEF Move

(* A call that is not in flight. *)
LEMMA IdleType == Idle \in RunnerState
  BY DEF RunnerState, Idle, NoParent, Statuses

(* A call that read the checkpoint it continues from. *)
LEMMA LoadedType ==
  ASSUME NEW v \in RunnerState, NEW p \in Nat, NEW n \in Nat
  PROVE  [v EXCEPT !.pc = "drive", !.parent = p, !.step = n + 1] \in RunnerState
<1>1. n + 1 \in Nat
  OBVIOUS
<1> QED
  BY Zenon, <1>1 DEF RunnerState

(* A step of a run under durability 'exit' that stores nothing. *)
LEMMA SkippedType ==
  ASSUME NEW v \in RunnerState
  PROVE  [v EXCEPT !.step = @ + 1, !.taken = @ + 1] \in RunnerState
<1>1. v.step + 1 \in Nat /\ v.taken + 1 \in Nat
  BY DEF RunnerState
<1> QED
  BY Zenon, <1>1 DEF RunnerState

(* A step that ended and is about to be stored. *)
LEMMA SettledType ==
  ASSUME NEW v \in RunnerState, NEW s \in Statuses
  PROVE  [v EXCEPT !.pc = "check", !.status = s] \in RunnerState
  BY Zenon DEF RunnerState

(* A call that goes on after its checkpoint was put. *)
LEMMA PutType ==
  ASSUME NEW v \in RunnerState, NEW p \in Nat
  PROVE  [v EXCEPT !.pc = "drive", !.parent = p, !.step = @ + 1, !.taken = @ + 1]
           \in RunnerState
<1>1. v.step + 1 \in Nat /\ v.taken + 1 \in Nat
  BY DEF RunnerState
<1> QED
  BY Zenon, <1>1 DEF RunnerState

(* Every action keeps the variables in their types; used by each proof     *)
(* below.                                                                  *)
LEMMA TypeStep == TypeOK /\ [Next]_vars => TypeOK'
<1> SUFFICES ASSUME TypeOK, [Next]_vars PROVE TypeOK'
  OBVIOUS
<1> USE DEF TypeOK
<1>1. ASSUME NEW r \in Runners, Finish(r)
      PROVE runner' \in [Runners -> RunnerState] /\ lock' \subseteq Instances
  BY <1>1, IdleType, MoveFacts DEF Finish
<1>2. ASSUME NEW r \in Runners, NEW d \in Durabilities, Execute(r, d) PROVE TypeOK'
  <2> DEFINE v == [Idle EXCEPT !.pc = "drive", !.mode = "execute", !.durability = d]
  <2>1. v \in RunnerState
    BY Zenon, ConstantsAssumption DEF RunnerState, Idle, NoParent, Statuses
  <2>2. Move(r, v)
    BY <1>2 DEF Execute
  <2> HIDE DEF v
  <2>3. runner' \in [Runners -> RunnerState]
    BY <2>1, <2>2, MoveFacts
  <2> QED
    BY <1>2, <2>3 DEF Execute
<1>3. ASSUME NEW r \in Runners, NEW d \in Durabilities, NEW mode \in {"resume", "retry"},
             Resume(r, mode, d)
      PROVE TypeOK'
  <2> DEFINE v == [Idle EXCEPT !.pc = "load", !.mode = mode, !.durability = d]
  <2>1. v \in RunnerState
    BY ZenonT(30), ConstantsAssumption DEF RunnerState, Idle, NoParent, Statuses
  <2>2. Move(r, v)
    BY <1>3 DEF Resume
  <2> HIDE DEF v
  <2>3. runner' \in [Runners -> RunnerState]
    BY <2>1, <2>2, MoveFacts
  <2> QED
    BY <1>3, <2>3 DEF Resume, Instances
<1>4. ASSUME NEW r \in Runners, Load(r) PROVE TypeOK'
  <2>1. CASE Finish(r)
    BY ZenonT(30), <1>1, <1>4, <2>1 DEF Load
  <2>2. CASE \E c \in store :
               /\ Move(r, [runner[r] EXCEPT !.pc = "drive", !.parent = c.id,
                                            !.step = c.step + 1])
               /\ UNCHANGED lock
    <3>1. PICK c \in store :
               /\ Move(r, [runner[r] EXCEPT !.pc = "drive", !.parent = c.id,
                                            !.step = c.step + 1])
               /\ UNCHANGED lock
      BY ZenonT(30), <2>2
    <3> DEFINE v == [runner[r] EXCEPT !.pc = "drive", !.parent = c.id,
                                      !.step = c.step + 1]
    <3>2. v \in RunnerState
      BY Zenon, LoadedType DEF Checkpoint
    <3> HIDE DEF v
    <3>3. runner' \in [Runners -> RunnerState]
      BY <3>1, <3>2, MoveFacts DEF v
    <3> QED
      BY ZenonT(30), <1>4, <3>1, <3>3 DEF Load
  <2> QED
    BY Zenon, <1>4, <2>1, <2>2 DEF Load
<1>5. ASSUME NEW r \in Runners, Advance(r) PROVE TypeOK'
  <2>1. PICK s \in Statuses :
          \/ Move(r, [runner[r] EXCEPT !.step = @ + 1, !.taken = @ + 1])
          \/ Move(r, [runner[r] EXCEPT !.pc = "check", !.status = s])
    BY Zenon, <1>5 DEF Advance, Statuses
  <2>2. /\ [runner[r] EXCEPT !.step = @ + 1, !.taken = @ + 1] \in RunnerState
        /\ [runner[r] EXCEPT !.pc = "check", !.status = s] \in RunnerState
    BY Zenon, SkippedType, SettledType
  <2>3. runner' \in [Runners -> RunnerState]
    BY <2>1, <2>2, MoveFacts
  <2> QED
    BY <1>5, <2>3 DEF Advance
<1>6. ASSUME NEW r \in Runners, PreCheck(r) PROVE TypeOK'
  <2>1. [runner[r] EXCEPT !.pc = "put"] \in RunnerState
    BY DEF RunnerState
  <2>2. runner' \in [Runners -> RunnerState]
    BY <1>6, <2>1, MoveFacts DEF PreCheck
  <2> QED
    BY <1>6, <2>2 DEF PreCheck
<1>7. ASSUME NEW r \in Runners, Put(r) PROVE TypeOK'
  <2> DEFINE new == [id |-> nextId, parent |-> runner[r].parent,
                     step |-> runner[r].step, status |-> runner[r].status]
             v == [runner[r] EXCEPT !.pc = "drive", !.parent = nextId,
                                    !.step = @ + 1, !.taken = @ + 1]
  <2>1. new \in Checkpoint /\ v \in RunnerState
    <3>1. runner[r] \in RunnerState /\ nextId \in Nat
      OBVIOUS
    <3> QED
      BY Zenon, <3>1, PutType DEF RunnerState, Checkpoint
  <2>2. /\ store' = store \cup {new} /\ ever' = ever \cup {new} /\ nextId' = nextId + 1
        /\ (Move(r, v) /\ UNCHANGED lock) \/ Finish(r)
        /\ UNCHANGED <<executes, calls, picked>>
    BY <1>7 DEF Put
  <2> HIDE DEF new, v
  <2>3. runner' \in [Runners -> RunnerState] /\ lock' \subseteq Instances
    BY <1>1, <2>1, <2>2, MoveFacts
  <2> QED
    BY <2>1, <2>2, <2>3 DEF NoParent
<1>8. ASSUME NEW r \in Runners, Conflict(r) \/ Throw(r) PROVE TypeOK'
  BY <1>1, <1>8 DEF Conflict, Throw
<1>9. ASSUME NEW i \in Instances, Crash(i) PROVE TypeOK'
  BY <1>9, IdleType DEF Crash
<1>10. CASE DeleteThread
  BY <1>10 DEF DeleteThread
<1>11. ASSUME NEW kept \in SUBSET store, CompactThread(kept) PROVE TypeOK'
  BY <1>11 DEF CompactThread
<1>12. CASE PruneSelects \/ PruneDeletes
  BY <1>12 DEF PruneSelects, PruneDeletes
<1>13. CASE UNCHANGED vars
  BY <1>13 DEF vars
<1> HIDE DEF TypeOK
<1> QED
  BY <1>2, <1>3, <1>4, <1>5, <1>6, <1>7, <1>8, <1>9, <1>10, <1>11, <1>12, <1>13
  DEF Next, CallStep

-----------------------------------------------------------------------------
(* The parent of a call is a checkpoint behind its own step: the fourth    *)
(* conjunct of ChainInv, for one call.                                     *)
Behind(v) ==
  v.parent # NoParent =>
    \E d \in ever : d.id = v.parent /\ d.step < v.step /\ d.status # "completed"

(* A step that stores no checkpoint and moves each call to a state that is *)
(* still behind preserves the invariant of the chain.                      *)
LEMMA ChainFrame ==
  ASSUME ChainInv, TypeOK', UNCHANGED <<ever, nextId>>, UNCHANGED store,
         \A q \in Runners : Behind(runner'[q])
  PROVE  ChainInv'
  BY DEF ChainInv, Behind, SoundParents, NoFork, IsLatest

(* A step that only removes stored checkpoints, the older ones first.      *)
LEMMA ChainShrink ==
  ASSUME ChainInv, TypeOK', UNCHANGED <<ever, nextId, runner>>, store' \subseteq store,
         \A k \in store', v \in store \ store' : v.step <= k.step
  PROVE  ChainInv'
<1> USE DEF ChainInv
<1>1. /\ \A c \in ever' : c.id < nextId'
      /\ \A c, d \in ever' : c.id = d.id => c = d
      /\ SoundParents' /\ NoFork'
  BY DEF SoundParents, NoFork
<1>2. \A r \in Runners : runner'[r].parent # NoParent =>
        \E d \in ever' : /\ d.id = runner'[r].parent
                         /\ d.step < runner'[r].step
                         /\ d.status # "completed"
  OBVIOUS
<1>3. ASSUME NEW c \in ever', NEW p \in store', c.parent = p.id
      PROVE  \E d \in store' : p.step < d.step
  <2>1. PICK d \in store : p.step < d.step
    BY <1>3
  <2>2. d \in store'
    BY <2>1 DEF TypeOK, Checkpoint
  <2> QED
    BY <2>1, <2>2
<1>4. ASSUME store' # {} PROVE \E c \in store' : IsLatest(c)'
  <2>1. PICK c \in store : IsLatest(c)
    BY <1>4
  <2>2. CASE c \in store'
    BY <2>1, <2>2 DEF IsLatest
  <2>3. CASE c \notin store'
    <3>1. PICK k \in store' : TRUE
      BY <1>4
    <3>2. c.step <= k.step
      BY <2>3
    <3>3. \A d \in store' : d.step <= k.step
      BY <2>1, <3>2 DEF IsLatest, TypeOK, Checkpoint
    <3> QED
      BY <3>3 DEF IsLatest
  <2> QED
    BY <2>2, <2>3
<1> QED
  BY <1>1, <1>2, <1>3, <1>4

(* The put of a call: the compare-and-set accepted its parent, so nothing  *)
(* was ever put on that parent before.                                     *)
LEMMA ChainPut == ASSUME ChainInv, TypeOK', NEW r \in Runners, Put(r) PROVE ChainInv'
<1> DEFINE new == [id |-> nextId, parent |-> runner[r].parent,
                   step |-> runner[r].step, status |-> runner[r].status]
           v == [runner[r] EXCEPT !.pc = "drive", !.parent = nextId,
                                  !.step = @ + 1, !.taken = @ + 1]
<1>1. /\ runner[r] \in RunnerState /\ runner \in [Runners -> RunnerState]
      /\ nextId \in Nat \ {NoParent} /\ store \subseteq ever /\ ever \subseteq Checkpoint
  BY DEF ChainInv, TypeOK
<1>2. /\ CasAccepts(r)
      /\ store' = store \cup {new} /\ ever' = ever \cup {new} /\ nextId' = nextId + 1
      /\ \/ Move(r, v) /\ new.status = "running"
         \/ Finish(r)
  BY DEF Put
<1>3. /\ new.id = nextId /\ new.parent = runner[r].parent /\ new.step = runner[r].step
      /\ new.status = runner[r].status /\ new.step \in Nat /\ new.parent \in Nat
  BY <1>1 DEF RunnerState
<1>4. v \in RunnerState /\ v.parent = nextId /\ v.step = runner[r].step + 1
  <2>1. v \in RunnerState
    BY Zenon, <1>1, PutType
  <2> QED
    BY SMTT(30), <1>1, <2>1 DEF RunnerState
<1> HIDE DEF new, v
<1>5. /\ \A c \in ever' : c.id < nextId'
      /\ \A c, d \in ever' : c.id = d.id => c = d
  BY <1>1, <1>2, <1>3 DEF ChainInv, Checkpoint
<1>6. ASSUME NEW q \in Runners, runner'[q].parent # NoParent
      PROVE  \E d \in ever' : /\ d.id = runner'[q].parent
                              /\ d.step < runner'[q].step
                              /\ d.status # "completed"
  <2>1. CASE q # r
    <3>1. runner'[q] = runner[q]
      BY <1>1, <1>2, <1>4, <2>1, IdleType, MoveFacts DEF Finish
    <3> QED
      BY <1>2, <1>6, <3>1 DEF ChainInv
  <2>2. CASE q = r /\ Finish(r)
    BY <1>1, <1>6, <2>2, IdleType, MoveFacts DEF Finish, Idle
  <2>3. CASE q = r /\ Move(r, v) /\ new.status = "running"
    <3>1. runner'[q] = v
      BY <1>1, <1>4, <2>3, MoveFacts
    <3>2. new \in ever' /\ new.id = v.parent /\ new.step < v.step /\ new.status # "completed"
      BY <1>2, <1>3, <1>4, <2>3
    <3> QED
      BY <3>1, <3>2
  <2> QED
    BY <1>2, <2>1, <2>2, <2>3
<1>7. ASSUME runner[r].parent # NoParent
      PROVE  /\ \E p \in store : /\ IsLatest(p) /\ p.id = runner[r].parent
                                /\ p.step < new.step /\ p.status # "completed"
             /\ \A c \in ever : c.parent # runner[r].parent
  <2>1. PICK p \in store : IsLatest(p) /\ p.id = runner[r].parent
    BY <1>2, <1>7 DEF CasAccepts
  <2>2. PICK d \in ever : /\ d.id = runner[r].parent /\ d.step < runner[r].step
                          /\ d.status # "completed"
    BY <1>7 DEF ChainInv
  <2>3. d = p
    BY <1>1, <2>1, <2>2 DEF ChainInv
  <2>4. ASSUME NEW c \in ever, c.parent = p.id PROVE FALSE
    <3>1. PICK e \in store : p.step < e.step
      BY <2>4 DEF ChainInv
    <3> QED
      BY <1>1, <2>1, <3>1 DEF IsLatest, Checkpoint
  <2> QED
    BY <1>3, <2>1, <2>2, <2>3, <2>4
<1>8. SoundParents'
  BY <1>2, <1>3, <1>7, <1>1 DEF ChainInv, SoundParents
<1>9. NoFork'
  BY <1>2, <1>3, <1>7 DEF ChainInv, NoFork
<1>10. ASSUME NEW c \in ever', NEW p \in store', c.parent = p.id
       PROVE  \E d \in store' : p.step < d.step
  <2>1. CASE c \in ever /\ p \in store
    BY <1>2, <1>10, <2>1 DEF ChainInv
  <2>2. CASE c = new /\ p \in store
    <3>1. runner[r].parent # NoParent
      BY <1>1, <1>3, <1>10, <2>2 DEF Checkpoint
    <3>2. p.step < new.step
      BY <1>1, <1>3, <1>7, <1>10, <2>2, <3>1 DEF ChainInv
    <3> QED
      BY <1>2, <3>2
  <2>3. CASE p = new
    <3>1. c.parent # NoParent /\ c.parent = nextId
      BY <1>1, <1>3, <1>10, <2>3
    <3>2. \E d \in ever : d.id = c.parent
      <4>1. CASE c \in ever
        BY <3>1, <4>1 DEF ChainInv, SoundParents
      <4>2. CASE c = new
        BY <1>1, <1>3, <1>7, <3>1, <4>2
      <4> QED
        BY <1>2, <4>1, <4>2
    <3> QED
      BY <1>1, <3>1, <3>2 DEF ChainInv, Checkpoint
  <2> QED
    BY <1>2, <2>1, <2>2, <2>3
<1>11. \E c \in store' : IsLatest(c)'
  <2>1. CASE store = {}
    BY <1>2, <1>3, <2>1 DEF IsLatest
  <2>2. CASE store # {}
    <3>1. PICK c \in store : IsLatest(c)
      BY <2>2 DEF ChainInv
    <3>2. c.step \in Nat /\ \A d \in store : d.step \in Nat /\ d.step <= c.step
      BY <1>1, <3>1 DEF IsLatest, Checkpoint
    <3>3. CASE c.step <= new.step
      BY <1>2, <1>3, <3>2, <3>3 DEF IsLatest
    <3>4. CASE new.step <= c.step
      BY <1>2, <1>3, <3>2, <3>4 DEF IsLatest
    <3> QED
      BY <1>3, <3>2, <3>3, <3>4
  <2> QED
    BY <2>1, <2>2
<1> QED
  BY <1>5, <1>6, <1>8, <1>9, <1>10, <1>11 DEF ChainInv

(* Every action preserves the invariant of the chain. *)
LEMMA ChainStep == ChainInv /\ [Next]_vars => ChainInv'
<1> SUFFICES ASSUME ChainInv, [Next]_vars PROVE ChainInv'
  OBVIOUS
<1>0. TypeOK /\ TypeOK'
  BY TypeStep DEF ChainInv
<1>1. /\ runner \in [Runners -> RunnerState] /\ store \subseteq ever
      /\ ever \subseteq Checkpoint
      /\ \A q \in Runners : Behind(runner[q])
  BY <1>0 DEF TypeOK, ChainInv, Behind
<1>2. Behind(Idle)
  BY DEF Behind, Idle
<1>3. ASSUME NEW r \in Runners, NEW v \in RunnerState, Move(r, v), Behind(v)
      PROVE  \A q \in Runners : Behind(runner'[q])
  BY <1>1, <1>3, MoveFacts
<1>4. ASSUME NEW r \in Runners, Finish(r) PROVE \A q \in Runners : Behind(runner'[q])
  BY <1>2, <1>3, <1>4, IdleType DEF Finish
<1>5. ASSUME NEW r \in Runners, NEW d \in Durabilities, Execute(r, d) PROVE ChainInv'
  <2> DEFINE v == [Idle EXCEPT !.pc = "drive", !.mode = "execute", !.durability = d]
  <2>1. v \in RunnerState /\ v.parent = NoParent
    BY Zenon, ConstantsAssumption DEF RunnerState, Idle, NoParent, Statuses
  <2>2. Move(r, v) /\ UNCHANGED <<store, ever, nextId>>
    BY <1>5 DEF Execute
  <2> HIDE DEF v
  <2> QED
    BY <1>0, <1>3, <2>1, <2>2, ChainFrame DEF Behind
<1>6. ASSUME NEW r \in Runners, NEW d \in Durabilities, NEW mode \in {"resume", "retry"},
             Resume(r, mode, d)
      PROVE ChainInv'
  <2> DEFINE v == [Idle EXCEPT !.pc = "load", !.mode = mode, !.durability = d]
  <2>1. v \in RunnerState /\ v.parent = NoParent
    BY Zenon, ConstantsAssumption DEF RunnerState, Idle, NoParent, Statuses
  <2>2. Move(r, v) /\ UNCHANGED <<store, ever, nextId>>
    BY <1>6 DEF Resume
  <2> HIDE DEF v
  <2> QED
    BY <1>0, <1>3, <2>1, <2>2, ChainFrame DEF Behind
<1>7. ASSUME NEW r \in Runners, Load(r) PROVE ChainInv'
  <2>1. UNCHANGED <<store, ever, nextId>>
    BY Zenon, <1>7 DEF Load
  <2>2. CASE Finish(r)
    BY <1>0, <1>4, <2>1, <2>2, ChainFrame
  <2>3. CASE ~Finish(r)
    <3>1. PICK c \in store :
            /\ c.status \in Resumable(runner[r].mode)
            /\ Move(r, [runner[r] EXCEPT !.pc = "drive", !.parent = c.id,
                                         !.step = c.step + 1])
      BY ZenonT(30), <1>7, <2>3 DEF Load
    <3> DEFINE v == [runner[r] EXCEPT !.pc = "drive", !.parent = c.id,
                                      !.step = c.step + 1]
    <3>2. v \in RunnerState
      BY Zenon, <1>1, LoadedType DEF Checkpoint
    <3>3. v.parent = c.id /\ v.step = c.step + 1
      BY <1>1 DEF RunnerState
    <3>4. Move(r, v)
      BY <3>1
    <3> HIDE DEF v
    <3>5. c \in ever /\ c.step < v.step /\ c.status # "completed"
      BY <1>1, <3>1, <3>3 DEF Resumable, Checkpoint
    <3>6. Behind(v)
      BY <3>3, <3>5 DEF Behind
    <3> QED
      BY SMTT(30), <1>0, <1>3, <2>1, <3>2, <3>4, <3>6, ChainFrame
  <2> QED
    BY <2>2, <2>3
<1>8. ASSUME NEW r \in Runners, Advance(r) PROVE ChainInv'
  <2>1. PICK s \in Statuses :
          \/ Move(r, [runner[r] EXCEPT !.step = @ + 1, !.taken = @ + 1])
          \/ Move(r, [runner[r] EXCEPT !.pc = "check", !.status = s])
    BY Zenon, <1>8 DEF Advance, Statuses
  <2> DEFINE v1 == [runner[r] EXCEPT !.step = @ + 1, !.taken = @ + 1]
             v2 == [runner[r] EXCEPT !.pc = "check", !.status = s]
  <2>2. v1 \in RunnerState /\ v2 \in RunnerState
    BY Zenon, <1>1, SkippedType, SettledType
  <2>3. /\ v1.parent = runner[r].parent /\ v1.step = runner[r].step + 1
        /\ v2.parent = runner[r].parent /\ v2.step = runner[r].step
    BY <1>1 DEF RunnerState
  <2>4. Move(r, v1) \/ Move(r, v2)
    BY <2>1
  <2> HIDE DEF v1, v2
  <2>5. Behind(v1) /\ Behind(v2)
    BY <1>1, <2>2, <2>3 DEF Behind, RunnerState, Checkpoint
  <2> QED
    BY <1>0, <1>3, <1>8, <2>2, <2>4, <2>5, ChainFrame DEF Advance
<1>9. ASSUME NEW r \in Runners, PreCheck(r) PROVE ChainInv'
  <2> DEFINE v == [runner[r] EXCEPT !.pc = "put"]
  <2>1. v \in RunnerState /\ v.parent = runner[r].parent /\ v.step = runner[r].step
    BY <1>1 DEF RunnerState
  <2>2. Move(r, v) /\ UNCHANGED <<store, ever, nextId>>
    BY <1>9 DEF PreCheck
  <2> HIDE DEF v
  <2>3. Behind(v)
    BY <1>1, <2>1 DEF Behind
  <2> QED
    BY <1>0, <1>3, <2>1, <2>2, <2>3, ChainFrame
<1>10. ASSUME NEW r \in Runners, Put(r) PROVE ChainInv'
  BY <1>0, <1>10, ChainPut
<1>11. ASSUME NEW r \in Runners, Conflict(r) \/ Throw(r) PROVE ChainInv'
  BY <1>0, <1>4, <1>11, ChainFrame DEF Conflict, Throw
<1>12. ASSUME NEW i \in Instances, Crash(i) PROVE ChainInv'
  <2>1. \A q \in Runners : runner'[q] = Idle \/ runner'[q] = runner[q]
    BY <1>12 DEF Crash
  <2>2. \A q \in Runners : Behind(runner'[q])
    BY <1>1, <1>2, <2>1
  <2> QED
    BY <1>0, <1>12, <2>2, ChainFrame DEF Crash
<1>13. CASE DeleteThread
  BY <1>0, <1>13, ChainShrink DEF DeleteThread
<1>14. ASSUME NEW kept \in SUBSET store, CompactThread(kept) PROVE ChainInv'
  BY <1>0, <1>14, ChainShrink DEF CompactThread
<1>15. CASE PruneDeletes
  BY <1>0, <1>15, ChainShrink DEF PruneDeletes
<1>16. CASE PruneSelects
  BY <1>0, <1>1, <1>16, ChainFrame DEF PruneSelects
<1>17. CASE UNCHANGED vars
  BY <1>0, <1>1, <1>17, ChainFrame DEF vars
<1> QED
  BY <1>5, <1>6, <1>7, <1>8, <1>9, <1>10, <1>11, <1>12, <1>13, <1>14, <1>15, <1>16,
     <1>17
  DEF Next, CallStep

(* A thread starts with an empty store. *)
LEMMA ChainInit == Init => ChainInv
<1> SUFFICES ASSUME Init PROVE ChainInv
  OBVIOUS
<1>1. TypeOK
  <2>1. picked \in BOOLEAN
    BY Zenon DEF Init
  <2> QED
    BY <2>1, IdleType DEF Init, TypeOK, NoParent
<1>2. \A r \in Runners : runner[r].parent = NoParent
  BY DEF Init, Idle
<1> QED
  BY <1>1, <1>2 DEF Init, ChainInv, SoundParents, NoFork

(* The inductive invariant holds for every number of calls and processes.  *)
THEOREM ChainSafe == Spec => []ChainInv
  BY ChainInit, ChainStep, PTL DEF Spec

(* The variables keep their types. *)
THEOREM TypeSafe == Spec => []TypeOK
<1>1. ChainInv => TypeOK
  BY DEF ChainInv
<1> QED
  BY <1>1, ChainSafe, PTL

(* persistCheckpoint with the stores' compare-and-set: however many calls  *)
(* on however many processes race on a thread, crash, and are compacted or *)
(* deleted under, no two checkpoints are ever put on the same parent.      *)
THEOREM NoForkSafe == Spec => []NoFork
<1>1. ChainInv => NoFork
  BY DEF ChainInv
<1> QED
  BY <1>1, ChainSafe, PTL

(* Every checkpoint with a parent is built on an earlier step of the       *)
(* thread that had not completed.                                          *)
THEOREM SoundParentsSafe == Spec => []SoundParents
<1>1. ChainInv => SoundParents
  BY DEF ChainInv
<1> QED
  BY <1>1, ChainSafe, PTL

-----------------------------------------------------------------------------
(* Every action keeps the resume lock exact: Resume takes it for the call  *)
(* that starts, Finish gives back the one of the call that ends.           *)
LEMMA LockStep == ASSUME TypeOK, LockExact, [Next]_vars PROVE LockExact'
<1>0. runner \in [Runners -> RunnerState]
  BY DEF TypeOK
<1>1. ASSUME NEW r \in Runners, NEW v \in RunnerState, Move(r, v), UNCHANGED lock,
             (v.pc # "idle" /\ v.mode # "execute") <=> Resuming(r)
      PROVE  LockExact'
  <2>1. /\ runner'[r] = v
        /\ \A q \in Runners : q # r => runner'[q] = runner[q]
    BY <1>0, <1>1, MoveFacts
  <2>2. \A q \in Runners : Resuming(q)' <=> Resuming(q)
    BY <1>1, <2>1 DEF Resuming
  <2> QED
    BY <1>1, <2>2 DEF LockExact
<1>2. ASSUME NEW r \in Runners, runner[r].pc # "idle", Finish(r) PROVE LockExact'
  <2>1. /\ runner'[r] = Idle
        /\ \A q \in Runners : q # r => runner'[q] = runner[q]
    BY <1>0, <1>2, IdleType, MoveFacts DEF Finish
  <2>2. \A q \in Runners : Resuming(q)' <=> Resuming(q) /\ q # r
    BY <2>1 DEF Resuming, Idle
  <2>3. CASE runner[r].mode = "execute"
    BY <1>2, <2>2, <2>3 DEF Finish, LockExact, Resuming
  <2>4. CASE runner[r].mode # "execute"
    <3>1. Resuming(r) /\ lock' = lock \ {InstanceOf[r]}
      BY <1>2, <2>4 DEF Finish, Resuming
    <3>2. \A q \in Runners : Resuming(q) /\ q # r => InstanceOf[q] # InstanceOf[r]
      BY <3>1 DEF LockExact
    <3> QED
      BY <2>2, <3>1, <3>2 DEF LockExact
  <2> QED
    BY <2>3, <2>4
<1>3. ASSUME NEW r \in Runners, NEW d \in Durabilities, Execute(r, d) PROVE LockExact'
  <2> DEFINE v == [Idle EXCEPT !.pc = "drive", !.mode = "execute", !.durability = d]
  <2>1. v \in RunnerState /\ v.mode = "execute"
    BY Zenon, ConstantsAssumption DEF RunnerState, Idle, NoParent, Statuses
  <2>2. Move(r, v) /\ UNCHANGED lock /\ ~Resuming(r)
    BY <1>3 DEF Execute, Resuming
  <2> HIDE DEF v
  <2> QED
    BY <1>1, <2>1, <2>2
<1>4. ASSUME NEW r \in Runners, NEW d \in Durabilities, NEW mode \in {"resume", "retry"},
             Resume(r, mode, d)
      PROVE LockExact'
  <2> DEFINE v == [Idle EXCEPT !.pc = "load", !.mode = mode, !.durability = d]
  <2>1. v \in RunnerState /\ v.pc = "load" /\ v.mode # "execute"
    BY Zenon, ConstantsAssumption DEF RunnerState, Idle, NoParent, Statuses
  <2>2. /\ Move(r, v) /\ lock' = lock \cup {InstanceOf[r]}
        /\ InstanceOf[r] \notin lock /\ ~Resuming(r)
    BY <1>4 DEF Resume, Resuming
  <2> HIDE DEF v
  <2>3. /\ runner'[r] = v
        /\ \A q \in Runners : q # r => runner'[q] = runner[q]
    BY <1>0, <2>1, <2>2, MoveFacts
  <2>4. \A q \in Runners : Resuming(q)' <=> Resuming(q) \/ q = r
    BY <2>1, <2>3 DEF Resuming
  <2>5. \A q \in Runners : Resuming(q) => InstanceOf[q] # InstanceOf[r]
    BY <2>2 DEF LockExact
  <2> QED
    BY <2>2, <2>4, <2>5 DEF LockExact
<1>5. ASSUME NEW r \in Runners, Load(r) PROVE LockExact'
  <2>1. CASE Finish(r)
    BY Zenon, <1>2, <1>5, <2>1 DEF Load
  <2>2. CASE ~Finish(r)
    <3>1. PICK c \in store :
            /\ Move(r, [runner[r] EXCEPT !.pc = "drive", !.parent = c.id,
                                         !.step = c.step + 1])
            /\ UNCHANGED lock
      BY ZenonT(30), <1>5, <2>2 DEF Load
    <3> DEFINE v == [runner[r] EXCEPT !.pc = "drive", !.parent = c.id,
                                      !.step = c.step + 1]
    <3>2. v \in RunnerState
      BY ZenonT(30), <1>0, LoadedType DEF TypeOK, Checkpoint
    <3>3. v.pc = "drive" /\ v.mode = runner[r].mode /\ runner[r].pc = "load"
      BY Zenon, <1>0, <1>5 DEF RunnerState, Load
    <3>4. Move(r, v)
      BY <3>1
    <3> HIDE DEF v
    <3> QED
      BY SMTT(30), <1>1, <3>1, <3>2, <3>3, <3>4 DEF Resuming
  <2> QED
    BY SMTT(30), <2>1, <2>2
<1>6. ASSUME NEW r \in Runners, Advance(r) PROVE LockExact'
  <2>1. PICK s \in Statuses :
          \/ Move(r, [runner[r] EXCEPT !.step = @ + 1, !.taken = @ + 1])
          \/ Move(r, [runner[r] EXCEPT !.pc = "check", !.status = s])
    BY Zenon, <1>6 DEF Advance, Statuses
  <2> DEFINE v1 == [runner[r] EXCEPT !.step = @ + 1, !.taken = @ + 1]
             v2 == [runner[r] EXCEPT !.pc = "check", !.status = s]
  <2>2. v1 \in RunnerState /\ v2 \in RunnerState
    BY Zenon, <1>0, SkippedType, SettledType
  <2>3. /\ v1.pc = runner[r].pc /\ v1.mode = runner[r].mode
        /\ v2.pc = "check" /\ v2.mode = runner[r].mode
    BY <1>0 DEF RunnerState
  <2>4. (Move(r, v1) \/ Move(r, v2)) /\ UNCHANGED lock /\ runner[r].pc = "drive"
    BY <1>6, <2>1 DEF Advance
  <2> HIDE DEF v1, v2
  <2> QED
    BY <1>1, <2>2, <2>3, <2>4 DEF Resuming
<1>7. ASSUME NEW r \in Runners, PreCheck(r) PROVE LockExact'
  <2> DEFINE v == [runner[r] EXCEPT !.pc = "put"]
  <2>1. v \in RunnerState /\ v.pc = "put" /\ v.mode = runner[r].mode
    BY <1>0 DEF RunnerState
  <2>2. Move(r, v) /\ UNCHANGED lock /\ runner[r].pc = "check"
    BY <1>7 DEF PreCheck
  <2> HIDE DEF v
  <2> QED
    BY <1>1, <2>1, <2>2 DEF Resuming
<1>8. ASSUME NEW r \in Runners, Put(r) PROVE LockExact'
  <2> DEFINE v == [runner[r] EXCEPT !.pc = "drive", !.parent = nextId,
                                    !.step = @ + 1, !.taken = @ + 1]
  <2>1. v \in RunnerState
    BY Zenon, <1>0, PutType DEF TypeOK
  <2>2. v.pc = "drive" /\ v.mode = runner[r].mode
    BY <1>0 DEF RunnerState
  <2>3. runner[r].pc = "put" /\ ((Move(r, v) /\ UNCHANGED lock) \/ Finish(r))
    BY <1>8 DEF Put
  <2> HIDE DEF v
  <2> QED
    BY SMTT(30), <1>1, <1>2, <2>1, <2>2, <2>3 DEF Resuming
<1>9. ASSUME NEW r \in Runners, Conflict(r) \/ Throw(r) PROVE LockExact'
  BY <1>2, <1>9 DEF Conflict, Throw
<1>10. ASSUME NEW i \in Instances, Crash(i) PROVE LockExact'
  <2>1. \A q \in Runners : Resuming(q)' <=> Resuming(q) /\ InstanceOf[q] # i
    BY <1>10 DEF Crash, Resuming, Idle
  <2>2. lock' = lock \ {i}
    BY <1>10 DEF Crash
  <2> QED
    BY <2>1, <2>2 DEF LockExact
<1>11. CASE UNCHANGED <<runner, lock>>
  BY <1>11 DEF LockExact, Resuming
<1> QED
  BY <1>3, <1>4, <1>5, <1>6, <1>7, <1>8, <1>9, <1>10, <1>11
  DEF Next, CallStep, DeleteThread, CompactThread, PruneSelects, PruneDeletes, vars

(* resumeLock of resumeEngine, for any number of calls and processes: a    *)
(* process that holds it has exactly one resume or retry under way, and    *)
(* every way out of the call gives it back.                                *)
THEOREM LockExactSafe == Spec => []LockExact
<1>1. Init => LockExact
  BY DEF Init, LockExact, Resuming, Idle
<1>2. TypeOK /\ LockExact /\ [Next]_vars => LockExact'
  BY LockStep
<1> QED
  BY <1>1, <1>2, TypeSafe, PTL DEF Spec

-----------------------------------------------------------------------------
(* The calls' half of SingleRunInv, for one state of a call. *)
Rooted(v) ==
  v.pc \in {"drive", "check", "put"} =>
    (v.mode = "execute" /\ v.parent = NoParent) \/ v.parent # NoParent

(* A step that stores nothing new, starts no execute() and makes no call   *)
(* fresh preserves the invariant of a thread with one run.                 *)
LEMMA SingleFrame ==
  ASSUME SingleRunInv, UNCHANGED <<ever, executes>>, store' \subseteq store,
         \A q \in Runners : Fresh(q)' => Fresh(q),
         \A q \in Runners : Rooted(runner'[q])
  PROVE  SingleRunInv'
  BY DEF SingleRunInv, Rooted, Fresh

(* One execute(): every action preserves SingleRunInv. *)
LEMMA SingleRunStep ==
  ASSUME MaxExecutes = 1, ChainInv, SingleRunInv, [Next]_vars PROVE SingleRunInv'
<1>0. /\ runner \in [Runners -> RunnerState] /\ store \subseteq ever
      /\ ever \subseteq Checkpoint /\ executes \in Nat /\ nextId \in Nat \ {NoParent}
      /\ \A q \in Runners : Rooted(runner[q])
  BY DEF ChainInv, TypeOK, SingleRunInv, Rooted, Fresh
<1>1. Rooted(Idle) /\ Idle.mode # "execute"
  BY DEF Rooted, Idle
<1>2. ASSUME NEW r \in Runners, NEW v \in RunnerState, Move(r, v), Rooted(v),
             v.mode = "execute" /\ v.parent = NoParent => Fresh(r),
             UNCHANGED <<ever, executes>>, store' \subseteq store
      PROVE  SingleRunInv'
  <2>1. /\ runner'[r] = v
        /\ \A q \in Runners : q # r => runner'[q] = runner[q]
    BY <1>0, <1>2, MoveFacts
  <2>2. \A q \in Runners : Fresh(q)' => Fresh(q)
    BY <1>2, <2>1 DEF Fresh
  <2>3. \A q \in Runners : Rooted(runner'[q])
    BY <1>0, <1>2, <2>1
  <2> QED
    BY <1>2, <2>2, <2>3, SingleFrame
<1>3. ASSUME NEW r \in Runners, Finish(r), UNCHANGED <<ever, executes>>, store' \subseteq store
      PROVE  SingleRunInv'
  BY <1>1, <1>2, <1>3, IdleType DEF Finish
<1>4. ASSUME NEW r \in Runners, NEW d \in Durabilities, Execute(r, d) PROVE SingleRunInv'
  <2> DEFINE v == [Idle EXCEPT !.pc = "drive", !.mode = "execute", !.durability = d]
  <2>1. v \in RunnerState /\ v.parent = NoParent /\ v.mode = "execute"
    BY Zenon, ConstantsAssumption DEF RunnerState, Idle, NoParent, Statuses
  <2>2. /\ Move(r, v) /\ UNCHANGED <<store, ever>>
        /\ executes = 0 /\ executes' = 1
    BY <1>0, <1>4 DEF Execute
  <2> HIDE DEF v
  <2>3. /\ runner'[r] = v
        /\ \A q \in Runners : q # r => runner'[q] = runner[q]
    BY <1>0, <2>1, <2>2, MoveFacts
  <2>4. ever = {} /\ store = {} /\ \A q \in Runners : ~Fresh(q)
    BY <1>0, <2>2 DEF SingleRunInv
  <2>5. \A q \in Runners : Fresh(q)' => q = r
    BY <2>3, <2>4 DEF Fresh
  <2>6. \A q \in Runners : Rooted(runner'[q])
    BY <1>0, <2>1, <2>3 DEF Rooted
  <2>7. \A q \in Runners : runner'[q].pc \in {"drive", "check", "put"} =>
          Fresh(q)' \/ runner'[q].parent # NoParent
    BY <2>6 DEF Rooted, Fresh
  <2> QED
    BY <2>2, <2>4, <2>5, <2>7 DEF SingleRunInv
<1>5. ASSUME NEW r \in Runners, NEW d \in Durabilities, NEW mode \in {"resume", "retry"},
             Resume(r, mode, d)
      PROVE SingleRunInv'
  <2> DEFINE v == [Idle EXCEPT !.pc = "load", !.mode = mode, !.durability = d]
  <2>1. v \in RunnerState /\ v.pc = "load" /\ v.mode # "execute"
    BY Zenon, ConstantsAssumption DEF RunnerState, Idle, NoParent, Statuses
  <2>2. Move(r, v) /\ UNCHANGED <<store, ever, executes>>
    BY <1>5 DEF Resume
  <2> HIDE DEF v
  <2> QED
    BY <1>2, <2>1, <2>2 DEF Rooted
<1>6. ASSUME NEW r \in Runners, Load(r) PROVE SingleRunInv'
  <2>1. UNCHANGED <<store, ever, executes>>
    BY Zenon, <1>6 DEF Load
  <2>2. CASE Finish(r)
    BY <1>3, <2>1, <2>2
  <2>3. CASE ~Finish(r)
    <3>1. PICK c \in store :
            Move(r, [runner[r] EXCEPT !.pc = "drive", !.parent = c.id, !.step = c.step + 1])
      BY ZenonT(30), <1>6, <2>3 DEF Load
    <3> DEFINE v == [runner[r] EXCEPT !.pc = "drive", !.parent = c.id,
                                      !.step = c.step + 1]
    <3>2. v \in RunnerState
      BY Zenon, <1>0, LoadedType DEF Checkpoint
    <3>3. v.parent # NoParent
      BY <1>0 DEF RunnerState, Checkpoint
    <3>4. Move(r, v)
      BY <3>1
    <3> HIDE DEF v
    <3> QED
      BY SMTT(30), <1>2, <2>1, <3>2, <3>3, <3>4 DEF Rooted
  <2> QED
    BY <2>2, <2>3
<1>7. ASSUME NEW r \in Runners, Advance(r) PROVE SingleRunInv'
  <2>1. PICK s \in Statuses :
          \/ Move(r, [runner[r] EXCEPT !.step = @ + 1, !.taken = @ + 1])
          \/ Move(r, [runner[r] EXCEPT !.pc = "check", !.status = s])
    BY Zenon, <1>7 DEF Advance, Statuses
  <2> DEFINE v1 == [runner[r] EXCEPT !.step = @ + 1, !.taken = @ + 1]
             v2 == [runner[r] EXCEPT !.pc = "check", !.status = s]
  <2>2. v1 \in RunnerState /\ v2 \in RunnerState
    BY Zenon, <1>0, SkippedType, SettledType
  <2>3. /\ v1.parent = runner[r].parent /\ v1.mode = runner[r].mode
        /\ v2.parent = runner[r].parent /\ v2.mode = runner[r].mode
    BY <1>0 DEF RunnerState
  <2>4. Move(r, v1) \/ Move(r, v2)
    BY <2>1
  <2>5. runner[r].pc = "drive"
    BY <1>7 DEF Advance
  <2> HIDE DEF v1, v2
  <2>6. Rooted(v1) /\ Rooted(v2)
    BY <1>0, <2>3, <2>5 DEF Rooted
  <2> QED
    BY <1>2, <1>7, <2>2, <2>3, <2>4, <2>6 DEF Advance, Fresh
<1>8. ASSUME NEW r \in Runners, PreCheck(r) PROVE SingleRunInv'
  <2> DEFINE v == [runner[r] EXCEPT !.pc = "put"]
  <2>1. v \in RunnerState /\ v.parent = runner[r].parent /\ v.mode = runner[r].mode
    BY <1>0 DEF RunnerState
  <2>2. Move(r, v) /\ UNCHANGED <<store, ever, executes>> /\ runner[r].pc = "check"
    BY <1>8 DEF PreCheck
  <2> HIDE DEF v
  <2>3. Rooted(v)
    BY <1>0, <2>1, <2>2 DEF Rooted
  <2> QED
    BY <1>2, <2>1, <2>2, <2>3 DEF Fresh
<1>9. ASSUME NEW r \in Runners, Put(r) PROVE SingleRunInv'
  <2> DEFINE new == [id |-> nextId, parent |-> runner[r].parent,
                     step |-> runner[r].step, status |-> runner[r].status]
             v == [runner[r] EXCEPT !.pc = "drive", !.parent = nextId,
                                    !.step = @ + 1, !.taken = @ + 1]
  <2>1. v \in RunnerState /\ v.parent # NoParent
    <3>1. v \in RunnerState
      BY Zenon, <1>0, PutType
    <3> QED
      BY SMTT(30), <1>0, <3>1 DEF RunnerState
  <2>2. /\ store' = store \cup {new} /\ ever' = ever \cup {new}
        /\ Move(r, v) \/ Finish(r)
        /\ UNCHANGED executes /\ runner[r].pc = "put"
    BY <1>9 DEF Put
  <2>3. new.step = runner[r].step /\ new.step \in Nat
    BY <1>0 DEF RunnerState
  <2> HIDE DEF new, v
  <2>4. /\ runner'[r] = v \/ runner'[r] = Idle
        /\ \A q \in Runners : q # r => runner'[q] = runner[q]
    BY <1>0, <2>1, <2>2, IdleType, MoveFacts DEF Finish
  <2>5. \/ Fresh(r) /\ store = {}
        \/ \E p \in store : IsLatest(p) /\ p.step < new.step
    <3>1. CASE runner[r].parent = NoParent
      BY <1>0, <2>2, <3>1 DEF Rooted, SingleRunInv, Fresh
    <3>2. CASE runner[r].parent # NoParent
      BY <1>0, <1>9, <2>3, <3>2 DEF Put, CasAccepts, ChainInv
    <3> QED
      BY <3>1, <3>2
  <2>6. executes # 0 /\ \A q \in Runners : q # r => ~Fresh(q)
    BY <1>0, <2>5 DEF SingleRunInv
  <2>7. \A q \in Runners : ~Fresh(q)' /\ Rooted(runner'[q])
    BY <1>0, <1>1, <2>1, <2>4, <2>6 DEF Fresh, Rooted
  <2>8. \A c, d \in store' : c.step = d.step => c = d
    <3>1. \A c \in store : c.step # new.step
      BY <1>0, <2>3, <2>5 DEF IsLatest, Checkpoint
    <3> QED
      BY <2>2, <3>1 DEF SingleRunInv
  <2>9. \A q \in Runners : runner'[q].pc \in {"drive", "check", "put"} =>
          Fresh(q)' \/ runner'[q].parent # NoParent
    BY <2>7 DEF Rooted, Fresh
  <2> QED
    BY <2>2, <2>6, <2>7, <2>8, <2>9 DEF SingleRunInv
<1>10. ASSUME NEW r \in Runners, Conflict(r) \/ Throw(r) PROVE SingleRunInv'
  BY <1>3, <1>10 DEF Conflict, Throw
<1>11. ASSUME NEW i \in Instances, Crash(i) PROVE SingleRunInv'
  <2>1. \A q \in Runners : runner'[q] = Idle \/ runner'[q] = runner[q]
    BY <1>11 DEF Crash
  <2>2. \A q \in Runners : Rooted(runner'[q])
    BY <1>0, <1>1, <2>1
  <2>3. \A q \in Runners : Fresh(q)' => Fresh(q)
    BY <1>1, <2>1 DEF Fresh
  <2> QED
    BY <1>11, <2>2, <2>3, SingleFrame DEF Crash
<1>12. ASSUME UNCHANGED <<ever, executes, runner>>, store' \subseteq store PROVE SingleRunInv'
  BY <1>0, <1>12, SingleFrame DEF Fresh
<1>13. CASE DeleteThread
  BY <1>12, <1>13 DEF DeleteThread
<1>14. ASSUME NEW kept \in SUBSET store, CompactThread(kept) PROVE SingleRunInv'
  BY <1>12, <1>14 DEF CompactThread
<1>15. CASE PruneSelects \/ PruneDeletes
  BY <1>12, <1>15 DEF PruneSelects, PruneDeletes
<1>16. CASE UNCHANGED vars
  BY <1>12, <1>16 DEF vars
<1> QED
  BY <1>4, <1>5, <1>6, <1>7, <1>8, <1>9, <1>10, <1>11, <1>13, <1>14, <1>15, <1>16
  DEF Next, CallStep

(* With distinct steps the latest checkpoint is unique: it is the tip. *)
LEMMA TipIsLatest ==
  ASSUME NEW c \in store, IsLatest(c), store \subseteq Checkpoint,
         \A d, e \in store : d.step = e.step => d = e
  PROVE  Tip = c
<1>1. \A d \in store : IsLatest(d) => d = c
  BY DEF IsLatest, Checkpoint
<1> QED
  BY <1>1 DEF Tip

(* A checkpoint is not the mark of an empty thread. *)
LEMMA NoTipIsNone == NoTip \notin Checkpoint
  BY DEF NoTip, Checkpoint, Statuses

(* Every step of the calls and of the store is a step of the timeline, or  *)
(* leaves its tip alone.                                                   *)
LEMMA TimelineStep ==
  ASSUME ChainInv, ChainInv', SingleRunInv, SingleRunInv', [Next]_vars
  PROVE  [Timeline!Next]_(Timeline!vars)
<1>1. /\ runner \in [Runners -> RunnerState] /\ store \subseteq ever
      /\ store \subseteq Checkpoint /\ store' \subseteq Checkpoint
      /\ ever \subseteq Checkpoint
      /\ \A d, e \in store : d.step = e.step => d = e
      /\ \A d, e \in store' : d.step = e.step => d = e
  BY DEF ChainInv, TypeOK, SingleRunInv
<1>2. CASE UNCHANGED <<store, ever>>
  BY <1>2 DEF Timeline!vars, Tip, IsLatest
<1>3. ASSUME NEW r \in Runners, Put(r) PROVE Timeline!Next
  <2>0. PICK new : new = [id |-> nextId, parent |-> runner[r].parent,
                          step |-> runner[r].step, status |-> runner[r].status]
    BY Zenon
  <2>1. /\ store' = store \cup {new} /\ ever' = ever \cup {new}
        /\ runner[r].pc = "put" /\ CasAccepts(r)
    BY <1>3, <2>0 DEF Put
  <2>2. new.step = runner[r].step /\ new.parent = runner[r].parent
    BY <2>0
  <2>3. CASE runner[r].parent = NoParent
    <3>1. ever = {} /\ store = {}
      BY <1>1, <2>1, <2>3 DEF SingleRunInv, Fresh
    <3>2. store' = {new} /\ ever' # {} /\ new \in store'
      BY <2>1, <3>1
    <3>3. Tip = NoTip
      BY <3>1 DEF Tip
    <3> QED
      BY <3>1, <3>2, <3>3 DEF Timeline!Next, Timeline!Create
  <2>4. CASE runner[r].parent # NoParent
    <3>1. PICK p \in store : IsLatest(p) /\ p.id = runner[r].parent
      BY <2>1, <2>4 DEF CasAccepts
    <3>2. PICK d \in ever : /\ d.id = runner[r].parent /\ d.step < runner[r].step
                            /\ d.status # "completed"
      BY <2>4 DEF ChainInv
    <3>3. d = p
      BY <1>1, <3>1, <3>2 DEF ChainInv
    <3>4. Tip = p /\ p # NoTip
      BY <1>1, <3>1, TipIsLatest, NoTipIsNone
    <3>5. IsLatest(new)' /\ new \in store'
      BY <1>1, <2>1, <2>2, <3>1, <3>2, <3>3 DEF IsLatest, Checkpoint
    <3>6. Tip' = new
      BY <1>1, <3>5 DEF Tip, IsLatest, Checkpoint
    <3>7. (ever # {}) /\ (ever' # {})
      BY <2>1, <3>2
    <3> QED
      BY <2>2, <3>1, <3>2, <3>3, <3>4, <3>6, <3>7 DEF Timeline!Next, Timeline!Append
  <2> QED
    BY <2>3, <2>4
<1>4. ASSUME store # {}, store' = {}, UNCHANGED ever PROVE Timeline!Next
  <2>1. PICK c \in store : IsLatest(c)
    BY <1>4 DEF ChainInv
  <2>2. Tip = c /\ c # NoTip
    BY <1>1, <2>1, TipIsLatest, NoTipIsNone
  <2>3. Tip' = NoTip
    BY <1>4 DEF Tip
  <2> QED
    BY <1>4, <2>2, <2>3 DEF Timeline!Next, Timeline!Erase
<1>5. ASSUME NEW kept \in SUBSET store, CompactThread(kept) PROVE UNCHANGED Timeline!vars
  <2>1. PICK c \in store : IsLatest(c)
    BY <1>5 DEF ChainInv, CompactThread
  <2>2. Tip = c
    BY <1>1, <2>1, TipIsLatest
  <2>3. c \in store' /\ IsLatest(c)'
    BY <1>1, <1>5, <2>1 DEF CompactThread, IsLatest, Checkpoint
  <2>4. Tip' = c
    BY <1>1, <2>3 DEF Tip, IsLatest, Checkpoint
  <2>5. UNCHANGED ever
    BY <1>5 DEF CompactThread
  <2> QED
    BY <2>2, <2>4, <2>5 DEF Timeline!vars
<1>6. CASE DeleteThread
  BY <1>4, <1>6 DEF DeleteThread
<1>7. CASE PruneSelects \/ PruneDeletes
  <2>1. UNCHANGED ever /\ (UNCHANGED store \/ store' = {})
    BY <1>7 DEF PruneSelects, PruneDeletes
  <2>2. CASE UNCHANGED store
    BY <1>2, <2>1, <2>2
  <2>3. CASE store # {} /\ store' = {}
    BY <1>4, <2>1, <2>3
  <2> QED
    BY <2>1, <2>2, <2>3
<1>8. ASSUME NEW r \in Runners, NEW d \in Durabilities,
             Execute(r, d) \/ \E mode \in {"resume", "retry"} : Resume(r, mode, d)
      PROVE  UNCHANGED <<store, ever>>
  BY SMTT(30), <1>8 DEF Execute, Resume
<1>9. ASSUME NEW r \in Runners,
             Load(r) \/ Advance(r) \/ PreCheck(r) \/ Conflict(r) \/ Throw(r)
      PROVE  UNCHANGED <<store, ever>>
  BY Zenon, <1>9 DEF Load, Advance, PreCheck, Conflict, Throw
<1>10. ASSUME NEW i \in Instances, Crash(i) PROVE UNCHANGED <<store, ever>>
  BY <1>10 DEF Crash
<1>11. CASE UNCHANGED vars
  BY <1>2, <1>11 DEF vars
<1> QED
  BY <1>2, <1>3, <1>5, <1>6, <1>7, <1>8, <1>9, <1>10, <1>11 DEF Next, CallStep

(* With one execute() of the thread id the stored checkpoints have         *)
(* distinct step numbers, so ORDER BY step_number DESC LIMIT 1 has one     *)
(* answer.                                                                 *)
THEOREM SingleRunSafe == ASSUME MaxExecutes = 1 PROVE Spec => []SingleRunInv
<1>1. Init => SingleRunInv
  BY DEF Init, SingleRunInv, Fresh, Idle
<1>2. ChainInv /\ SingleRunInv /\ [Next]_vars => SingleRunInv'
  BY SingleRunStep
<1> QED
  BY <1>1, <1>2, ChainSafe, PTL DEF Spec

(* Readers of a thread that is executed once see one timeline, whatever    *)
(* the calls that advance it do: the specification of the calls and the    *)
(* store implements ThreadTimeline.                                        *)
THEOREM TimelineRefinement == ASSUME MaxExecutes = 1 PROVE Spec => TimelineSpec
<1>1. Init => SingleRunInv /\ Timeline!Init
  BY DEF Init, SingleRunInv, Fresh, Idle, Tip, Timeline!Init
<1>2. ChainInv /\ SingleRunInv /\ [Next]_vars => SingleRunInv'
  BY SingleRunStep
<1>3. ChainInv /\ ChainInv' /\ SingleRunInv /\ SingleRunInv' /\ [Next]_vars
        => [Timeline!Next]_(Timeline!vars)
  BY TimelineStep
<1> QED
  BY <1>1, <1>2, <1>3, ChainSafe, PTL DEF Spec, TimelineSpec, Timeline!Spec
=============================================================================
