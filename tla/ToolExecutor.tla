------------------------------ MODULE ToolExecutor ------------------------------
(***************************************************************************)
(* The tool executor of the agent: one batch of calls at a time, the       *)
(* sequential tools first and one by one, the others side by side up to a  *)
(* bound, a bounded retry of what is safe to run again, and an outcome for *)
(* every call of the batch.                                                *)
(***************************************************************************)
EXTENDS Naturals, Sequences, FiniteSets, SequencesExt, Functions

CONSTANTS
  Runs,       \* agent runs; each belongs to an agent of its own
  Calls,      \* tool call ids
  Scenarios   \* configurations of the agents, one per behaviour

VARIABLES
  cf,     \* the configuration of this behaviour
  ex,     \* the batch under way
  ran,    \* ran[r][c]: how often the tool of call c of run r was started
  used    \* bounded events so far

NoBatch == [of |-> <<>>, serial |-> <<>>, queue |-> <<>>, flying |-> {}, tries |-> [c \in Calls |-> 0]]

(* A bounded event of the environment. *)
May(event) == used[event] < cf.may[event] /\ used' = [used EXCEPT ![event] = @ + 1]

IsSerial(c) == cf.kind[c] = "serial"

(* Starting a batch: split by execution mode, in call order. *)
Batch(calls) ==
  [of |-> calls, serial |-> SelectSeq(calls, IsSerial),
   queue |-> SelectSeq(calls, LAMBDA c : ~IsSerial(c)), flying |-> {}, tries |-> [c \in Calls |-> 0]]

(* The call the scheduler starts next: the head of the sequential calls    *)
(* while nothing runs, then the parallel ones below the bound.             *)
NextCall(c) ==
  \/ ex.serial # <<>> /\ ex.flying = {} /\ c = Head(ex.serial)
  \/ /\ ex.serial = <<>> /\ ~\E d \in ex.flying : IsSerial(d)
     /\ ex.queue # <<>> /\ Cardinality(ex.flying) < cf.parallel /\ c = Head(ex.queue)

Taken(c) == [ex EXCEPT !.serial = SelectSeq(@, LAMBDA d : d # c),
                       !.queue = SelectSeq(@, LAMBDA d : d # c)]

(* A call passes the phases before execution and its tool is started. *)
ToolStarts(r, c) ==
  /\ NextCall(c)
  /\ ex' = [Taken(c) EXCEPT !.flying = @ \cup {c}]
  /\ ran' = [ran EXCEPT ![r][c] = @ + 1]
  /\ UNCHANGED used

(* Unknown tool, capability, arguments, permission or policy: an error     *)
(* outcome before the tool is reached.                                     *)
ToolRefused(c) ==
  /\ NextCall(c) /\ May("refusals")
  /\ ex' = Taken(c)
  /\ UNCHANGED ran

(* Mutant: the slot of a settled call is not given back. *)
ToolSettlesHolding(c) == c \in ex.flying /\ UNCHANGED <<ex, ran, used>>

(* The tool returns, fails, is cancelled or exceeds its wall-clock limit. *)
ToolSettles(c) ==
  /\ c \in ex.flying
  /\ ex' = [ex EXCEPT !.flying = @ \ {c}]
  /\ UNCHANGED <<ran, used>>

(* Whether a second attempt cannot double a side effect: a pure or a       *)
(* read-only tool, or one with an idempotency key.  It depends neither on  *)
(* the execution mode of the tool nor on whether it needs approval.        *)
RetrySafe(c) == c \in cf.safe

(* A rate-limited attempt of a tool that is safe to run again. *)
ToolRetries(r, c, aborted) ==
  /\ c \in ex.flying /\ RetrySafe(c) /\ ~aborted
  /\ ex.tries[c] + 1 < cf.attempts
  /\ May("retries")
  /\ ex' = [ex EXCEPT !.tries[c] = @ + 1]
  /\ ran' = [ran EXCEPT ![r][c] = @ + 1]

BatchOver == ex.serial = <<>> /\ ex.queue = <<>> /\ ex.flying = {}
=============================================================================
