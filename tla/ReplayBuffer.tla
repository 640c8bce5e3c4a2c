------------------------------ MODULE ReplayBuffer ------------------------------
(***************************************************************************)
(* The replay buffer of one subject.  Event ids are the numbers of the     *)
(* events of the subject, so what the buffer holds is an interval.  Time   *)
(* is abstracted: the events past their TTL are a prefix of the buffer.    *)
(***************************************************************************)
EXTENDS Integers, Sequences

CONSTANT MaxBuffered            \* maxEvents

NoEvent == 0                    \* undefined
OtherEvent == -1                \* an id the buffer of this subject never holds

EmptyBuffer(last) == [lo |-> last + 1, hi |-> last, dropped |-> 0]
Size(b) == b.hi - b.lo + 1
Held(b) == b.lo .. b.hi

(* pruneSubject, when the k oldest events are past their TTL: an emptied   *)
(* buffer forgets how many events it dropped.                              *)
prune(b, k) ==
  IF k = Size(b) THEN EmptyBuffer(b.hi)
  ELSE [b EXCEPT !.lo = @ + k, !.dropped = @ + k]

(* push: the oldest event makes room for the new one. *)
push(b) ==
  IF Size(b) = MaxBuffered THEN [b EXCEPT !.lo = @ + 1, !.hi = @ + 1, !.dropped = @ + 1]
  ELSE [b EXCEPT !.hi = @ + 1]

Slice(b, from, n) ==
  [events |-> [i \in 1 .. b.hi - from + 1 |-> from + i - 1],
   dropped |-> n,
   hint |-> IF from <= b.hi THEN b.hi ELSE NoEvent]

(* Mutant: the slice starts at the cursor itself. *)
replayInclusive(b, since) ==
  IF since = NoEvent THEN Slice(b, b.lo, b.dropped)
  ELSE IF since \in Held(b) THEN Slice(b, since, 0)
  ELSE Slice(b, b.lo, IF b.dropped > 1 THEN b.dropped ELSE 1)

(* replay: everything, everything and a gap, or what follows the cursor. *)
replay(b, since) ==
  IF since = NoEvent THEN Slice(b, b.lo, b.dropped)
  ELSE IF since \in Held(b) THEN Slice(b, since + 1, 0)
  ELSE Slice(b, b.lo, IF b.dropped > 1 THEN b.dropped ELSE 1)
=============================================================================
