-------------------------- MODULE MCSemanticMemory --------------------------
(* Instances of SemanticMemory for TLC. *)
EXTENDS SemanticMemory

CONSTANTS p, q, judge

TwoCallers == {p, q}

(* Two texts, the second about the same thing. *)
Texts == {"old", "new"}
Zones(z) == [pair \in Texts \X Texts |-> IF pair[1] = pair[2] THEN Hot ELSE z]

Plain == [texts |-> Texts, flagged |-> {}, suspect |-> {}, marked |-> {}, zone |-> Zones(Check),
          about |-> [t \in Texts |-> "none"], says |-> [t \in Texts |-> t],
          embedder |-> TRUE, auto |-> FALSE,
          maxWrites |-> 2, maxCalls |-> 1, maxFaults |-> 1]

(* Close texts that only the deep phase can tell apart. *)
Deferred == [Plain EXCEPT !.maxWrites = 3, !.maxCalls = 0, !.maxFaults = 0]
Contested == [Plain EXCEPT !.maxCalls = 2, !.maxFaults = 0]
(* The standard phase promotes what it extracts, and a classifier holds one *)
(* of the texts back. *)
Promoting == [Plain EXCEPT !.auto = TRUE, !.suspect = {"new"}, !.zone = Zones(Near)]
(* The same subject and predicate with another object. *)
Triples == [Plain EXCEPT !.about = [t \in Texts |-> "subject"], !.zone = Zones(Cold)]
(* A text that trips the injection heuristics and says "no longer". *)
Flagged == [Plain EXCEPT !.flagged = {"new"}, !.marked = {"new"}, !.zone = Zones(Cold)]
(* No embedder: only the full-text index. *)
Lexical == [Plain EXCEPT !.embedder = FALSE]

Memories == {Deferred, Contested, Promoting, Triples, Flagged, Lexical}
=============================================================================
