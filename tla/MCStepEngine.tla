------------------------------ MODULE MCStepEngine ------------------------------
(* Small workflows for TLC, each with the interruptions it is put through. *)
EXTENDS StepEngine

Edge(f, t) == [from |-> f, to |-> t, cond |-> "always"]
EdgeIf(f, t, c) == [from |-> f, to |-> t, cond |-> c]

(* Conditions: always; never; "loop" while the node ran fewer than two     *)
(* times; "done" from then on.                                             *)
MCWhen(e, st) ==
  LET runs == Cardinality({i \in DOMAIN st : st[i].node = e.from})
  IN CASE e.cond = "always" -> TRUE
       [] e.cond = "never"  -> FALSE
       [] e.cond = "loop"   -> runs < 2
       [] e.cond = "done"   -> runs >= 2

Names == {"a", "b", "c", "d", "e", "j", "s"}

PausesOf(a, b) == [n \in Names |-> CASE n = "a" -> a [] n = "b" -> b [] OTHER -> 0]

With(w, edges) ==
  [w EXCEPT !.edges = edges,
            !.nodes = UNION {{e.from, e.to} : e \in ToSet(edges)} \ {Start, End}]

(* a and b in parallel, joined by the barrier into j; nothing interrupts. *)
Diamond ==
  [nodes |-> {"a", "b", "j"}, dispatches |-> [n \in Names |-> <<>>], pauses |-> PausesOf(0, 0),
   edges |-> <<Edge(Start, "a"), Edge(Start, "b"), Edge("a", "j"), Edge("b", "j"), Edge("j", End)>>,
   barrier |-> {"a", "b"}, before |-> {}, after |-> <<>>, failing |-> {}, rejects |-> {},
   durability |-> "sync", journalSteps |-> FALSE, maxConcurrentTasks |-> 2, maxSteps |-> 6,
   bounds |-> [b \in Bounds |-> 0]]

Bounded(w, failures, aborts, crashes, answers, invalid, updates, gotos) ==
  [w EXCEPT !.bounds = [failures |-> failures, aborts |-> aborts, crashes |-> crashes,
                        answers |-> answers, invalid |-> invalid, updates |-> updates,
                        gotos |-> gotos]]

(* The diamond, where b also dispatches two tasks to d. *)
FanOut ==
  [With(Diamond, Diamond.edges \o <<Edge("d", End)>>) EXCEPT
     !.dispatches["b"] = <<[node |-> "d", args |-> "x"], [node |-> "d", args |-> "y"]>>]

(* The diamond of a, b and c as the second step (the first one has no      *)
(* checkpoint to journal under).                                           *)
Late ==
  With([Diamond EXCEPT !.barrier = {"a", "b", "c"}],
       <<Edge(Start, "s"), Edge("s", "a"), Edge("s", "b"), Edge("s", "c"),
         Edge("a", "j"), Edge("b", "j"), Edge("c", "j"), Edge("j", End)>>)

(* Three branches: a, e, and b followed by c. *)
Branches ==
  With([Diamond EXCEPT !.barrier = {}],
       <<Edge(Start, "s"), Edge("s", "a"), Edge("s", "b"), Edge("s", "e"),
         Edge("b", "c"), Edge("c", End), Edge("a", End), Edge("e", End)>>)

(* a runs twice, then the run ends; b leads to j. *)
Loop ==
  With([Diamond EXCEPT !.barrier = {}],
       <<Edge(Start, "a"), Edge(Start, "b"), EdgeIf("a", "a", "loop"),
         EdgeIf("a", End, "done"), Edge("b", "j"), Edge("j", End)>>)

(* No edge out of a and b is ever satisfied. *)
Wedged ==
  With(Diamond, <<Edge(Start, "a"), Edge(Start, "b"), EdgeIf("a", "j", "never"),
                  EdgeIf("b", "j", "never"), Edge("j", End)>>)

-----------------------------------------------------------------------------
(* Two pausing nodes beside a dispatching one, answers in any order, some  *)
(* refused, crashes.                                                       *)
Pausing     == Bounded([FanOut EXCEPT !.pauses = PausesOf(2, 1)], 0, 0, 2, 5, 1, 2, 0)
PausingExit == Bounded([FanOut EXCEPT !.pauses = PausesOf(2, 1), !.durability = "exit"],
                       0, 0, 2, 4, 0, 1, 0)
(* b and c fail beside a, which is halfway through its answers. *)
Retrying    == Bounded([Branches EXCEPT !.pauses = PausesOf(2, 0), !.failing = {"b", "c"}],
                       2, 0, 0, 5, 1, 0, 0)
Aborting    == Bounded([Late EXCEPT !.failing = {"b"}], 1, 2, 0, 0, 0, 0, 0)
Journaling  == Bounded([Late EXCEPT !.pauses = PausesOf(1, 0), !.journalSteps = TRUE],
                       0, 0, 1, 3, 0, 1, 0)
GatedRun    == Bounded([FanOut EXCEPT !.before = {"j"}, !.after = <<"b", "a">>], 0, 0, 2, 5, 0, 0, 0)

SafeWorkflows == {Pausing, PausingExit, Retrying, Aborting, Journaling, GatedRun}

(* Everything at once, one task slot; and the graph that is wedged. *)
Hard == Bounded([Loop EXCEPT !.pauses = PausesOf(1, 0), !.failing = {"b"}, !.rejects = {"j"},
                             !.maxConcurrentTasks = 1], 1, 1, 1, 5, 1, 0, 1)
WedgedRun == Bounded([Wedged EXCEPT !.pauses = PausesOf(1, 0), !.failing = {"b"}, !.rejects = {"b"}],
                     1, 1, 1, 3, 0, 0, 0)

LiveWorkflows == {Hard, WedgedRun}


(* b dispatches and completes while a fails. *)
FailingFanOut == {Bounded([FanOut EXCEPT !.failing = {"a"}], 1, 0, 0, 0, 0, 0, 0)}
=============================================================================
