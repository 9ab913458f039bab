------------------------------ MODULE MCPipeline ------------------------------
(* Instances of Pipeline for TLC. *)
EXTENDS Pipeline

Flags(follow, sorted, correlate, badField, concurrency) ==
  [follow |-> follow, sorted |-> sorted, correlate |-> correlate, badField |-> badField,
   concurrency |-> concurrency, malformed |-> FALSE]

(* Unsorted searches with one or two workers, a bad -correlate-by, and the *)
(* combinations run() refuses.                                             *)
FiniteOptions ==
  {Flags(FALSE, FALSE, FALSE, FALSE, c) : c \in 0..2}
  \cup {Flags(FALSE, FALSE, FALSE, TRUE, 2)}
  \cup {[Flags(FALSE, FALSE, FALSE, FALSE, 2) EXCEPT !.malformed = TRUE]}

(* Sorted searches, correlated ones, both, and what -f refuses. *)
SelectOptions ==
  {Flags(FALSE, TRUE, FALSE, FALSE, 2), Flags(FALSE, FALSE, TRUE, FALSE, 2),
   Flags(FALSE, TRUE, TRUE, FALSE, 1), Flags(TRUE, TRUE, FALSE, FALSE, 2)}

SafetyOptions == FiniteOptions \cup SelectOptions

LiveOptions == FiniteOptions \cup {Flags(TRUE, FALSE, FALSE, b, c) : b \in BOOLEAN, c \in 1..3}

(* Ties, unknown times, and times that disagree with the arrival order. *)
MixedStamps ==
  [e \in Events |->
     [time |-> IF e = <<1, 1>> THEN 0 ELSE IF e[2] = 2 THEN 1 ELSE 2,
      source |-> (N + 1) - e[1], line |-> MaxEvents - e[2]]]
================================================================================
