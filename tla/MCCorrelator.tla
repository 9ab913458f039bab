----------------------------- MODULE MCCorrelator -----------------------------
(* Instances of Correlator for TLC. *)
EXTENDS Correlator

None == [request |-> "", trace |-> ""]

(* Entries that share a token only, an aliased field only, a loopback only *)
(* (no link), or nothing; matching and not; with near, far, unknown times. *)
Sample ==
  {[time |-> t, tokens |-> k, fields |-> None, match |-> m] :
     t \in {0, 1, 3}, k \in {{"10.0.0.7"}}, m \in BOOLEAN}
  \cup {[time |-> 1, tokens |-> {"127.0.0.1"}, fields |-> f, match |-> FALSE] :
     f \in {None, [request |-> "r1", trace |-> ""]}}
  \cup {[time |-> 2, tokens |-> {"127.0.0.1", "10.0.0.7"}, fields |-> f, match |-> m] :
     f \in {[request |-> "", trace |-> "r1"]}, m \in BOOLEAN}

Aliases == {{"request", "trace"}}
================================================================================
