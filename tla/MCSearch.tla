------------------------------- MODULE MCSearch -------------------------------
(* Instances of Search for TLC. *)
EXTENDS Search

Says(stamp, tokens, request, words, regex, script) ==
  [time |-> stamp.time, tokens |-> tokens, fields |-> [request |-> request],
   words |-> words, regex |-> regex, script |-> script, stamp |-> stamp]

At(time, source, line) == [time |-> time, source |-> source, line |-> line]

(* Two sources that share an address and a request, an entry without a     *)
(* time, and two on which the expression or the script fails.              *)
Logs ==
  [e \in Events |->
     CASE e = <<1, 1>> -> Says(At(2, 2, 1), {"a"}, "", {"failed"}, "yes", "yes")
       [] e = <<1, 2>> -> Says(At(1, 2, 2), {}, "r", {}, "no", "error")
       [] e = <<2, 1>> -> Says(At(3, 1, 1), {"a"}, "r", {}, "error", "yes")
       [] e = <<2, 2>> -> Says(At(0, 1, 2), {"a"}, "", {"failed"}, "yes", "error")]

Flags(sorted, correlate) ==
  [follow |-> FALSE, sorted |-> sorted, correlate |-> correlate, badField |-> FALSE,
   concurrency |-> 2, malformed |-> FALSE]

Asks(since, until, contains, regex) ==
  [since |-> since, until |-> until, fields |-> << >>, contains |-> contains,
   regex |-> regex, script |-> FALSE]

(* With and without bounds, by word, field, expression and script; linked, *)
(* sorted, both; refused, and refused after the launch.                    *)
SampleSearches ==
  {[opt |-> Flags(FALSE, TRUE), query |-> Asks(0, 0, {"failed"}, FALSE)],
   [opt |-> Flags(FALSE, TRUE), query |-> Asks(1, 2, {"failed"}, FALSE)],
   [opt |-> Flags(FALSE, FALSE), query |-> Asks(0, 2, {}, TRUE)],
   [opt |-> Flags(FALSE, FALSE), query |-> Asks(2, 0, {"failed"}, TRUE)],
   [opt |-> Flags(FALSE, FALSE),
    query |-> [Asks(0, 0, {}, FALSE) EXCEPT !.fields = [request |-> "r"], !.script = TRUE]],
   [opt |-> Flags(TRUE, TRUE),
    query |-> [Asks(2, 3, {}, FALSE) EXCEPT !.script = TRUE]],
   [opt |-> [Flags(FALSE, TRUE) EXCEPT !.badField = TRUE], query |-> Asks(0, 0, {}, FALSE)],
   [opt |-> [Flags(FALSE, FALSE) EXCEPT !.malformed = TRUE], query |-> Asks(2, 1, {}, FALSE)]}

ByRequest == {{"request"}}
================================================================================
