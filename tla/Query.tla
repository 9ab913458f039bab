--------------------------------- MODULE Query ---------------------------------
(***************************************************************************)
(* search.Query: which entries a search asks for.  A query is a record     *)
(*   [since, until : instants, Unknown when the flag is not given,         *)
(*    fields : the -where and -app conditions, name -> value,              *)
(*    contains : the -contains words, regex, script : is there one?].      *)
(* Of an entry it reads the event time, the fields, the words of the line  *)
(* and what the regular expression and the script make of it.              *)
(***************************************************************************)
EXTENDS Integers

Unknown == 0   \* the zero time.Time

(* Here and below a definition named Mutant... is a plausible bug in the    *)
(* definition that follows it: no specification uses it; replacing the      *)
(* definition by it must violate a property.                                *)
MutantInRange(q, t) ==
  /\ q.since = Unknown \/ t >= q.since
  /\ q.until = Unknown \/ t <= q.until

(* Both bounds are inclusive; an unknown time is outside any bound. *)
InRange(q, t) ==
  /\ q.since # Unknown \/ q.until # Unknown => t # Unknown
  /\ q.since = Unknown \/ t >= q.since
  /\ q.until = Unknown \/ t <= q.until

(* "yes", "no" or "error".  The conditions are tried in this order, and    *)
(* the first that is not met decides: an expression that would fail is not *)
(* evaluated on an entry an earlier condition excludes.                    *)
Match(q, e) ==
  IF \/ \E k \in DOMAIN q.fields : e.fields[k] # q.fields[k]
     \/ ~(q.contains \subseteq e.words)
  THEN "no"
  ELSE IF q.regex /\ e.regex # "yes" THEN e.regex
  ELSE IF q.script THEN e.script ELSE "yes"
================================================================================
