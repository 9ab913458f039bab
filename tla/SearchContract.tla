---------------------------- MODULE SearchContract -----------------------------
(***************************************************************************)
(* What a search promises to the person who starts it.  The promise knows  *)
(* no worker, channel or correlator: entries are read from the sources,    *)
(* taken up one by one, some are chosen, the chosen ones are written, and  *)
(* the search ends with one verdict.                                       *)
(***************************************************************************)
EXTENDS Integers, Sequences, FiniteSets, Functions

CONSTANTS
  Origins,     \* the sources; an entry is <<source, position>>
  Positions,
  Ahead(_, _)  \* one entry is placed ahead of another by -sort

VARIABLES
  mode,     \* "plain", "linked" or "sorted"
  ended,    \* the sources read to their end
  read,     \* the entries read
  taken,    \* the entries taken up
  chosen,   \* the entries chosen for output
  written,  \* the entries written, in order
  broken,   \* something failed
  verdict   \* "none", "success" or "failure"

vars == <<mode, ended, read, taken, chosen, written, broken, verdict>>

Records == Origins \X Positions

Init ==
  /\ mode \in {"plain", "linked", "sorted"}
  /\ ended = {} /\ read = {} /\ taken = {} /\ chosen = {} /\ written = << >>
  /\ broken = FALSE /\ verdict = "none"

Running == verdict = "none" /\ UNCHANGED <<mode, verdict>>

(* An entry is read after those before it and before the source's end. *)
ReadEntry(e) ==
  /\ Running
  /\ e \notin read /\ e[1] \notin ended
  /\ \A p \in Positions : p < e[2] => <<e[1], p>> \in read
  /\ read' = read \cup {e}
  /\ UNCHANGED <<ended, taken, chosen, written, broken>>

EndSource(s) ==
  /\ Running
  /\ ended' = ended \cup {s}
  /\ UNCHANGED <<read, taken, chosen, written, broken>>

(* An entry is taken up once, and makes the search choose any of the       *)
(* entries taken up so far.                                                *)
Take(e) ==
  /\ Running /\ ~broken
  /\ e \in read \ taken
  /\ taken' = taken \cup {e}
  /\ chosen \subseteq chosen' /\ chosen' \subseteq taken'
  /\ UNCHANGED <<ended, read, written, broken>>

(* What is written was chosen, is not written twice, and comes in order:   *)
(* with -sort once everything was read and taken up, in the order of the   *)
(* collation; with neither -sort nor correlation in the source's order.    *)
Write(e) ==
  /\ Running /\ ~broken
  /\ e \in chosen \ Range(written)
  /\ mode = "sorted" =>
       /\ ended = Origins /\ taken = read
       /\ \A f \in chosen \ Range(written) : ~Ahead(f, e)
  /\ mode = "plain" => \A f \in Range(written) : f[1] = e[1] => f[2] < e[2]
  /\ written' = Append(written, e)
  /\ UNCHANGED <<ended, read, taken, chosen, broken>>

(* A failure, of the entry taken up or of anything else. *)
Break ==
  /\ Running
  /\ broken' = TRUE
  /\ \/ taken' = taken
     \/ ~broken /\ \E e \in read \ taken : taken' = taken \cup {e}
  /\ UNCHANGED <<ended, read, chosen, written>>

(* Success is everything: every source, every entry, every result. *)
Succeed ==
  /\ verdict = "none" /\ ~broken
  /\ ended = Origins /\ taken = read /\ Range(written) = chosen
  /\ verdict' = "success"
  /\ UNCHANGED <<mode, ended, read, taken, chosen, written, broken>>

Fail ==
  /\ verdict = "none"
  /\ verdict' = "failure" /\ broken' = TRUE
  /\ UNCHANGED <<mode, ended, read, taken, chosen, written>>

Next ==
  \/ \E e \in Records : ReadEntry(e) \/ Take(e) \/ Write(e)
  \/ \E s \in Origins : EndSource(s)
  \/ Break \/ Succeed \/ Fail

Spec == Init /\ [][Next]_vars
================================================================================
