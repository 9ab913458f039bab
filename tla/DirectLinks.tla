----------------------------- MODULE DirectLinks ------------------------------
(***************************************************************************)
(* What correlation promises: of the entries that arrived so far, exactly  *)
(* the matches and the entries directly linked to a match are reported,    *)
(* each as soon as that is known and never again.  The promise knows no    *)
(* buffer and no index; the buffer limit appears only as the distance over *)
(* which two arrivals can be linked.                                       *)
(***************************************************************************)
EXTENDS Integers, Sequences, Functions

CONSTANTS
  Arrivals,    \* the entries that can arrive, each with the field match
  Link(_, _),  \* two entries are linked, whatever their order
  Reach        \* how many arrivals apart two linked entries may be

VARIABLES
  seen,   \* the entries that arrived, in order
  batch   \* what the last arrival reported, as <<arrival, correlated>>

(* A match, or linked to a match no more than Reach arrivals away. *)
Reported(s) ==
  {i \in DOMAIN s :
     \/ s[i].match
     \/ \E j \in DOMAIN s :
          /\ i # j /\ s[j].match
          /\ i - j <= Reach /\ j - i <= Reach
          /\ Link(s[i], s[j])}

Init == seen = << >> /\ batch = << >>

(* The new reports come in arrival order; a report is flagged correlated   *)
(* when its entry does not match by itself.                                *)
Arrive(e) ==
  /\ seen' = Append(seen, e)
  /\ Range(batch') = {<<i, ~seen'[i].match>> : i \in Reported(seen') \ Reported(seen)}
  /\ \A a, b \in DOMAIN batch' : a < b => batch'[a][1] < batch'[b][1]

Next == \E e \in Arrivals : Arrive(e)

Spec == Init /\ [][Next]_<<seen, batch>>
================================================================================
