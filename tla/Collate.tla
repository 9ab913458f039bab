-------------------------------- MODULE Collate --------------------------------
(***************************************************************************)
(* The collation order of -sort: the comparison function that search.Sort  *)
(* hands to sort.SliceStable.  An entry is abstracted to the three fields  *)
(* the comparison reads, each replaced by its rank: the instant of the     *)
(* event (0 when the timestamp is unknown, the zero time.Time), the source *)
(* name and the line text.                                                 *)
(***************************************************************************)
EXTENDS Integers

Stamps == [time : Nat, source : Nat, line : Nat]

(* a is placed strictly ahead of b: "less(i, j)" of search.Sort.  The      *)
(* mutant forgets the entries whose time is unknown.                       *)
MutantBefore(a, b) ==
  \/ /\ a.time = b.time
     /\ \/ a.source < b.source
        \/ a.source = b.source /\ a.line < b.line
  \/ a.time < b.time

Before(a, b) ==
  \/ /\ a.time = b.time
     /\ \/ a.source < b.source
        \/ a.source = b.source /\ a.line < b.line
  \/ /\ a.time # b.time
     /\ a.time # 0
     /\ b.time = 0 \/ a.time < b.time

(* Two entries the comparison cannot tell apart keep their arrival order.  *)
Tied(a, b) == ~Before(a, b) /\ ~Before(b, a)
================================================================================
