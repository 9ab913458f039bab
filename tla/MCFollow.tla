-------------------------------- MODULE MCFollow -------------------------------
(* Instances of Follow for TLC: the lines of the writer, in chunks. *)
EXTENDS Follow

UpToLong == <<2, 1, 2, 3>>   \* with MaxLine = 2 the last line is too long
Pairs    == <<2, 2>>
================================================================================
