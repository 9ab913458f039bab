------------------------------- MODULE MCArchive -------------------------------
(* Instances of Archive for TLC. *)
EXTENDS Archive

(* Empty members, members with and without a last newline, a member that   *)
(* is not a file, and one that fails at each place.                        *)
SampleMembers ==
  [regular : {TRUE}, data : SeqOf({"x", "nl"}, 2) \cup {<<"nl", "x", "x">>}, fault : {"none"}]
  \cup [regular : {FALSE}, data : {<<"x">>}, fault : {"none"}]
  \cup [regular : {TRUE}, data : {<<"x">>}, fault : {"open", "read"}]

SampleArchives == SeqOf(SampleMembers, 3)
================================================================================
