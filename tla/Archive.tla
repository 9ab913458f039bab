-------------------------------- MODULE Archive --------------------------------
(***************************************************************************)
(* The readers of zip and tar archives: one stream made of the members in  *)
(* their order, which bufio.Scanner reads in pieces of any size.           *)
(*                                                                         *)
(* A member is [regular, data, fault]: data holds "x" (any byte but a      *)
(* newline) and "nl"; fault is where it fails: "none", "open", or "read"   *)
(* (after its data: a checksum, a truncation).                             *)
(***************************************************************************)
EXTENDS Integers, Sequences, SequencesExt

CONSTANTS
  Archives,  \* the archives explored: sequences of members
  MaxRead    \* bound: bytes one Read returns

Members == [regular : BOOLEAN, data : Seq({"x", "nl"}), fault : {"none", "open", "read"}]

ASSUME ArchiveAssumption ==
  /\ MaxRead \in Nat \ {0}
  /\ \A a \in Archives : a \in Seq(Members)

VARIABLES
  files,   \* the members
  index,   \* members opened or skipped so far
  active,  \* the last of them is open
  read,    \* bytes returned of it
  had,     \* whether any
  last,    \* the last byte returned
  out,     \* the stream: <<member, byte>>, member 0 for a separator
  state    \* reading, eof, failed

archiveVars == <<files, index, active, read, had, last, out, state>>

ArchiveInit ==
  /\ files \in Archives
  /\ index = 0 /\ active = FALSE /\ read = 0 /\ had = FALSE /\ last = "nl"
  /\ out = << >> /\ state = "reading"

Rest == Len(files[index].data) - read
--------------------------------------------------------------------------------
(* The loop of Read up to the next regular file. *)
Skip ==
  /\ state = "reading" /\ ~active /\ index < Len(files) /\ ~files[index + 1].regular
  /\ index' = index + 1
  /\ UNCHANGED <<files, active, read, had, last, out, state>>

(* Here and below a definition named Mutant... is a plausible bug in the    *)
(* definition that follows it: no specification uses it; replacing the      *)
(* definition by it must violate a property.                                *)
MutantOpenMemberHad ==
  /\ state = "reading" /\ ~active /\ index < Len(files)
  /\ files[index + 1].regular /\ files[index + 1].fault # "open"
  /\ index' = index + 1 /\ active' = TRUE /\ read' = 0
  /\ UNCHANGED <<files, had, last, out, state>>

OpenMember ==
  /\ state = "reading" /\ ~active /\ index < Len(files)
  /\ files[index + 1].regular /\ files[index + 1].fault # "open"
  /\ index' = index + 1 /\ active' = TRUE /\ read' = 0 /\ had' = FALSE
  /\ UNCHANGED <<files, last, out, state>>

OpenFails ==
  /\ state = "reading" /\ ~active /\ index < Len(files)
  /\ files[index + 1].regular /\ files[index + 1].fault = "open"
  /\ state' = "failed"
  /\ UNCHANGED <<files, index, active, read, had, last, out>>

EndOfArchive ==
  /\ state = "reading" /\ ~active /\ index = Len(files)
  /\ state' = "eof"
  /\ UNCHANGED <<files, index, active, read, had, last, out>>

(* A read of n bytes of the open member. *)
ReadSome(n) ==
  /\ state = "reading" /\ active /\ n <= Rest
  /\ LET data == SubSeq(files[index].data, read + 1, read + n)
     IN /\ out' = out \o [i \in 1..n |-> <<index, data[i]>>]
        /\ last' = data[n]
  /\ read' = read + n /\ had' = TRUE
  /\ UNCHANGED <<files, index, active, state>>

ReadFails ==
  /\ state = "reading" /\ active /\ Rest = 0 /\ files[index].fault = "read"
  /\ state' = "failed"
  /\ UNCHANGED <<files, index, active, read, had, last, out>>

(* At the end of a member that does not end its last line, the reader      *)
(* returns a newline of its own.                                           *)
Unended == had /\ last # "nl"

MutantEndOfMember ==
  /\ state = "reading" /\ active /\ Rest = 0
  /\ active' = FALSE
  /\ out' = IF Unended THEN Append(out, <<0, "nl">>) ELSE out
  /\ UNCHANGED <<files, index, read, had, last, state>>

EndOfMember ==
  /\ state = "reading" /\ active /\ Rest = 0 /\ files[index].fault # "read"
  /\ active' = FALSE
  /\ out' = IF Unended THEN Append(out, <<0, "nl">>) ELSE out
  /\ UNCHANGED <<files, index, read, had, last, state>>

Read ==
  \/ Skip \/ OpenMember \/ OpenFails \/ EndOfArchive
  \/ (\E n \in 1..MaxRead : ReadSome(n)) \/ ReadFails \/ EndOfMember

Ended == state # "reading"
ArchiveNext == Read \/ (Ended /\ UNCHANGED archiveVars)
ArchiveSpec == ArchiveInit /\ [][ArchiveNext]_archiveVars
--------------------------------------------------------------------------------
(* What a member adds to the stream: its bytes and the end of its last     *)
(* line, if it has bytes and does not end it; what is not regular adds     *)
(* nothing: directories, and in a tar archive links and devices too.       *)
Bytes(m) == [i \in DOMAIN files[m].data |-> <<m, files[m].data[i]>>]

Text(m) ==
  IF ~files[m].regular THEN << >>
  ELSE IF files[m].data = << >> \/ Last(files[m].data) = "nl" THEN Bytes(m)
  ELSE Append(Bytes(m), <<0, "nl">>)

(* The text of the first k members, for every k.                           *)
TextUpTo ==
  LET text[k \in 0..Len(files)] == IF k = 0 THEN << >> ELSE text[k - 1] \o Text(k)
  IN  text

(* zip.go 17-55, tar.go 17-47: the stream holds the bytes of the members,  *)
(* in order, none lost or repeated, and no line end but the missing ones,  *)
(* however the reads fell; an archive that ends without an error has been  *)
(* read whole.                                                             *)
StreamIsMembers ==
  /\ IsPrefix(out, TextUpTo[Len(files)])
  /\ state = "eof" => out = TextUpTo[Len(files)]
  /\ state = "eof" => \A m \in Range(files) : m.regular => m.fault = "none"

(* zip.go 47-53, tar.go 42-45, README "member boundaries are separated":   *)
(* no line holds bytes of two members, and no empty line is made up: a     *)
(* separator ends a line that has bytes.                                   *)
MembersSeparated ==
  \A p \in DOMAIN out :
    /\ p > 1 /\ out[p - 1][1] # out[p][1] => out[p - 1][2] = "nl" \/ out[p][1] = 0
    /\ out[p][1] = 0 => p > 1 /\ out[p - 1][2] = "x"
================================================================================
