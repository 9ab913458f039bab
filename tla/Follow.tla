-------------------------------- MODULE Follow ---------------------------------
(***************************************************************************)
(* sources.local with -f: one goroutine follows a path while a writer      *)
(* appends to the file, renames it away, creates it anew, or truncates it. *)
(*                                                                         *)
(* A line l is Length[l] chunks long; the last of them holds the newline.   *)
(* Files are inodes; path names one of them or none.  A read of a file     *)
(* fills the buffer of the bufio.Reader as far as it can.                  *)
(***************************************************************************)
EXTENDS Integers, Sequences, Functions, FiniteSetsExt

CONSTANTS
  Length,    \* bound: the lines the writer writes, by the chunks of each
  BufCap,    \* chunks the bufio.Reader holds (4096 bytes in the code)
  MaxLine,   \* chunks a pending line may have (10 MiB in the code)
  Inodes,    \* bound: files ever created
  Truncates, \* bound: truncations
  HandOver   \* the path is never missing: a rename puts the new file in place

ASSUME FollowAssumption ==
  /\ Length \in Seq(Nat \ {0}) /\ BufCap \in Nat \ {0} /\ MaxLine \in Nat
  /\ Inodes \in Nat \ {0} /\ Truncates \in Nat /\ HandOver \in BOOLEAN

Lines   == DOMAIN Length
Chunk   == UNION {{l} \X (1..Length[l]) : l \in Lines}
Ends(c) == c[2] = Length[c[1]]   \* c holds the newline of its line
File    == 1..Inodes
NoFile  == 0

VARIABLES
  \* the environment
  content,   \* inode -> its chunks
  path,      \* the inode the path names, or NoFile
  created,   \* inodes created so far
  next,      \* the chunk the writer appends next
  truncated, \* truncations so far
  unseen,    \* the followed file shrank below what was read, not yet noticed
  cancelled, \* ctx.Err() # nil
  \* the follower
  pc,        \* start, head (of the loop), read, tick, stat, open, done, failed
  file,      \* f: the inode open for reading
  fpos,      \* its kernel read position
  offset,    \* bytes consumed of it
  buf,       \* read but not consumed
  pending,   \* consumed of the unfinished line
  emitted    \* the lines emitted, each as its chunks

env      == <<content, path, created, next, truncated, cancelled>>
follower == <<pc, file, fpos, offset, buf, pending, emitted>>
vars     == <<env, unseen, follower>>

Init ==
  /\ content = [i \in File |-> << >>]
  /\ path = 1 /\ created = 1 /\ next = <<1, 1>> /\ truncated = 0 /\ cancelled = FALSE
  /\ unseen = FALSE
  /\ pc = "start" /\ file = NoFile /\ fpos = 0 /\ offset = 0
  /\ buf = << >> /\ pending = << >> /\ emitted = << >>
--------------------------------------------------------------------------------
MidLine == next[2] # 1

(* The writer appends the next chunk to the file it has created last.  It  *)
(* renames, recreates and truncates only between two lines.  A truncated   *)
(* file does not grow back to the reader's position before the follower    *)
(* has noticed: the documented limit of a follower that polls.             *)
Write ==
  /\ next[1] \in Lines
  /\ unseen /\ created = file => Len(content[created]) + 1 < fpos
  /\ content' = [content EXCEPT ![created] = Append(@, next)]
  /\ next' = IF Ends(next) THEN <<next[1] + 1, 1>> ELSE <<next[1], next[2] + 1>>
  /\ UNCHANGED <<path, created, truncated, cancelled, unseen, follower>>

Rename ==
  /\ path # NoFile /\ created < Inodes /\ ~MidLine
  /\ path' = IF HandOver THEN created + 1 ELSE NoFile
  /\ created' = IF HandOver THEN created + 1 ELSE created
  /\ UNCHANGED <<content, next, truncated, cancelled, unseen, follower>>

Create ==
  /\ path = NoFile /\ ~MidLine
  /\ path' = created + 1 /\ created' = created + 1
  /\ UNCHANGED <<content, next, truncated, cancelled, unseen, follower>>

Truncate ==
  /\ truncated < Truncates /\ ~MidLine /\ content[created] # << >>
  /\ content' = [content EXCEPT ![created] = << >>]
  /\ truncated' = truncated + 1
  /\ unseen' = (unseen \/ (created = file /\ fpos > 0))
  /\ UNCHANGED <<path, created, next, cancelled, follower>>

Cancel ==
  /\ ~cancelled /\ cancelled' = TRUE
  /\ UNCHANGED <<content, path, created, next, truncated, unseen, follower>>
--------------------------------------------------------------------------------
(* The file is opened and the reader starts at its end. *)
Start ==
  /\ pc = "start"
  /\ IF path = NoFile
     THEN pc' = "failed" /\ UNCHANGED <<file, fpos, offset>>
     ELSE /\ pc' = "head" /\ file' = path
          /\ fpos' = Len(content[path]) /\ offset' = Len(content[path])
  /\ UNCHANGED <<env, unseen, buf, pending, emitted>>

Newlines  == {b \in DOMAIN buf : Ends(buf[b])}
Available == Len(content[file]) - fpos

MutantStop ==
  /\ cancelled /\ pc = "read" /\ Newlines # {}
  /\ pc' = "done"
  /\ UNCHANGED <<env, unseen, file, fpos, offset, buf, pending, emitted>>

(* The context is tested at the head of the loop, in the select with the   *)
(* ticker, and by emit while the consumer is slow.                         *)
Stop ==
  /\ cancelled
  /\ pc \in {"head", "tick"} \/ (pc = "read" /\ Newlines # {})
  /\ pc' = "done"
  /\ UNCHANGED <<env, unseen, file, fpos, offset, buf, pending, emitted>>

Enter ==
  /\ pc = "head" /\ ~cancelled
  /\ pc' = "read"
  /\ UNCHANGED <<env, unseen, file, fpos, offset, buf, pending, emitted>>

(* ReadSlice reads on while the buffer has room and holds no newline. *)
Fill ==
  /\ pc = "read" /\ Newlines = {} /\ Len(buf) < BufCap /\ Available > 0
  /\ LET to == Min({Len(content[file]), fpos + BufCap - Len(buf)})
     IN /\ buf' = buf \o SubSeq(content[file], fpos + 1, to)
        /\ fpos' = to
  /\ UNCHANGED <<env, unseen, pc, file, offset, pending, emitted>>

(* Here and below a definition named Mutant... is a plausible bug in the    *)
(* definition that follows it: no specification uses it; replacing the      *)
(* definition by it must violate a property.                                *)
MutantConsume(n) == offset' = offset + n /\ buf' = SubSeq(buf, n + 1, Len(buf))

(* ReadSlice returns the first n chunks of the buffer, which join the      *)
(* pending line unless that gets too long.                                 *)
Consume(n) ==
  /\ offset' = offset + n
  /\ buf' = SubSeq(buf, n + 1, Len(buf))
  /\ Len(pending) + n <= MaxLine

TooLong(n) == Len(pending) + n > MaxLine

(* up to a newline: the pending line is complete and emitted; *)
TakeLine ==
  /\ pc = "read" /\ Newlines # {}
  /\ Consume(Min(Newlines))
  /\ emitted' = Append(emitted, pending \o SubSeq(buf, 1, Min(Newlines)))
  /\ pending' = << >> /\ pc' = "head"
  /\ UNCHANGED <<env, unseen, file, fpos>>

(* a full buffer (ErrBufferFull): the line goes on; *)
TakeFull ==
  /\ pc = "read" /\ Newlines = {} /\ Len(buf) = BufCap
  /\ Consume(Len(buf))
  /\ pending' = pending \o buf /\ pc' = "head"
  /\ UNCHANGED <<env, unseen, file, fpos, emitted>>

MutantTakeRest ==
  /\ pc = "read" /\ Newlines = {} /\ Len(buf) < BufCap /\ Available <= 0
  /\ Consume(Len(buf))
  /\ pending' = buf
  /\ pc' = "tick"
  /\ UNCHANGED <<env, unseen, file, fpos, emitted>>

(* or what is left at the end of the file (io.EOF): wait for the ticker.   *)
TakeRest ==
  /\ pc = "read" /\ Newlines = {} /\ Len(buf) < BufCap /\ Available <= 0
  /\ Consume(Len(buf))
  /\ pending' = pending \o buf
  /\ pc' = "tick"
  /\ UNCHANGED <<env, unseen, file, fpos, emitted>>

Overlong ==
  /\ pc = "read"
  /\ \/ Newlines # {} /\ TooLong(Min(Newlines))
     \/ /\ Newlines = {} /\ (Len(buf) = BufCap \/ Available <= 0)
        /\ TooLong(Len(buf))
  /\ pc' = "failed"
  /\ UNCHANGED <<env, unseen, file, fpos, offset, buf, pending, emitted>>

Tick ==
  /\ pc = "tick" /\ pc' = "stat"
  /\ UNCHANGED <<env, unseen, file, fpos, offset, buf, pending, emitted>>

MutantReplaced == FALSE
Replaced       == path \notin {NoFile, file}

MutantShrunk == path = file /\ Len(content[file]) <= offset
Shrunk       == path = file /\ Len(content[file]) < offset

(* os.Stat(path) against the open file.  A missing path is waited out; a   *)
(* file that shrank below what was consumed is read from its start.        *)
Stat ==
  /\ pc = "stat"
  /\ \/ /\ ~Replaced /\ ~Shrunk
        /\ pc' = "head" /\ UNCHANGED <<unseen, fpos, offset, buf, pending>>
     \/ /\ Shrunk
        /\ pc' = "head" /\ unseen' = FALSE
        /\ fpos' = 0 /\ offset' = 0 /\ buf' = << >> /\ pending' = << >>
     \/ /\ Replaced
        /\ pc' = "open" /\ UNCHANGED <<unseen, fpos, offset, buf, pending>>
  /\ UNCHANGED <<env, file, emitted>>

MutantOpen ==
  /\ pc = "open" /\ path # NoFile
  /\ pc' = "head" /\ file' = path /\ unseen' = FALSE
  /\ fpos' = 0 /\ offset' = 0 /\ buf' = << >>
  /\ UNCHANGED <<env, pending, emitted>>

(* os.Open(path): whatever the path names by now, from its start. *)
Open ==
  /\ pc = "open"
  /\ IF path = NoFile
     THEN pc' = "failed" /\ UNCHANGED <<unseen, file, fpos, offset, buf, pending>>
     ELSE /\ pc' = "head" /\ file' = path /\ unseen' = FALSE
          /\ fpos' = 0 /\ offset' = 0 /\ buf' = << >> /\ pending' = << >>
  /\ UNCHANGED <<env, emitted>>

Environment == Write \/ Rename \/ Create \/ Truncate \/ Cancel
Follower ==
  \/ Start \/ Stop \/ Enter \/ Fill \/ TakeLine \/ TakeFull \/ TakeRest \/ Overlong
  \/ Tick \/ Stat \/ Open

Ended == pc \in {"done", "failed"}
Next  == Environment \/ Follower \/ (Ended /\ UNCHANGED vars)

Spec == Init /\ [][Next]_vars

(* The goroutine is scheduled and the ticker fires.  The writer owes       *)
(* nothing.                                                                *)
FairSpec == Spec /\ WF_vars(Follower)
--------------------------------------------------------------------------------
TypeOK ==
  /\ \A i \in File : Range(content[i]) \subseteq Chunk
  /\ path \in File \cup {NoFile} /\ created \in File
  /\ next \in Chunk \cup {<<Len(Length) + 1, 1>>}
  /\ truncated \in 0..Truncates /\ unseen \in BOOLEAN /\ cancelled \in BOOLEAN
  /\ pc \in {"start", "head", "read", "tick", "stat", "open", "done", "failed"}
  /\ file \in File \cup {NoFile} /\ fpos \in Nat /\ offset \in 0..fpos
  /\ Range(buf) \subseteq Chunk /\ Len(buf) <= BufCap
  /\ Range(pending) \subseteq Chunk /\ Len(pending) <= MaxLine
  /\ \A b \in DOMAIN emitted :
       Range(emitted[b]) \subseteq Chunk /\ Len(emitted[b]) <= MaxLine

(* read.go 117-131: of a file that is not truncated nothing consumed is    *)
(* lost or repeated: the unfinished line and the buffer are the last       *)
(* chunks read of it, up to the kernel's position, from the start of a     *)
(* line (the first one emitted excepted, since following may begin in the  *)
(* middle of a line), whatever the sizes of line and buffer and wherever a *)
(* write fell between two reads.                                           *)
UnfinishedLineKept ==
  truncated = 0 /\ pc \in {"head", "read", "tick", "stat", "open"} =>
    LET held == pending \o buf
    IN /\ Len(held) <= fpos
       /\ held = SubSeq(content[file], fpos - Len(held) + 1, fpos)
       /\ emitted # << >> /\ Len(held) < fpos => Ends(content[file][fpos - Len(held)])
       /\ offset = fpos - Len(buf)

(* read.go 126-130, 159-168: an emitted line is one line of the writer: a  *)
(* rotation or a truncation never glues the start of one to the end of     *)
(* another.  Only the first line may lack its start, when following began  *)
(* in its middle.                                                          *)
LinesNotTorn ==
  \A b \in DOMAIN emitted :
    /\ \A i, j \in DOMAIN emitted[b] : emitted[b][i][1] = emitted[b][j][1]
    /\ b > 1 => Len(emitted[b]) = Length[emitted[b][1][1]]
    /\ Ends(emitted[b][Len(emitted[b])])

(* read.go 152-169: no line is emitted twice or out of order, across any   *)
(* number of rotations and truncations.                                    *)
LinesInOrder ==
  \A a, b \in DOMAIN emitted : a < b => emitted[a][1][1] < emitted[b][1][1]

EmittedLine(l) == \E b \in DOMAIN emitted : emitted[b][1][1] = l

(* Line l is complete in the file the path names, and not yet read. *)
Unread(l) ==
  /\ pc # "start" /\ path # NoFile
  /\ \E p \in DOMAIN content[path] :
       content[path][p] = <<l, Length[l]>> /\ (path # file \/ p > fpos)

(* read.go 113-171: a line completed in the file the path names is emitted,*)
(* unless that file is replaced, truncated or the follower ends first.     *)
CatchesUp ==
  \A l \in Lines :
    Unread(l) ~> \/ EmittedLine(l) \/ Ended \/ path = NoFile
                 \/ <<l, Length[l]>> \notin Range(content[path])

(* read.go 114-115, 136-138: a cancelled follower ends, however much the   *)
(* writer writes.                                                          *)
CancelEnds == cancelled ~> Ended

(* README.md 121-122 and 176: following a renamed file skips nothing: the  *)
(* follower leaves a file only when it has consumed it.                    *)
NoSilentSkip ==
  [][file # NoFile /\ file' # file => fpos = Len(content[file]) /\ pending = << >>]_vars

(* README.md 121-122: a rotation of the path does not end the follower.    *)
SurvivesRotation == pc = "failed" => file = NoFile
================================================================================
