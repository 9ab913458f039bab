-------------------------------- MODULE Stream --------------------------------
(***************************************************************************)
(* The sources that stream the output of another process: command (docker  *)
(* or kubectl as a child with a pipe) and ReadRemoteFile (cat or tail at   *)
(* the other end of an SSH connection).                                    *)
(*                                                                         *)
(* The process is the peer.  It writes the lines 1, 2, ... into a pipe or  *)
(* channel window of PipeCap lines; when it dies in the middle of a line,  *)
(* the last thing in the pipe is Torn.  It may be silent for ever.  Beside *)
(* the source there is a watcher: exec.CommandContext's goroutine, which   *)
(* kills the child, or the one of ReadRemoteFile, which closes the         *)
(* connection.                                                             *)
(***************************************************************************)
EXTENDS Integers, Sequences

CONSTANTS
  Kinds,    \* of {"command", "ssh"}, those explored
  MaxLines, \* bound: lines the peer writes
  PipeCap   \* lines the pipe holds

ASSUME StreamAssumption ==
  Kinds \subseteq {"command", "ssh"} /\ MaxLines \in Nat /\ PipeCap \in Nat \ {0}

Torn == 0

VARIABLES
  kind,      \* of this source
  lines,     \* lines the peer has to write
  overlong,  \* the first of them beyond the scanner's 10 MiB, or lines + 1
  peer,      \* none, running, quiet (output ended), ok, failed, killed
  wrote,     \* lines written
  pipe,      \* written and not yet scanned
  cancelled, \* ctx.Err() # nil
  pc,        \* start, launched, handshake, session, scan, emit, kill, reap,
             \* wait, done, failed
  link,      \* the read end of the pipe, or the connection: none, open, closed
  writer,    \* this process has the write end of the pipe open
  deadline,  \* the connection has a deadline
  watcher,   \* none, waiting, gone
  line,      \* the line emit is called with
  emitted    \* the lines emitted

input   == <<kind, lines, overlong>>
process == <<peer, wrote, pipe>>
handles == <<link, writer, deadline, watcher>>
vars    == <<input, process, cancelled, pc, handles, line, emitted>>

Init ==
  /\ kind \in Kinds /\ lines \in 0..MaxLines /\ overlong \in 1..(lines + 1)
  /\ peer = "none" /\ wrote = 0 /\ pipe = << >> /\ cancelled = FALSE
  /\ pc = "start" /\ link = "none" /\ writer = FALSE /\ deadline = FALSE
  /\ watcher = "none" /\ line = Torn /\ emitted = << >>

Alive    == peer \in {"running", "quiet"}
Dead     == peer \in {"ok", "failed", "killed"}
Returned == pc \in {"done", "failed"}
--------------------------------------------------------------------------------
(* The environment: the context is cancelled; the peer writes, ends its    *)
(* output, exits, or fails, a lost connection included.                    *)
Cancel ==
  /\ ~cancelled /\ cancelled' = TRUE
  /\ UNCHANGED <<input, process, pc, handles, line, emitted>>

Reachable == kind = "command" \/ link = "open"

PeerWrites ==
  /\ peer = "running" /\ Reachable /\ wrote < lines /\ Len(pipe) < PipeCap
  /\ wrote' = wrote + 1 /\ pipe' = Append(pipe, wrote + 1)
  /\ UNCHANGED <<input, peer, cancelled, pc, handles, line, emitted>>

PeerCloses ==
  /\ peer = "running" /\ Reachable /\ wrote = lines
  /\ peer' = "quiet"
  /\ UNCHANGED <<input, wrote, pipe, cancelled, pc, handles, line, emitted>>

PeerExits ==
  /\ Alive /\ Reachable /\ wrote = lines
  /\ peer' = "ok"
  /\ UNCHANGED <<input, wrote, pipe, cancelled, pc, handles, line, emitted>>

(* What the pipe may hold when the output of the peer is cut off. *)
CutOff ==
  \/ pipe' = pipe
  \/ /\ peer = "running" /\ wrote < lines /\ Len(pipe) < PipeCap
     /\ pipe' = Append(pipe, Torn)

PeerFails ==
  /\ Alive /\ Reachable
  /\ peer' = "failed" /\ CutOff
  /\ UNCHANGED <<input, wrote, cancelled, pc, handles, line, emitted>>
--------------------------------------------------------------------------------
(* Returning runs the deferred calls.  The child's watcher ends with Wait; *)
(* the other one only learns of the return.                                *)
Leave(verdict) ==
  /\ pc' = verdict
  /\ link' = IF link = "open" THEN "closed" ELSE link
  /\ writer' = FALSE
  /\ watcher' = IF kind = "command" /\ watcher = "waiting" THEN "gone" ELSE watcher
  /\ UNCHANGED deadline

(* No key, no known_hosts, no program, no answer within ten seconds, or a  *)
(* context that is cancelled already.                                      *)
Refuse ==
  /\ pc = "start" /\ Leave("failed")
  /\ UNCHANGED <<input, process, cancelled, line, emitted>>

(* command: os.Pipe and cmd.Start, then w.Close. *)
Launch ==
  /\ pc = "start" /\ kind = "command" /\ ~cancelled
  /\ pc' = "launched" /\ peer' = "running"
  /\ link' = "open" /\ writer' = TRUE /\ watcher' = "waiting"
  /\ UNCHANGED <<input, wrote, pipe, cancelled, deadline, line, emitted>>

CloseWriter ==
  /\ pc = "launched" /\ pc' = "scan" /\ writer' = FALSE
  /\ UNCHANGED <<input, process, cancelled, link, deadline, watcher, line, emitted>>

(* Here and below a definition named Mutant... is a plausible bug in the    *)
(* definition that follows it: no specification uses it; replacing the      *)
(* definition by it must violate a property.                                *)
MutantConnect ==
  /\ pc = "start" /\ kind = "ssh" /\ ~cancelled
  /\ pc' = "handshake" /\ link' = "open" /\ watcher' = "waiting"
  /\ UNCHANGED <<input, process, cancelled, writer, deadline, line, emitted>>

(* ReadRemoteFile: the connection, its watcher, and fifteen seconds for    *)
(* the handshake,                                                          *)
Connect ==
  /\ pc = "start" /\ kind = "ssh" /\ ~cancelled
  /\ pc' = "handshake" /\ link' = "open" /\ watcher' = "waiting" /\ deadline' = TRUE
  /\ UNCHANGED <<input, process, cancelled, writer, line, emitted>>

MutantHandshaken ==
  /\ pc = "handshake" /\ link = "open"
  /\ pc' = "session"
  /\ UNCHANGED <<input, process, cancelled, handles, line, emitted>>

(* after which the deadline is taken back,                                 *)
Handshaken ==
  /\ pc = "handshake" /\ link = "open"
  /\ pc' = "session" /\ deadline' = FALSE
  /\ UNCHANGED <<input, process, cancelled, link, writer, watcher, line, emitted>>

(* and the session in which the command is started.                        *)
SessionStarts ==
  /\ pc = "session" /\ link = "open"
  /\ pc' = "scan" /\ peer' = "running"
  /\ UNCHANGED <<input, wrote, pipe, cancelled, handles, line, emitted>>

(* The server refuses the host key's proof, the user, or the session. *)
ServerRefuses ==
  /\ pc \in {"handshake", "session"} /\ link = "open" /\ Leave("failed")
  /\ UNCHANGED <<input, process, cancelled, line, emitted>>

LinkLost ==
  /\ pc \in {"handshake", "session"} /\ link = "closed" /\ Leave("failed")
  /\ UNCHANGED <<input, process, cancelled, line, emitted>>

(* Past the deadline the connection is of no use. *)
Expire ==
  /\ deadline /\ link = "open"
  /\ link' = "closed"
  /\ UNCHANGED <<input, process, cancelled, pc, writer, deadline, watcher, line, emitted>>

MutantInterrupted == FALSE
(* scan tests the context once it has a line; ReadRemoteFile does not. *)
Interrupted       == kind = "command" /\ cancelled

ScanLine ==
  /\ pc = "scan" /\ pipe # << >> /\ Head(pipe) # overlong /\ ~Interrupted
  /\ pc' = "emit" /\ line' = Head(pipe) /\ pipe' = Tail(pipe)
  /\ UNCHANGED <<input, peer, wrote, cancelled, handles, emitted>>

Emit ==
  /\ pc = "emit"
  /\ pc' = "scan" /\ emitted' = Append(emitted, line)
  /\ UNCHANGED <<input, process, cancelled, handles, line>>

MutantStopScan == Leave("failed")

(* An error ends the scan.  A child is killed and waited for. *)
StopScan ==
  IF kind = "command" THEN pc' = "kill" /\ UNCHANGED handles ELSE Leave("failed")

ScanFails ==
  /\ pc = "scan" /\ pipe # << >> /\ (Head(pipe) = overlong \/ Interrupted) /\ StopScan
  /\ UNCHANGED <<input, process, cancelled, line, emitted>>

EmitFails ==
  /\ pc = "emit" /\ cancelled /\ StopScan
  /\ UNCHANGED <<input, process, cancelled, line, emitted>>

EndOfOutput ==
  /\ pipe = << >>
  /\ IF kind = "command" THEN ~writer /\ peer # "running"
                         ELSE link = "closed" \/ peer # "running"

ScanEnds ==
  /\ pc = "scan" /\ EndOfOutput
  /\ pc' = "wait"
  /\ UNCHANGED <<input, process, cancelled, handles, line, emitted>>

MutantKill ==
  /\ pc = "kill" /\ pc' = "reap"
  /\ UNCHANGED <<input, process, cancelled, handles, line, emitted>>

Kill ==
  /\ pc = "kill" /\ pc' = "reap"
  /\ peer' = IF Alive THEN "killed" ELSE peer
  /\ UNCHANGED <<input, wrote, pipe, cancelled, handles, line, emitted>>

Reap ==
  /\ pc = "reap" /\ Dead /\ Leave("failed")
  /\ UNCHANGED <<input, process, cancelled, line, emitted>>

MutantVerdicts == {"done"}

(* The exit status decides.  exec reports a cancellation it acted upon     *)
(* even if the child had just exited.                                      *)
Verdicts ==
  {v \in {"done", "failed"} :
     IF peer = "ok" THEN v = "done" \/ (kind = "command" /\ watcher = "gone")
                    ELSE v = "failed"}

Wait ==
  /\ pc = "wait" /\ (Dead \/ (kind = "ssh" /\ link = "closed"))
  /\ \E v \in Verdicts : Leave(v)
  /\ UNCHANGED <<input, process, cancelled, line, emitted>>
--------------------------------------------------------------------------------
(* The watchers: on cancellation one kills the child, *)
WatcherKills ==
  /\ kind = "command" /\ watcher = "waiting" /\ cancelled
  /\ watcher' = "gone"
  /\ IF Alive THEN peer' = "killed" /\ CutOff ELSE UNCHANGED <<peer, pipe>>
  /\ UNCHANGED <<input, wrote, cancelled, pc, link, writer, deadline, line, emitted>>

(* the other one closes the connection, *)
WatcherCloses ==
  /\ kind = "ssh" /\ watcher = "waiting" /\ cancelled
  /\ watcher' = "gone" /\ link' = "closed" /\ CutOff
  /\ UNCHANGED <<input, peer, wrote, cancelled, pc, writer, deadline, line, emitted>>

(* or ends with ReadRemoteFile. *)
WatcherLeaves ==
  /\ kind = "ssh" /\ watcher = "waiting" /\ Returned
  /\ watcher' = "gone"
  /\ UNCHANGED <<input, process, cancelled, pc, link, writer, deadline, line, emitted>>

Peer    == PeerWrites \/ PeerCloses \/ PeerExits \/ PeerFails
Server  == Handshaken \/ SessionStarts \/ ServerRefuses
Source  ==
  \/ Refuse \/ Launch \/ CloseWriter \/ Connect \/ LinkLost
  \/ ScanLine \/ Emit \/ ScanFails \/ EmitFails \/ ScanEnds \/ Kill \/ Reap \/ Wait
Watcher == WatcherKills \/ WatcherCloses \/ WatcherLeaves

Next == Cancel \/ Peer \/ Server \/ Expire \/ Source \/ Watcher
        \/ (Returned /\ watcher # "waiting" /\ UNCHANGED vars)

Spec == Init /\ [][Next]_vars

(* Goroutines are scheduled, emit is received or cancelled, and time       *)
(* passes.  Peer and server owe nothing: they may be silent for ever.      *)
FairSpec == Spec /\ WF_vars(Source) /\ WF_vars(Watcher) /\ WF_vars(Expire)
--------------------------------------------------------------------------------
TypeOK ==
  /\ kind \in {"command", "ssh"} /\ lines \in 0..MaxLines /\ overlong \in 1..(lines + 1)
  /\ peer \in {"none", "running", "quiet", "ok", "failed", "killed"}
  /\ wrote \in 0..lines /\ pipe \in Seq(0..lines) /\ Len(pipe) <= PipeCap
  /\ cancelled \in BOOLEAN
  /\ pc \in {"start", "launched", "handshake", "session", "scan", "emit", "kill", "reap",
             "wait", "done", "failed"}
  /\ link \in {"none", "open", "closed"} /\ watcher \in {"none", "waiting", "gone"}
  /\ writer \in BOOLEAN /\ (writer => pc = "launched")
  /\ deadline \in BOOLEAN /\ (deadline => pc \in {"handshake", "failed"})
  /\ line \in 0..lines /\ emitted \in Seq(0..lines)

(* read.go 215-223, ssh.go 78-86: a source that succeeds has emitted every *)
(* line of the peer's output, whole, once and in order, and the peer has   *)
(* reported success.                                                       *)
SuccessIsWhole ==
  pc = "done" =>
    /\ peer = "ok"
    /\ Len(emitted) = lines /\ \A i \in 1..lines : emitted[i] = i

(* read.go 67-69, 201: a line that the kill on cancellation cut off is     *)
(* never taken for a line.  (An SSH connection that is closed may leave    *)
(* one; the source then fails.)                                            *)
KillTearsNothing ==
  kind = "command" /\ peer = "killed" => \A i \in DOMAIN emitted : emitted[i] # Torn

(* ssh.go 50-55: once the peer runs, a source fails only if it was         *)
(* cancelled, the peer failed, or a line is too long: the deadline of the  *)
(* handshake does not end a stream that is quiet for long.                 *)
FailsForACause ==
  pc = "failed" /\ peer # "none" => cancelled \/ peer = "failed" \/ overlong <= lines

(* read.go 207-219, ssh.go 40-62: no child, pipe or connection outlives    *)
(* its source.                                                             *)
NothingLeft ==
  Returned => link # "open" /\ ~writer /\ (kind = "command" => ~Alive)

(* read.go 201-219, ssh.go 43-49: a source that is cancelled, whose peer   *)
(* has ended, or that gives up on its output ends, its watcher too, even   *)
(* if the peer is silent, or blocked because nobody reads its output.      *)
Ends == cancelled \/ Dead \/ pc = "kill" ~> Returned /\ watcher # "waiting"

(* ssh.go 50-55: a server that says nothing cannot hold the handshake.     *)
HandshakeEnds == pc = "handshake" ~> pc # "handshake"
================================================================================
