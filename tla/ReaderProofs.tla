----------------------------- MODULE ReaderProofs -----------------------------
(***************************************************************************)
(* What the readers promise: the streamed sources (command,                *)
(* ReadRemoteFile), for every number of lines and every size of the pipe,  *)
(* and the readers of zip and tar, for every archive and however the reads *)
(* fall.                                                                   *)
(***************************************************************************)
EXTENDS Stream, Archive, SequenceTheorems, WellFoundedInduction, TLAPS

(* Induction over a prefix of the naturals: a set that holds the first     *)
(* position and, with any position, the next one, holds them all.          *)
LEMMA PrefixInduction ==
  ASSUME NEW m \in Nat, NEW G, 0 \in G,
         \A b \in 1..m : b - 1 \in G => b \in G
  PROVE  0..m \subseteq G
<1> DEFINE R == {p \in Nat \X Nat : p[1] < p[2]}
           T == (0..m) \ G
<1>1. IsWellFoundedOn(R, Nat)
  BY NatLessThanWellFounded, Zenon DEF OpToRel
<1>2. \A x, y \in Nat : <<y, x>> \in R <=> y < x
  OBVIOUS
<1> SUFFICES ASSUME T # {} PROVE FALSE
  OBVIOUS
<1>3. T \subseteq Nat
  OBVIOUS
<1> HIDE DEF R, T
<1>4. PICK x \in T : \A y \in T : <<y, x>> \notin R
  BY <1>1, <1>3, WFMin
<1>5. x \in 1..m /\ x \notin G /\ x - 1 \in 0..m /\ x - 1 < x
  BY <1>4 DEF T
<1>6. x \in Nat /\ x - 1 \in Nat /\ <<x - 1, x>> \in R
  BY <1>2, <1>5
<1> QED BY <1>4, <1>5, <1>6 DEF T
--------------------------------------------------------------------------------
(* Where the source is, against its handles and the peer. *)
Phases ==
  /\ pc \in {"start", "handshake", "session"} => peer = "none" /\ pipe = << >> /\ wrote = 0
  /\ pc \in {"launched", "kill", "reap"} => kind = "command"
  /\ pc \in {"handshake", "session"} => kind = "ssh"
  /\ pc = "start" => link = "none" /\ watcher = "none"
  /\ pc \in {"launched", "scan", "emit", "kill", "reap", "wait", "done"} => peer # "none"
  /\ watcher = "gone" /\ ~Returned => cancelled
  /\ kind = "ssh" /\ link = "closed" /\ pc \notin {"handshake", "failed"} /\ ~Returned =>
       deadline \/ watcher = "gone"
  /\ Returned => link # "open" /\ (kind = "command" => ~Alive)

(* What can have gone wrong when the peer is killed or the source gives up. *)
Causes ==
  /\ pc \in {"kill", "reap"} \/ peer = "killed" => cancelled \/ overlong <= lines
  /\ kind = "ssh" => peer # "killed"
  /\ FailsForACause

(* While the output is not cut off: what the peer wrote is emitted, in the *)
(* hands of emit, or in the pipe, in order.                                *)
Intact  == peer # "running" \/ kind = "command" \/ link = "open"
Handed  == IF pc = "emit" THEN 1 ELSE 0
InOrder ==
  peer \in {"none", "running", "quiet", "ok"} /\ Intact /\ pc \notin {"kill", "reap", "failed"} =>
    /\ Len(emitted) + Handed + Len(pipe) = wrote
    /\ \A i \in 1..Len(emitted) : emitted[i] = i
    /\ pc = "emit" => line = Len(emitted) + 1
    /\ \A i \in 1..Len(pipe) : pipe[i] = Len(emitted) + Handed + i

AllWritten == peer \in {"quiet", "ok"} => wrote = lines

(* The pipe stays empty once the scan has met its end. *)
Drained ==
  pc \in {"wait", "done"} =>
    /\ pipe = << >>
    /\ peer # "running" \/ (kind = "ssh" /\ link = "closed" /\ watcher = "gone")
    /\ pc = "done" => peer = "ok"

(* A fragment left by a kill is not past the test of the context. *)
Untorn ==
  kind = "command" /\ peer # "failed" =>
    /\ \A i \in 1..Len(emitted) : emitted[i] # Torn
    /\ pc = "emit" => line # Torn
    /\ cancelled \/ \A i \in 1..Len(pipe) : pipe[i] # Torn

StreamInv == TypeOK /\ Phases /\ Causes /\ InOrder /\ AllWritten /\ Drained /\ Untorn
--------------------------------------------------------------------------------
(* A fragment is one item more. *)
LEMMA CutOffType ==
  ASSUME TypeOK, CutOff
  PROVE  pipe' \in Seq(0..lines) /\ Len(pipe') <= PipeCap
<1>1. CASE pipe' = pipe BY <1>1 DEF TypeOK
<1>2. CASE wrote < lines /\ Len(pipe) < PipeCap /\ pipe' = Append(pipe, Torn)
  BY <1>2, StreamAssumption DEF TypeOK, Torn
<1> QED BY <1>1, <1>2 DEF CutOff

(* One step for each action. *)
LEMMA TypeStep ==
  ASSUME TypeOK, [Next]_vars
  PROVE  TypeOK'
<1> USE StreamAssumption DEF TypeOK, input, process, handles
<1>1. CASE Cancel BY <1>1 DEF Cancel
<1>2. CASE PeerWrites BY <1>2 DEF PeerWrites, Reachable
<1>3. CASE PeerCloses BY <1>3 DEF PeerCloses, Reachable
<1>4. CASE PeerExits BY <1>4 DEF PeerExits, Reachable, Alive
<1>5. CASE PeerFails
  <2>1. CutOff \/ UNCHANGED <<peer, pipe>> BY <1>5 DEF PeerFails
  <2>2. pipe' \in Seq(0..lines) /\ Len(pipe') <= PipeCap BY <2>1, CutOffType
  <2> QED BY <1>5, <2>2 DEF PeerFails
<1>6. CASE Handshaken BY <1>6 DEF Handshaken
<1>7. CASE SessionStarts BY <1>7 DEF SessionStarts
<1>8. CASE ServerRefuses BY <1>8 DEF ServerRefuses, Leave
<1>9. CASE Expire BY <1>9 DEF Expire
<1>10. CASE Refuse BY <1>10 DEF Refuse, Leave
<1>11. CASE Launch BY <1>11 DEF Launch
<1>12. CASE CloseWriter BY <1>12 DEF CloseWriter
<1>13. CASE Connect BY <1>13 DEF Connect
<1>14. CASE LinkLost BY <1>14 DEF LinkLost, Leave
<1>15. CASE ScanLine BY <1>15 DEF ScanLine, Interrupted
<1>16. CASE Emit BY <1>16 DEF Emit
<1>17. CASE ScanFails BY <1>17 DEF ScanFails, StopScan, Leave, Interrupted
<1>18. CASE EmitFails BY <1>18 DEF EmitFails, StopScan, Leave
<1>19. CASE ScanEnds BY <1>19 DEF ScanEnds, EndOfOutput
<1>20. CASE Kill BY <1>20 DEF Kill, Alive
<1>21. CASE Reap BY <1>21 DEF Reap, Leave
<1>22. CASE Wait
  <2>1. PICK v \in {"done", "failed"} : Leave(v) BY <1>22 DEF Wait, Verdicts
  <2>2. pc = "wait" /\ UNCHANGED <<input, process, cancelled, line, emitted>>
    BY <1>22 DEF Wait
  <2> QED BY <2>1, <2>2 DEF Leave
<1>23. CASE WatcherKills
  <2>1. CutOff \/ UNCHANGED <<peer, pipe>> BY <1>23 DEF WatcherKills
  <2>2. pipe' \in Seq(0..lines) /\ Len(pipe') <= PipeCap BY <2>1, CutOffType
  <2> QED BY <1>23, <2>2 DEF WatcherKills
<1>24. CASE WatcherCloses
  <2>1. CutOff \/ UNCHANGED <<peer, pipe>> BY <1>24 DEF WatcherCloses
  <2>2. pipe' \in Seq(0..lines) /\ Len(pipe') <= PipeCap BY <2>1, CutOffType
  <2> QED BY <1>24, <2>2 DEF WatcherCloses
<1>25. CASE WatcherLeaves BY <1>25 DEF WatcherLeaves, Returned
<1>26. CASE UNCHANGED vars BY <1>26 DEF vars
<1> QED BY <1>1, <1>2, <1>3, <1>4, <1>5, <1>6, <1>7, <1>8, <1>9, <1>10, <1>11, <1>12, <1>13, <1>14, <1>15, <1>16, <1>17, <1>18, <1>19, <1>20, <1>21, <1>22, <1>23, <1>24, <1>25, <1>26 DEF Next, Peer, Server, Source, Watcher

(* Each phase is entered from one the handles of which are known. *)
LEMMA PhasesStep ==
  ASSUME TypeOK, TypeOK', Phases, [Next]_vars
  PROVE  Phases'
<1> USE StreamAssumption DEF TypeOK, Phases, Returned, Alive, input, process, handles
<1>1. CASE Cancel BY <1>1 DEF Cancel
<1>2. CASE PeerWrites BY <1>2 DEF PeerWrites, Reachable
<1>3. CASE PeerCloses BY <1>3 DEF PeerCloses, Reachable
<1>4. CASE PeerExits BY <1>4 DEF PeerExits, Reachable, Alive
<1>5. CASE PeerFails BY <1>5 DEF PeerFails, Reachable, CutOff, Alive
<1>6. CASE Handshaken BY <1>6 DEF Handshaken
<1>7. CASE SessionStarts BY <1>7 DEF SessionStarts
<1>8. CASE ServerRefuses BY <1>8 DEF ServerRefuses, Leave
<1>9. CASE Expire BY <1>9 DEF Expire
<1>10. CASE Refuse BY <1>10 DEF Refuse, Leave
<1>11. CASE Launch BY <1>11 DEF Launch
<1>12. CASE CloseWriter BY <1>12 DEF CloseWriter
<1>13. CASE Connect BY <1>13 DEF Connect
<1>14. CASE LinkLost BY <1>14 DEF LinkLost, Leave
<1>15. CASE ScanLine BY <1>15 DEF ScanLine, Interrupted
<1>16. CASE Emit BY <1>16 DEF Emit
<1>17. CASE ScanFails BY <1>17 DEF ScanFails, StopScan, Leave, Interrupted
<1>18. CASE EmitFails BY <1>18 DEF EmitFails, StopScan, Leave
<1>19. CASE ScanEnds BY <1>19 DEF ScanEnds, EndOfOutput
<1>20. CASE Kill BY <1>20 DEF Kill, Alive
<1>21. CASE Reap BY <1>21 DEF Reap, Leave, Dead
<1>22. CASE Wait BY <1>22 DEF Wait, Leave, Verdicts, Dead
<1>23. CASE WatcherKills BY <1>23 DEF WatcherKills, CutOff, Alive
<1>24. CASE WatcherCloses BY <1>24 DEF WatcherCloses, CutOff
<1>25. CASE WatcherLeaves BY <1>25 DEF WatcherLeaves, Returned
<1>26. CASE UNCHANGED vars BY <1>26 DEF vars
<1> QED BY <1>1, <1>2, <1>3, <1>4, <1>5, <1>6, <1>7, <1>8, <1>9, <1>10, <1>11, <1>12, <1>13, <1>14, <1>15, <1>16, <1>17, <1>18, <1>19, <1>20, <1>21, <1>22, <1>23, <1>24, <1>25, <1>26 DEF Next, Peer, Server, Source, Watcher

(* A source gives up on a peer that runs only for a cause. *)
LEMMA CausesStep ==
  ASSUME TypeOK, TypeOK', Phases, Causes, [Next]_vars
  PROVE  Causes'
<1> USE StreamAssumption DEF TypeOK, Phases, Causes, FailsForACause, Returned, Alive, input, process, handles
<1>1. CASE Cancel BY <1>1 DEF Cancel
<1>2. CASE PeerWrites BY <1>2 DEF PeerWrites, Reachable
<1>3. CASE PeerCloses BY <1>3 DEF PeerCloses, Reachable
<1>4. CASE PeerExits BY <1>4 DEF PeerExits, Reachable, Alive
<1>5. CASE PeerFails BY <1>5 DEF PeerFails, Reachable, CutOff, Alive
<1>6. CASE Handshaken BY <1>6 DEF Handshaken
<1>7. CASE SessionStarts BY <1>7 DEF SessionStarts
<1>8. CASE ServerRefuses BY <1>8 DEF ServerRefuses, Leave
<1>9. CASE Expire BY <1>9 DEF Expire
<1>10. CASE Refuse BY <1>10 DEF Refuse, Leave
<1>11. CASE Launch BY <1>11 DEF Launch
<1>12. CASE CloseWriter BY <1>12 DEF CloseWriter
<1>13. CASE Connect BY <1>13 DEF Connect
<1>14. CASE LinkLost BY <1>14 DEF LinkLost, Leave
<1>15. CASE ScanLine BY <1>15 DEF ScanLine, Interrupted
<1>16. CASE Emit BY <1>16 DEF Emit
<1>17. CASE ScanFails BY <1>17 DEF ScanFails, StopScan, Leave, Interrupted
<1>18. CASE EmitFails BY <1>18 DEF EmitFails, StopScan, Leave
<1>19. CASE ScanEnds BY <1>19 DEF ScanEnds, EndOfOutput
<1>20. CASE Kill BY <1>20 DEF Kill, Alive
<1>21. CASE Reap BY <1>21 DEF Reap, Leave, Dead
<1>22. CASE Wait BY <1>22 DEF Wait, Leave, Verdicts, Dead
<1>23. CASE WatcherKills BY <1>23 DEF WatcherKills, CutOff, Alive
<1>24. CASE WatcherCloses BY <1>24 DEF WatcherCloses, CutOff
<1>25. CASE WatcherLeaves BY <1>25 DEF WatcherLeaves, Returned
<1>26. CASE UNCHANGED vars BY <1>26 DEF vars
<1> QED BY <1>1, <1>2, <1>3, <1>4, <1>5, <1>6, <1>7, <1>8, <1>9, <1>10, <1>11, <1>12, <1>13, <1>14, <1>15, <1>16, <1>17, <1>18, <1>19, <1>20, <1>21, <1>22, <1>23, <1>24, <1>25, <1>26 DEF Next, Peer, Server, Source, Watcher

(* A line moves from the peer to the pipe, to emit and out. *)
LEMMA OrderStep ==
  ASSUME TypeOK, TypeOK', Phases, InOrder, AllWritten, Drained, [Next]_vars
  PROVE  InOrder'
<1> USE StreamAssumption DEF TypeOK, Phases, InOrder, AllWritten, Drained, Intact, Handed, Returned, input, process, handles
<1>1. CASE Cancel BY <1>1 DEF Cancel
<1>2. CASE PeerWrites
  <2>1. pipe \in Seq(0..lines) /\ wrote \in Nat BY DEF TypeOK
  <2>2. Len(pipe') = Len(pipe) + 1 /\ wrote' = wrote + 1
        /\ \A i \in 1..Len(pipe') : pipe'[i] = IF i = Len(pipe) + 1 THEN wrote + 1 ELSE pipe[i]
    BY <1>2, <2>1 DEF PeerWrites
  <2>3. UNCHANGED <<kind, lines, peer, pc, link, line, emitted>> BY <1>2 DEF PeerWrites
  <2>4. SUFFICES ASSUME Intact, peer = "running", pc \notin {"kill", "reap", "failed"}
                 PROVE  /\ Len(emitted) + Handed + Len(pipe') = wrote'
                        /\ \A i \in 1..Len(pipe') : pipe'[i] = Len(emitted) + Handed + i
    BY <1>2, <2>3 DEF PeerWrites
  <2>5. /\ Len(emitted) + Handed + Len(pipe) = wrote
        /\ \A i \in 1..Len(pipe) : pipe[i] = Len(emitted) + Handed + i
    BY <2>4
  <2>6. Len(emitted) \in Nat /\ Handed \in Nat /\ Len(pipe) \in Nat BY <2>1
  <2>7. ASSUME NEW i \in 1..Len(pipe') PROVE pipe'[i] = Len(emitted) + Handed + i
    <3>1. CASE i = Len(pipe) + 1
      <4>1. pipe'[i] = wrote + 1 BY <2>2, <3>1
      <4> HIDE DEF Handed, TypeOK, InOrder
      <4> QED BY <4>1, <2>1, <2>5, <2>6, <3>1
    <3>2. CASE i # Len(pipe) + 1
      <4>1. i \in 1..Len(pipe) BY <2>2, <2>6, <3>2
      <4> QED BY <4>1, <2>2, <2>5, <3>2
    <3> QED BY <3>1, <3>2
  <2>8. Len(emitted) + Handed + Len(pipe') = wrote'
    <3> HIDE DEF Handed, TypeOK, InOrder
    <3> QED BY <2>1, <2>2, <2>5, <2>6
  <2> QED BY <2>7, <2>8
<1>3. CASE PeerCloses BY <1>3 DEF PeerCloses, Reachable
<1>4. CASE PeerExits BY <1>4 DEF PeerExits, Reachable, Alive
<1>5. CASE PeerFails BY <1>5 DEF PeerFails, Reachable, CutOff, Alive
<1>6. CASE Handshaken BY <1>6 DEF Handshaken
<1>7. CASE SessionStarts BY <1>7 DEF SessionStarts
<1>8. CASE ServerRefuses BY <1>8 DEF ServerRefuses, Leave
<1>9. CASE Expire BY <1>9 DEF Expire
<1>10. CASE Refuse BY <1>10 DEF Refuse, Leave
<1>11. CASE Launch BY <1>11 DEF Launch
<1>12. CASE CloseWriter BY <1>12 DEF CloseWriter
<1>13. CASE Connect BY <1>13 DEF Connect
<1>14. CASE LinkLost BY <1>14 DEF LinkLost, Leave
<1>15. CASE ScanLine
  <2>1. pipe \in Seq(0..lines) /\ pipe # << >> /\ emitted \in Seq(0..lines) BY <1>15 DEF TypeOK, ScanLine
  <2>2. Len(pipe') = Len(pipe) - 1 /\ Len(pipe) >= 1 /\ line' = pipe[1]
        /\ \A i \in 1..Len(pipe') : pipe'[i] = pipe[i + 1]
    BY <1>15, <2>1 DEF ScanLine
  <2>3. UNCHANGED <<kind, wrote, peer, link, emitted>> /\ pc = "scan" /\ pc' = "emit"
    BY <1>15 DEF ScanLine
  <2>4. Len(emitted) \in Nat /\ Len(pipe) \in Nat BY <2>1
  <2>5. SUFFICES ASSUME Intact, peer \in {"none", "running", "quiet", "ok"}
                 PROVE  /\ Len(emitted) + 1 + Len(pipe') = wrote
                        /\ \A i \in 1..Len(emitted) : emitted[i] = i
                        /\ line' = Len(emitted) + 1
                        /\ \A i \in 1..Len(pipe') : pipe'[i] = Len(emitted) + 1 + i
    BY <2>3
  <2>6. /\ Len(emitted) + Len(pipe) = wrote
        /\ \A i \in 1..Len(emitted) : emitted[i] = i
        /\ \A i \in 1..Len(pipe) : pipe[i] = Len(emitted) + i
    BY <2>3, <2>4, <2>5
  <2>7. ASSUME NEW i \in 1..Len(pipe') PROVE pipe'[i] = Len(emitted) + 1 + i
    <3>1. i + 1 \in 1..Len(pipe) BY <2>2, <2>4
    <3>2. pipe'[i] = Len(emitted) + (i + 1) BY <3>1, <2>2, <2>6
    <3> QED BY <3>2, <2>4
  <2>8. Len(emitted) + 1 + Len(pipe') = wrote
    <3> HIDE DEF TypeOK, InOrder, Handed
    <3>1. Len(pipe') = Len(pipe) - 1 /\ Len(emitted) + Len(pipe) = wrote BY <2>2, <2>6
    <3> QED BY <3>1, <2>4
  <2>9. line' = Len(emitted) + 1
    <3>1. 1 \in 1..Len(pipe) /\ line' = pipe[1] BY <2>2, <2>4
    <3> QED BY <3>1, <2>6
  <2> QED BY <2>6, <2>7, <2>8, <2>9
<1>16. CASE Emit BY <1>16 DEF Emit
<1>17. CASE ScanFails BY <1>17 DEF ScanFails, StopScan, Leave, Interrupted
<1>18. CASE EmitFails BY <1>18 DEF EmitFails, StopScan, Leave
<1>19. CASE ScanEnds BY <1>19 DEF ScanEnds, EndOfOutput
<1>20. CASE Kill BY <1>20 DEF Kill, Alive
<1>21. CASE Reap BY <1>21 DEF Reap, Leave, Dead
<1>22. CASE Wait BY <1>22 DEF Wait, Leave, Verdicts, Dead
<1>23. CASE WatcherKills BY <1>23 DEF WatcherKills, CutOff, Alive
<1>24. CASE WatcherCloses BY <1>24 DEF WatcherCloses, CutOff
<1>25. CASE WatcherLeaves BY <1>25 DEF WatcherLeaves, Returned
<1>26. CASE UNCHANGED vars BY <1>26 DEF vars
<1> QED BY <1>1, <1>2, <1>3, <1>4, <1>5, <1>6, <1>7, <1>8, <1>9, <1>10, <1>11, <1>12, <1>13, <1>14, <1>15, <1>16, <1>17, <1>18, <1>19, <1>20, <1>21, <1>22, <1>23, <1>24, <1>25, <1>26 DEF Next, Peer, Server, Source, Watcher

(* Nothing is written any more when the scan has met the end. *)
LEMMA DrainedStep ==
  ASSUME TypeOK, TypeOK', Phases, AllWritten, Drained, [Next]_vars
  PROVE  AllWritten' /\ Drained'
<1> USE StreamAssumption DEF TypeOK, Phases, AllWritten, Drained, Returned, input, process, handles
<1>1. CASE Cancel BY <1>1 DEF Cancel
<1>2. CASE PeerWrites BY <1>2 DEF PeerWrites, Reachable
<1>3. CASE PeerCloses BY <1>3 DEF PeerCloses, Reachable
<1>4. CASE PeerExits BY <1>4 DEF PeerExits, Reachable, Alive
<1>5. CASE PeerFails BY <1>5 DEF PeerFails, Reachable, CutOff, Alive
<1>6. CASE Handshaken BY <1>6 DEF Handshaken
<1>7. CASE SessionStarts BY <1>7 DEF SessionStarts
<1>8. CASE ServerRefuses BY <1>8 DEF ServerRefuses, Leave
<1>9. CASE Expire BY <1>9 DEF Expire
<1>10. CASE Refuse BY <1>10 DEF Refuse, Leave
<1>11. CASE Launch BY <1>11 DEF Launch
<1>12. CASE CloseWriter BY <1>12 DEF CloseWriter
<1>13. CASE Connect BY <1>13 DEF Connect
<1>14. CASE LinkLost BY <1>14 DEF LinkLost, Leave
<1>15. CASE ScanLine BY <1>15 DEF ScanLine, Interrupted
<1>16. CASE Emit BY <1>16 DEF Emit
<1>17. CASE ScanFails BY <1>17 DEF ScanFails, StopScan, Leave, Interrupted
<1>18. CASE EmitFails BY <1>18 DEF EmitFails, StopScan, Leave
<1>19. CASE ScanEnds BY <1>19 DEF ScanEnds, EndOfOutput
<1>20. CASE Kill BY <1>20 DEF Kill, Alive
<1>21. CASE Reap BY <1>21 DEF Reap, Leave, Dead
<1>22. CASE Wait BY <1>22 DEF Wait, Leave, Verdicts, Dead
<1>23. CASE WatcherKills BY <1>23 DEF WatcherKills, CutOff, Alive
<1>24. CASE WatcherCloses BY <1>24 DEF WatcherCloses, CutOff
<1>25. CASE WatcherLeaves BY <1>25 DEF WatcherLeaves, Returned
<1>26. CASE UNCHANGED vars BY <1>26 DEF vars
<1> QED BY <1>1, <1>2, <1>3, <1>4, <1>5, <1>6, <1>7, <1>8, <1>9, <1>10, <1>11, <1>12, <1>13, <1>14, <1>15, <1>16, <1>17, <1>18, <1>19, <1>20, <1>21, <1>22, <1>23, <1>24, <1>25, <1>26 DEF Next, Peer, Server, Source, Watcher

(* What the pipe holds after a write.                                      *)
LEMMA WriteFact ==
  ASSUME NEW S, NEW q \in Seq(S), NEW e
  PROVE  /\ Len(Append(q, e)) = Len(q) + 1
         /\ \A i \in 1..(Len(q) + 1) : Append(q, e)[i] = IF i = Len(q) + 1 THEN e ELSE q[i]
<1> DEFINE T == S \cup {e}
<1>1. q \in Seq(T) /\ e \in T
  BY SeqMonotonic
<1> HIDE DEF T
<1>2. /\ Len(Append(q, e)) = Len(q) + 1
      /\ \A i \in 1..Len(q) : Append(q, e)[i] = q[i]
      /\ Append(q, e)[Len(q) + 1] = e
  BY <1>1, AppendProperties
<1>3. Len(q) \in Nat
  BY LenProperties
<1>4. \A i \in 1..(Len(q) + 1) : i = Len(q) + 1 \/ i \in 1..Len(q)
  BY <1>3
<1> QED BY <1>2, <1>3, <1>4

(* A fragment of a killed child stays in the pipe. *)
LEMMA UntornStep ==
  ASSUME TypeOK, TypeOK', Phases, Causes, Untorn, [Next]_vars
  PROVE  Untorn'
<1>0. PeerWrites /\ (\A i \in 1..Len(pipe) : pipe[i] # Torn) => \A i \in 1..Len(pipe') : pipe'[i] # Torn
  <2> SUFFICES ASSUME PeerWrites, \A i \in 1..Len(pipe) : pipe[i] # Torn, NEW i \in 1..Len(pipe')
               PROVE  pipe'[i] # Torn
    OBVIOUS
  <2>1. pipe' = Append(pipe, wrote + 1) BY DEF PeerWrites
  <2>2. pipe \in Seq(0..lines) /\ wrote + 1 # Torn BY DEF TypeOK, Torn
  <2>3. i \in 1..(Len(pipe) + 1) /\ pipe'[i] = IF i = Len(pipe) + 1 THEN wrote + 1 ELSE pipe[i]
    BY <2>1, <2>2, WriteFact
  <2>4. Len(pipe) \in Nat BY <2>2, LenProperties
  <2>5. i # Len(pipe) + 1 => i \in 1..Len(pipe) BY <2>3, <2>4
  <2> QED BY <2>2, <2>3, <2>5
<1> USE StreamAssumption DEF TypeOK, Phases, Causes, Untorn, input, process, handles
<1>1. CASE Cancel BY <1>1 DEF Cancel
<1>2. CASE PeerWrites
  <2>1. UNCHANGED <<kind, peer, pc, line, cancelled, emitted>> BY <1>2 DEF PeerWrites
  <2> QED BY <1>0, <1>2, <2>1
<1>3. CASE PeerCloses BY <1>3 DEF PeerCloses, Reachable
<1>4. CASE PeerExits BY <1>4 DEF PeerExits, Reachable, Alive
<1>5. CASE PeerFails BY <1>5 DEF PeerFails, Reachable, CutOff, Alive
<1>6. CASE Handshaken BY <1>6 DEF Handshaken
<1>7. CASE SessionStarts BY <1>7 DEF SessionStarts
<1>8. CASE ServerRefuses BY <1>8 DEF ServerRefuses, Leave
<1>9. CASE Expire BY <1>9 DEF Expire
<1>10. CASE Refuse BY <1>10 DEF Refuse, Leave
<1>11. CASE Launch BY <1>11 DEF Launch
<1>12. CASE CloseWriter BY <1>12 DEF CloseWriter
<1>13. CASE Connect BY <1>13 DEF Connect
<1>14. CASE LinkLost BY <1>14 DEF LinkLost, Leave
<1>15. CASE ScanLine BY <1>15 DEF ScanLine, Interrupted
<1>16. CASE Emit BY <1>16 DEF Emit
<1>17. CASE ScanFails BY <1>17 DEF ScanFails, StopScan, Leave, Interrupted
<1>18. CASE EmitFails BY <1>18 DEF EmitFails, StopScan, Leave
<1>19. CASE ScanEnds BY <1>19 DEF ScanEnds, EndOfOutput
<1>20. CASE Kill BY <1>20 DEF Kill, Alive
<1>21. CASE Reap BY <1>21 DEF Reap, Leave, Dead
<1>22. CASE Wait BY <1>22 DEF Wait, Leave, Verdicts, Dead
<1>23. CASE WatcherKills BY <1>23 DEF WatcherKills, CutOff, Alive
<1>24. CASE WatcherCloses BY <1>24 DEF WatcherCloses, CutOff
<1>25. CASE WatcherLeaves BY <1>25 DEF WatcherLeaves, Returned
<1>26. CASE UNCHANGED vars BY <1>26 DEF vars
<1> QED BY <1>1, <1>2, <1>3, <1>4, <1>5, <1>6, <1>7, <1>8, <1>9, <1>10, <1>11, <1>12, <1>13, <1>14, <1>15, <1>16, <1>17, <1>18, <1>19, <1>20, <1>21, <1>22, <1>23, <1>24, <1>25, <1>26 DEF Next, Peer, Server, Source, Watcher
--------------------------------------------------------------------------------
(* All of the above holds in every state of a stream.                      *)
THEOREM StreamInvariant == Spec => []StreamInv
<1>1. Init => StreamInv
  <2> USE StreamAssumption DEF Init
  <2>1. Init => TypeOK
    <3>1. << >> \in Seq(0..lines) /\ Len(<< >>) = 0 OBVIOUS
    <3>2. Init => wrote \in 0..lines /\ line \in 0..lines BY DEF Torn
    <3>3. Init => pipe \in Seq(0..lines) /\ Len(pipe) = 0 /\ emitted \in Seq(0..lines)
      BY <3>1
    <3>4. Init => Len(pipe) <= PipeCap BY <3>3
    <3>5. Init => kind \in {"command", "ssh"} /\ lines \in 0..MaxLines /\ overlong \in 1..(lines + 1)
      OBVIOUS
    <3> HIDE DEF Init
    <3>6. Init => peer = "none" /\ pc = "start" /\ link = "none" /\ watcher = "none"
                  /\ writer = FALSE /\ deadline = FALSE /\ cancelled = FALSE
      BY DEF Init
    <3> QED BY <3>2, <3>3, <3>4, <3>5, <3>6 DEF TypeOK
  <2>2. Init => Phases BY DEF Phases, Returned
  <2>3. Init => Causes BY DEF Causes, FailsForACause
  <2>4. Init => InOrder /\ AllWritten BY DEF InOrder, AllWritten, Handed
  <2>5. Init => Drained /\ Untorn BY DEF Drained, Untorn
  <2> QED BY <2>1, <2>2, <2>3, <2>4, <2>5 DEF StreamInv
<1>2. StreamInv /\ [Next]_vars => StreamInv'
  <2> SUFFICES ASSUME StreamInv, [Next]_vars PROVE StreamInv' OBVIOUS
  <2>1. TypeOK' BY TypeStep DEF StreamInv
  <2>2. Phases' /\ Causes' BY <2>1, PhasesStep, CausesStep DEF StreamInv
  <2>3. InOrder' /\ AllWritten' /\ Drained' BY <2>1, OrderStep, DrainedStep DEF StreamInv
  <2>4. Untorn' BY <2>1, UntornStep DEF StreamInv
  <2> QED BY <2>1, <2>2, <2>3, <2>4 DEF StreamInv
<1> QED BY <1>1, <1>2, PTL DEF Spec

(* read.go 215-223, ssh.go 78-86: a source that succeeds has emitted the   *)
(* whole output, for every number of lines and every size of the pipe.     *)
THEOREM SuccessIsTheWholeOutput == Spec => []SuccessIsWhole
<1>1. StreamInv => SuccessIsWhole
  <2> SUFFICES ASSUME StreamInv, pc = "done"
               PROVE  /\ peer = "ok" /\ Len(emitted) = lines
                      /\ \A i \in 1..lines : emitted[i] = i
    BY DEF SuccessIsWhole
  <2>1. peer = "ok" /\ Len(pipe) = 0 /\ wrote = lines
    BY DEF StreamInv, Drained, AllWritten
  <2>2. Len(emitted) + 0 + Len(pipe) = wrote /\ \A i \in 1..Len(emitted) : emitted[i] = i
    BY <2>1 DEF StreamInv, InOrder, Intact, Handed
  <2>3. Len(emitted) \in Nat BY DEF StreamInv, TypeOK
  <2> QED BY <2>1, <2>2, <2>3
<1> QED BY <1>1, StreamInvariant, PTL

(* read.go 67-69, 201: what a kill cut off is never emitted.               *)
THEOREM KilledLinesAreDropped == Spec => []KillTearsNothing
<1>1. StreamInv => KillTearsNothing
  BY DEF StreamInv, Untorn, KillTearsNothing, TypeOK
<1> QED BY <1>1, StreamInvariant, PTL

(* ssh.go 50-55: no source fails without a cause once its peer runs.       *)
THEOREM NoFalseAlarm == Spec => []FailsForACause
<1>1. StreamInv => FailsForACause BY DEF StreamInv, Causes
<1> QED BY <1>1, StreamInvariant, PTL

(* read.go 207-219, ssh.go 40-62: nothing outlives its source.             *)
THEOREM LeavesNothing == Spec => []NothingLeft
<1>1. StreamInv => NothingLeft
  BY DEF StreamInv, Phases, TypeOK, NothingLeft, Returned
<1> QED BY <1>1, StreamInvariant, PTL
--------------------------------------------------------------------------------
(* The readers of archives: the text of an archive is well defined, each  *)
(* step continues it, and what the reader remembers of the last byte is    *)
(* what separates two members.                                             *)
Char == Nat \X {"x", "nl"}

(* Where the reader is.                                                    *)
Placed ==
  /\ files \in Archives /\ index \in 0..Len(files) /\ active \in BOOLEAN
  /\ read \in Nat /\ had \in BOOLEAN /\ last \in {"x", "nl"}
  /\ out \in Seq(Char) /\ state \in {"reading", "eof", "failed"}
  /\ active => /\ index # 0 /\ files[index].regular /\ files[index].fault # "open"
               /\ read <= Len(files[index].data)
               /\ had <=> read # 0
               /\ had => last = files[index].data[read]
  /\ state = "eof" => ~active /\ index = Len(files)

(* What it has returned: the text of the members it is done with and what  *)
(* it read of the open one.                                                *)
Streamed ==
  /\ active => out = TextUpTo[index - 1] \o SubSeq(Bytes(index), 1, read)
  /\ ~active => out = TextUpTo[index]

(* The members it is done with had no fault.                               *)
Sound ==
  \A m \in 1..index : files[m].regular /\ (active => m # index) => files[m].fault = "none"

(* What it remembers of the end of the stream.                             *)
Remembered ==
  /\ active /\ had => out # << >> /\ out[Len(out)] = <<index, last>>
  /\ out # << >> /\ ~(active /\ had) => out[Len(out)][2] = "nl"

ArchiveInv == Placed /\ Streamed /\ Sound /\ Remembered /\ MembersSeparated
--------------------------------------------------------------------------------
(* Texts can be regrouped.                                                 *)
LEMMA Concat3 ==
  ASSUME NEW u \in Seq(Char), NEW v \in Seq(Char), NEW w \in Seq(Char)
  PROVE  v \o w \in Seq(Char) /\ (u \o v) \o w = u \o (v \o w)
BY ConcatProperties, ConcatAssociative

(* The recursion of TextUpTo is well founded.                              *)
TextStep(t, k) == IF k = 0 THEN << >> ELSE t[k - 1] \o Text(k)

LEMMA TextDefined ==
  ASSUME NEW n \in Nat
  PROVE  \E t : t = [k \in 0..n |-> TextStep(t, k)]
<1> DEFINE G == {m \in Nat : \E t : t = [k \in 0..m |-> TextStep(t, k)]}
<1>1. 0 \in G
  <2> DEFINE t == [k \in 0..0 |-> << >>]
  <2>1. \A k \in 0..0 : TextStep(t, k) = << >>
    BY DEF TextStep
  <2>2. t = [k \in 0..0 |-> TextStep(t, k)]
    BY <2>1
  <2> QED BY <2>2
<1>2. ASSUME NEW m \in 1..n, m - 1 \in G PROVE m \in G
  <2>1. PICK t : t = [k \in 0..(m - 1) |-> TextStep(t, k)]
    BY <1>2
  <2> DEFINE h == [k \in 0..m |-> IF k = m THEN TextStep(t, m) ELSE t[k]]
  <2>2. \A k \in 0..m : k # m => k \in 0..(m - 1) /\ h[k] = t[k] /\ (k # 0 => k - 1 \in 0..m /\ k - 1 # m)
    OBVIOUS
  <2>3. m - 1 \in 0..m /\ m - 1 # m /\ m # 0 /\ m \in 0..m /\ h[m] = TextStep(t, m)
    OBVIOUS
  <2>4. \A k \in 0..(m - 1) : t[k] = TextStep(t, k)
    BY <2>1
  <2> HIDE DEF h
  <2>5. h[m] = TextStep(h, m)
    BY <2>2, <2>3 DEF TextStep
  <2>6. ASSUME NEW k \in 0..m, k # m PROVE h[k] = TextStep(h, k)
    <3>1. h[k] = TextStep(t, k)
      BY <2>2, <2>4, <2>6
    <3>2. k # 0 => h[k - 1] = t[k - 1]
      BY <2>2, <2>6
    <3> QED BY <3>1, <3>2 DEF TextStep
  <2>7. \A k \in 0..m : h[k] = TextStep(h, k)
    BY <2>5, <2>6
  <2>8. h = [k \in 0..m |-> TextStep(h, k)]
    BY <2>7 DEF h
  <2> QED BY <2>8
<1>3. 0..n \subseteq G
  <2> HIDE DEF G
  <2> QED BY <1>1, <1>2, PrefixInduction
<1> QED BY <1>3

(* The members are appended one after the other.                           *)
LEMMA TextFact ==
  ASSUME Len(files) \in Nat
  PROVE  /\ TextUpTo[0] = << >>
         /\ \A k \in 1..Len(files) : TextUpTo[k] = TextUpTo[k - 1] \o Text(k)
<1> DEFINE n == Len(files)
           t == CHOOSE t : t = [k \in 0..n |-> TextStep(t, k)]
<1>1. TextUpTo = t
  BY Zenon DEF TextUpTo, TextStep
<1>2. t = [k \in 0..n |-> TextStep(t, k)]
  BY TextDefined
<1> HIDE DEF t, n
<1>3. \A k \in 0..n : t[k] = TextStep(t, k)
  BY <1>2
<1>4. 0 \in 0..n /\ \A k \in 1..n : k \in 0..n /\ k # 0
  BY DEF n
<1> QED BY <1>1, <1>3, <1>4 DEF TextStep, n

(* The members of an archive, one by one.                                  *)
LEMMA FileFact ==
  ASSUME files \in Archives
  PROVE  /\ Len(files) \in Nat /\ DOMAIN files = 1..Len(files)
         /\ \A m \in 1..Len(files) :
              /\ files[m].regular \in BOOLEAN /\ files[m].data \in Seq({"x", "nl"})
              /\ files[m].fault \in {"none", "open", "read"}
              /\ Len(files[m].data) \in Nat /\ DOMAIN files[m].data = 1..Len(files[m].data)
<1>1. files \in Seq(Members)
  BY ArchiveAssumption
<1>2. Len(files) \in Nat /\ DOMAIN files = 1..Len(files)
      /\ \A m \in 1..Len(files) : files[m] \in Members
  BY <1>1, LenProperties, ElementOfSeq
<1>3. ASSUME NEW m \in 1..Len(files)
      PROVE  /\ files[m].regular \in BOOLEAN /\ files[m].data \in Seq({"x", "nl"})
             /\ files[m].fault \in {"none", "open", "read"}
  BY <1>2 DEF Members
<1> QED BY <1>2, <1>3, LenProperties

(* The bytes of a member, and the text it adds.                            *)
LEMMA BytesFact ==
  ASSUME files \in Archives, NEW m \in 1..Len(files)
  PROVE  /\ Bytes(m) \in Seq(Char) /\ Len(Bytes(m)) = Len(files[m].data)
         /\ \A i \in 1..Len(files[m].data) : Bytes(m)[i] = <<m, files[m].data[i]>>
<1> DEFINE d == files[m].data
<1>1. d \in Seq({"x", "nl"}) /\ Len(d) \in Nat /\ DOMAIN d = 1..Len(d) /\ m \in Nat
  BY FileFact
<1>2. \A i \in 1..Len(d) : d[i] \in {"x", "nl"}
  BY <1>1, ElementOfSeq
<1>3. Bytes(m) = [i \in 1..Len(d) |-> <<m, d[i]>>]
  BY <1>1 DEF Bytes
<1> HIDE DEF d
<1>4. \A i \in 1..Len(d) : <<m, d[i]>> \in Char
  BY <1>1, <1>2 DEF Char
<1>5. [i \in 1..Len(d) |-> <<m, d[i]>>] \in [1..Len(d) -> Char]
  BY <1>4
<1>6. Bytes(m) \in Seq(Char) /\ Len(Bytes(m)) = Len(d)
  BY <1>1, <1>3, <1>5
<1> QED BY <1>3, <1>6 DEF d

(* The text of one member, and that of the first ones.                     *)
LEMMA TextType ==
  ASSUME files \in Archives, NEW m \in 1..Len(files)
  PROVE  Text(m) \in Seq(Char)
<1>1. Bytes(m) \in Seq(Char) /\ <<0, "nl">> \in Char
  BY BytesFact DEF Char
<1>2. Append(Bytes(m), <<0, "nl">>) \in Seq(Char) /\ << >> \in Seq(Char)
  BY <1>1, AppendProperties, EmptySeq
<1> QED BY <1>1, <1>2 DEF Text

LEMMA TextUpToType ==
  ASSUME files \in Archives
  PROVE  \A k \in 0..Len(files) : TextUpTo[k] \in Seq(Char)
<1> DEFINE G == {k \in 0..Len(files) : TextUpTo[k] \in Seq(Char)}
<1>1. Len(files) \in Nat
  BY FileFact
<1>2. 0 \in G
  <2>1. TextUpTo[0] = << >>
    BY <1>1, TextFact
  <2>2. << >> \in Seq(Char)
    BY EmptySeq
  <2>3. 0 \in 0..Len(files) /\ TextUpTo[0] \in Seq(Char)
    BY <1>1, <2>1, <2>2
  <2> QED BY <2>3
<1>3. ASSUME NEW b \in 1..Len(files), b - 1 \in G PROVE b \in G
  <2>1. TextUpTo[b - 1] \in Seq(Char) /\ Text(b) \in Seq(Char)
    BY <1>3, TextType
  <2>2. TextUpTo[b] = TextUpTo[b - 1] \o Text(b)
    BY <1>1, TextFact
  <2>3. TextUpTo[b] \in Seq(Char)
    BY <2>1, <2>2, ConcatProperties
  <2> QED BY <1>1, <2>3
<1> HIDE DEF G
<1>4. 0..Len(files) \subseteq G
  BY <1>1, <1>2, <1>3, PrefixInduction
<1> QED BY <1>4 DEF G

(* The text up to a member is a prefix of the text of the archive.         *)
LEMMA TextGrows ==
  ASSUME files \in Archives, NEW k \in 0..Len(files)
  PROVE  \E s \in Seq(Char) : TextUpTo[Len(files)] = TextUpTo[k] \o s
<1> DEFINE n == Len(files)
           Grows(j) == \E s \in Seq(Char) : TextUpTo[n] = TextUpTo[j] \o s
           G == {b \in 0..n : Grows(n - b)}
<1>1. n \in Nat /\ \A j \in 0..n : TextUpTo[j] \in Seq(Char)
  BY FileFact, TextUpToType
<1>2. 0 \in G
  <2>1. << >> \in Seq(Char) /\ TextUpTo[n] = TextUpTo[n] \o << >>
    BY <1>1, EmptySeq, ConcatEmptySeq
  <2>2. Grows(n)
    BY <2>1
  <2> HIDE DEF Grows
  <2> QED BY <1>1, <2>2
<1>3. ASSUME NEW b \in 1..n, b - 1 \in G PROVE b \in G
  <2> DEFINE j == n - b
  <2>1. j \in 0..n /\ j + 1 \in 1..n /\ n - (b - 1) = j + 1 /\ (j + 1) - 1 = j /\ b \in 0..n
    BY <1>1
  <2>2. Grows(j + 1)
    <3> HIDE DEF Grows
    <3> QED BY <1>3, <2>1
  <2> HIDE DEF j
  <2>3. PICK s \in Seq(Char) : TextUpTo[n] = TextUpTo[j + 1] \o s
    BY <2>2
  <2>4. TextUpTo[j + 1] = TextUpTo[j] \o Text(j + 1) /\ Text(j + 1) \in Seq(Char)
    BY <1>1, <2>1, TextFact, TextType
  <2>5. Text(j + 1) \o s \in Seq(Char) /\ TextUpTo[n] = TextUpTo[j] \o (Text(j + 1) \o s)
    <3> DEFINE u == TextUpTo[j]
               v == Text(j + 1)
    <3>1. u \in Seq(Char) /\ v \in Seq(Char) /\ TextUpTo[n] = (u \o v) \o s
      BY <1>1, <2>1, <2>3, <2>4
    <3> HIDE DEF u, v
    <3>2. v \o s \in Seq(Char) /\ (u \o v) \o s = u \o (v \o s)
      BY <3>1, Concat3
    <3> QED BY <3>1, <3>2 DEF u, v
  <2>6. Grows(j)
    BY <2>5
  <2> HIDE DEF Grows
  <2> QED BY <2>1, <2>6 DEF j
<1> HIDE DEF G
<1>4. 0..n \subseteq G
  BY <1>1, <1>2, <1>3, PrefixInduction
<1>5. n - k \in 0..n /\ n - (n - k) = k
  BY <1>1
<1>6. n - k \in G
  BY <1>4, <1>5
<1>7. Grows(n - (n - k))
  BY <1>6 DEF G
<1> QED BY <1>5, <1>7

(* What is left of the open member completes its text.                     *)
LEMMA TextOpen ==
  ASSUME files \in Archives, NEW m \in 1..Len(files), files[m].regular,
         NEW r \in 0..Len(files[m].data)
  PROVE  /\ SubSeq(Bytes(m), 1, r) \in Seq(Char)
         /\ \E s \in Seq(Char) : Text(m) = SubSeq(Bytes(m), 1, r) \o s
<1> DEFINE b == Bytes(m)
           n == Len(files[m].data)
<1>1. b \in Seq(Char) /\ Len(b) = n /\ n \in Nat
  BY BytesFact, FileFact
<1> HIDE DEF b, n
<1>2. r \in 0..n /\ r \in Nat
  BY DEF n
<1>3. \A i \in 1..n : b[i] \in Char
  BY <1>1, ElementOfSeq
<1>4. SubSeq(b, 1, r) \in Seq(Char) /\ SubSeq(b, r + 1, n) \in Seq(Char)
  <2>1. (\A i \in 1..r : b[i] \in Char) /\ (\A i \in (r + 1)..n : b[i] \in Char)
    BY <1>1, <1>2, <1>3
  <2>2. 1 \in Int /\ r \in Int /\ r + 1 \in Int /\ n \in Int
    BY <1>1, <1>2
  <2> QED BY <2>1, <2>2, SubSeqProperties
<1>5. SubSeq(b, 1, r) \o SubSeq(b, r + 1, n) = b
  <2>1. 1 \in 1..(Len(b) + 1) /\ r \in (1 - 1)..Len(b) /\ n \in r..Len(b)
    BY <1>1, <1>2
  <2>2. SubSeq(b, 1, r) \o SubSeq(b, r + 1, n) = SubSeq(b, 1, n)
    BY <1>1, <2>1, ConcatAdjacentSubSeq
  <2> QED BY <1>1, <2>2, SubSeqFull
<1>6. CASE Text(m) = b
  BY <1>4, <1>5, <1>6 DEF b
<1>7. CASE Text(m) = Append(b, <<0, "nl">>)
  <2> DEFINE e == << <<0, "nl">> >>
  <2>1. <<0, "nl">> \in Char /\ e \in Seq(Char)
    BY DEF Char
  <2>2. Text(m) = b \o e
    BY <1>1, <1>7, <2>1, AppendIsConcat
  <2> HIDE DEF e
  <2>3. Text(m) = SubSeq(b, 1, r) \o (SubSeq(b, r + 1, n) \o e)
        /\ SubSeq(b, r + 1, n) \o e \in Seq(Char)
    <3> DEFINE u == SubSeq(b, 1, r)
               v == SubSeq(b, r + 1, n)
    <3>1. u \in Seq(Char) /\ v \in Seq(Char) /\ Text(m) = (u \o v) \o e
      BY <1>4, <1>5, <2>2
    <3> HIDE DEF u, v
    <3>2. v \o e \in Seq(Char) /\ (u \o v) \o e = u \o (v \o e)
      BY <2>1, <3>1, Concat3
    <3> QED BY <3>1, <3>2 DEF u, v
  <2> QED BY <1>4, <2>3 DEF b
<1>8. Text(m) = b \/ Text(m) = Append(b, <<0, "nl">>)
  BY DEF Text, b
<1> QED BY <1>6, <1>7, <1>8
--------------------------------------------------------------------------------
(* Where the reader stands in the open member.                             *)
LEMMA PlacedFact ==
  ASSUME Placed, active
  PROVE  /\ index \in 1..Len(files) /\ index - 1 \in 0..Len(files) /\ index \in Nat
         /\ files[index].data \in Seq({"x", "nl"}) /\ Len(files[index].data) \in Nat
         /\ DOMAIN files[index].data = 1..Len(files[index].data)
         /\ \A i \in 1..Len(files[index].data) : files[index].data[i] \in {"x", "nl"}
         /\ read \in 0..Len(files[index].data)
<1>1. files \in Archives /\ index \in 0..Len(files) /\ index # 0 /\ read \in Nat
      /\ read <= Len(files[index].data)
  BY DEF Placed
<1>2. Len(files) \in Nat
  BY <1>1, FileFact
<1>3. index \in 1..Len(files) /\ index - 1 \in 0..Len(files) /\ index \in Nat
  BY <1>1, <1>2
<1>4. /\ files[index].data \in Seq({"x", "nl"}) /\ Len(files[index].data) \in Nat
      /\ DOMAIN files[index].data = 1..Len(files[index].data)
  BY <1>1, <1>3, FileFact
<1>5. \A i \in 1..Len(files[index].data) : files[index].data[i] \in {"x", "nl"}
  BY <1>4, ElementOfSeq
<1>6. read \in 0..Len(files[index].data)
  BY <1>1, <1>4
<1> QED BY <1>3, <1>4, <1>5, <1>6

(* A directory adds nothing to the text, a file that is not read yet       *)
(* nothing so far.                                                         *)
LEMMA SkipStep ==
  ASSUME ArchiveInv, Skip
  PROVE  ArchiveInv'
<1>1. /\ state = "reading" /\ ~active /\ index < Len(files) /\ ~files[index + 1].regular
      /\ index' = index + 1
      /\ UNCHANGED <<files, active, read, had, last, out, state>>
      /\ Placed /\ Streamed /\ Sound /\ Remembered /\ MembersSeparated
  BY DEF Skip, ArchiveInv
<1>2. files \in Archives /\ Len(files) \in Nat /\ index \in 0..Len(files)
  BY <1>1, FileFact DEF Placed
<1>3. index + 1 \in 1..Len(files) /\ (index + 1) - 1 = index
  BY <1>1, <1>2
<1>4. Placed'
  BY <1>1, <1>3 DEF Placed
<1>5. Streamed'
  <2>1. TextUpTo[index + 1] = TextUpTo[index] \o << >>
    BY <1>1, <1>2, <1>3, TextFact DEF Text
  <2>2. TextUpTo[index] \in Seq(Char)
    BY <1>2, TextUpToType
  <2>3. TextUpTo[index + 1] = TextUpTo[index]
    BY <2>1, <2>2, ConcatEmptySeq
  <2>4. TextUpTo' = TextUpTo
    BY <1>1 DEF TextUpTo, Text, Bytes
  <2> HIDE DEF TextUpTo
  <2> QED BY <1>1, <2>3, <2>4 DEF Streamed
<1>6. Sound'
  <2> SUFFICES ASSUME NEW m \in 1..(index + 1), files[m].regular PROVE files[m].fault = "none"
    BY <1>1 DEF Sound
  <2>1. m \in 1..index
    BY <1>1, <1>2
  <2> QED BY <1>1, <2>1 DEF Sound
<1>7. Remembered' /\ MembersSeparated'
  BY <1>1 DEF Remembered, MembersSeparated
<1> QED BY <1>4, <1>5, <1>6, <1>7 DEF ArchiveInv

(* A member is opened: nothing of it is in the stream yet.                 *)
LEMMA OpenStep ==
  ASSUME ArchiveInv, OpenMember
  PROVE  ArchiveInv'
<1>1. /\ state = "reading" /\ ~active /\ index < Len(files)
      /\ files[index + 1].regular /\ files[index + 1].fault # "open"
      /\ index' = index + 1 /\ active' = TRUE /\ read' = 0 /\ had' = FALSE
      /\ UNCHANGED <<files, last, out, state>>
      /\ Placed /\ Streamed /\ Sound /\ Remembered /\ MembersSeparated
  BY DEF OpenMember, ArchiveInv
<1>2. files \in Archives /\ Len(files) \in Nat /\ index \in 0..Len(files)
  BY <1>1, FileFact DEF Placed
<1>3. index + 1 \in 1..Len(files) /\ (index + 1) - 1 = index /\ index + 1 # 0
  BY <1>1, <1>2
<1>4. Placed'
  <2>1. Len(files[index + 1].data) \in Nat
    BY <1>2, <1>3, FileFact
  <2>2. 0 <= Len(files[index + 1].data) /\ 0 \in Nat
    BY <2>1
  <2>3. index + 1 \in 0..Len(files)
    BY <1>2, <1>3
  <2> QED BY <1>1, <1>3, <2>2, <2>3 DEF Placed
<1>5. Streamed'
  <2>1. SubSeq(Bytes(index + 1), 1, 0) = << >>
    BY SubSeqEmpty
  <2>2. TextUpTo[index] \in Seq(Char)
    BY <1>2, TextUpToType
  <2>3. TextUpTo[index] \o << >> = TextUpTo[index]
    BY <2>2, ConcatEmptySeq
  <2>4. TextUpTo' = TextUpTo
    BY <1>1 DEF TextUpTo, Text, Bytes
  <2>5. Bytes(index)' = Bytes(index + 1)
    BY <1>1 DEF Bytes
  <2> QED BY <1>1, <1>3, <2>1, <2>3, <2>4, <2>5 DEF Streamed
<1>6. Sound'
  <2> SUFFICES ASSUME NEW m \in 1..(index + 1), files[m].regular, m # index + 1
               PROVE  files[m].fault = "none"
    BY <1>1 DEF Sound
  <2>1. m \in 1..index
    BY <1>2
  <2> QED BY <1>1, <2>1 DEF Sound
<1>7. Remembered' /\ MembersSeparated'
  BY <1>1 DEF Remembered, MembersSeparated
<1> QED BY <1>4, <1>5, <1>6, <1>7 DEF ArchiveInv

(* The reader stops. *)
LEMMA StopStep ==
  ASSUME ArchiveInv, OpenFails \/ EndOfArchive \/ ReadFails \/ UNCHANGED archiveVars
  PROVE  ArchiveInv'
<1>1. /\ UNCHANGED <<files, index, active, read, had, last, out>>
      /\ state' \in {"reading", "eof", "failed"} /\ (state' = "eof" => ~active /\ index = Len(files))
  BY DEF ArchiveInv, Placed, OpenFails, EndOfArchive, ReadFails, archiveVars
<1>2. Placed'
  BY <1>1 DEF ArchiveInv, Placed
<1>3. Streamed'
  <2>1. TextUpTo' = TextUpTo /\ Bytes(index)' = Bytes(index)
    BY <1>1 DEF TextUpTo, Text, Bytes
  <2> QED BY <1>1, <2>1 DEF ArchiveInv, Streamed
<1>4. Sound' /\ Remembered' /\ MembersSeparated'
  BY <1>1 DEF ArchiveInv, Sound, Remembered, MembersSeparated
<1> QED BY <1>2, <1>3, <1>4 DEF ArchiveInv

(* A read continues the text of the open member.                           *)
LEMMA ReadStep ==
  ASSUME ArchiveInv, NEW n \in 1..MaxRead, ReadSome(n)
  PROVE  ArchiveInv'
<1> DEFINE d == files[index].data
           r == read + n
           more == [i \in 1..n |-> <<index, d[read + i]>>]
           b == Bytes(index)
<1>1. /\ state = "reading" /\ active /\ n <= Len(d) - read
      /\ read' = r /\ had' = TRUE
      /\ UNCHANGED <<files, index, active, state>>
      /\ Placed /\ Streamed /\ Sound /\ Remembered /\ MembersSeparated
  BY DEF ReadSome, Rest, ArchiveInv
<1>2. /\ index \in 1..Len(files) /\ index - 1 \in 0..Len(files) /\ index \in Nat
      /\ d \in Seq({"x", "nl"}) /\ Len(d) \in Nat /\ DOMAIN d = 1..Len(d)
      /\ \A i \in 1..Len(d) : d[i] \in {"x", "nl"}
      /\ read \in 0..Len(d) /\ files \in Archives /\ out \in Seq(Char) /\ Len(out) \in Nat
      /\ DOMAIN out = 1..Len(out)
  BY <1>1, PlacedFact, LenProperties DEF Placed
<1>3. n \in Nat \ {0} /\ r \in 1..Len(d) /\ r \in 0..Len(d) /\ r # 0
      /\ \A i \in 1..n : read + i \in 1..Len(d)
  BY <1>1, <1>2, ArchiveAssumption
<1>4. out' = out \o more /\ last' = d[r]
  <2> DEFINE data == SubSeq(d, read + 1, read + n)
  <2>1. out' = out \o [i \in 1..n |-> <<index, data[i]>>] /\ last' = data[n]
    BY DEF ReadSome
  <2>2. \A i \in 1..n : data[i] = d[read + i]
    <3> DEFINE lo == read + 1
               hi == read + n
    <3>1. lo \in Int /\ hi \in Int /\ hi - lo + 1 = n /\ (\A i \in 1..n : lo + i - 1 = read + i)
          /\ (\A i \in lo..hi : i \in 1..Len(d))
      BY <1>2, <1>3
    <3> HIDE DEF lo, hi, d
    <3>2. \A i \in lo..hi : d[i] \in {"x", "nl"}
      BY <1>2, <3>1
    <3>3. \A i \in 1..(hi - lo + 1) : SubSeq(d, lo, hi)[i] = d[lo + i - 1]
      BY <3>1, <3>2, SubSeqProperties
    <3> QED BY <3>1, <3>3 DEF lo, hi
  <2> HIDE DEF data, d
  <2>3. [i \in 1..n |-> <<index, data[i]>>] = more
    BY <2>2
  <2>4. n \in 1..n
    BY <1>3
  <2> QED BY <2>1, <2>2, <2>3, <2>4
<1>5. more \in Seq(Char) /\ Len(more) = n /\ \A i \in 1..n : more[i] = <<index, d[read + i]>>
  <2> HIDE DEF d
  <2>1. \A i \in 1..n : <<index, d[read + i]>> \in Char
    BY <1>2, <1>3 DEF Char
  <2>2. more \in [1..n -> Char]
    BY <2>1
  <2> QED BY <1>3, <2>2
<1> HIDE DEF more, d, r
<1>6. /\ out' \in Seq(Char) /\ Len(out') = Len(out) + n /\ DOMAIN out' = 1..(Len(out) + n)
      /\ \A p \in 1..Len(out) : out'[p] = out[p]
      /\ \A p \in 1..(Len(out) + n) : p > Len(out) => out'[p][1] = index
      /\ out'[Len(out) + n] = <<index, d[r]>>
  <2>1. /\ out' \in Seq(Char) /\ Len(out') = Len(out) + n
        /\ \A p \in 1..(Len(out) + n) :
              out'[p] = IF p <= Len(out) THEN out[p] ELSE more[p - Len(out)]
    BY <1>2, <1>4, <1>5, ConcatProperties
  <2>2. ASSUME NEW p \in 1..Len(out) PROVE out'[p] = out[p]
    <3>1. p \in 1..(Len(out) + n) /\ p <= Len(out)
      BY <1>2, <1>3
    <3> QED BY <2>1, <3>1
  <2>3. ASSUME NEW p \in 1..(Len(out) + n), p > Len(out)
        PROVE  p - Len(out) \in 1..n /\ out'[p] = <<index, d[read + (p - Len(out))]>>
    <3>1. p - Len(out) \in 1..n /\ ~(p <= Len(out))
      BY <1>2, <1>3, <2>3
    <3> QED BY <1>5, <2>1, <3>1
  <2>4. \A p \in 1..(Len(out) + n) : p > Len(out) => out'[p][1] = index
    BY <2>3
  <2>5. out'[Len(out) + n] = <<index, d[r]>>
    <3> DEFINE p == Len(out) + n
    <3>1. p \in 1..(Len(out) + n) /\ p > Len(out) /\ p - Len(out) = n
      BY <1>2, <1>3
    <3> HIDE DEF p
    <3>2. out'[p] = <<index, d[read + (p - Len(out))]>>
      BY <2>3, <3>1
    <3> QED BY <3>1, <3>2 DEF p, r
  <2> QED BY <2>1, <2>2, <2>4, <2>5, LenProperties
<1>7. Placed'
  <2>1. r \in Nat /\ r <= Len(d)
    BY <1>2, <1>3
  <2> QED BY <1>1, <1>2, <1>3, <1>4, <1>6, <2>1 DEF Placed, d
<1>8. Streamed'
  <2> DEFINE u == TextUpTo[index - 1]
             v == SubSeq(b, 1, read)
  <2>1. out = u \o v
    BY <1>1 DEF Streamed
  <2>2. u \in Seq(Char) /\ b \in Seq(Char) /\ Len(b) = Len(d) /\ \A i \in 1..Len(d) : b[i] = <<index, d[i]>>
    BY <1>2, TextUpToType, BytesFact DEF d
  <2>3. v \in Seq(Char) /\ SubSeq(b, 1, r) = v \o more
    <3> HIDE DEF b
    <3> DEFINE q == SubSeq(b, read + 1, r)
    <3>1. 1 \in 1..(Len(b) + 1) /\ read \in (1 - 1)..Len(b) /\ r \in read..Len(b)
      BY <1>2, <1>3, <2>2 DEF r
    <3>2. SubSeq(b, 1, read) \o SubSeq(b, read + 1, r) = SubSeq(b, 1, r)
      BY <2>2, <3>1, ConcatAdjacentSubSeq
    <3>3. \A i \in 1..Len(b) : b[i] \in Char
      BY <2>2, ElementOfSeq
    <3>4. v \in Seq(Char)
      <4>1. 1 \in Int /\ read \in Int /\ \A i \in 1..read : i \in 1..Len(b)
        BY <1>2, <2>2
      <4>2. \A i \in 1..read : b[i] \in Char
        BY <3>3, <4>1
      <4> QED BY <4>1, <4>2, SubSeqProperties
    <3>5. q \in Seq(Char) /\ Len(q) = n /\ \A i \in 1..n : q[i] = more[i]
      <4> DEFINE lo == read + 1
      <4>1. lo \in Int /\ r \in Int /\ lo <= r /\ r - lo + 1 = n
            /\ (\A i \in 1..n : lo + i - 1 = read + i) /\ (\A i \in lo..r : i \in 1..Len(b))
        BY <1>2, <1>3, <2>2 DEF r
      <4> HIDE DEF lo
      <4>2. \A i \in lo..r : b[i] \in Char
        BY <3>3, <4>1
      <4>3. /\ SubSeq(b, lo, r) \in Seq(Char)
            /\ Len(SubSeq(b, lo, r)) = IF lo <= r THEN r - lo + 1 ELSE 0
            /\ \A i \in 1..(r - lo + 1) : SubSeq(b, lo, r)[i] = b[lo + i - 1]
        BY <4>1, <4>2, SubSeqProperties
      <4>4. \A i \in 1..n : b[lo + i - 1] = more[i]
        BY <1>3, <1>5, <2>2, <4>1
      <4> QED BY <4>1, <4>3, <4>4 DEF lo
    <3> HIDE DEF q
    <3>6. q = more
      BY <1>5, <3>5, SeqEqual
    <3> QED BY <3>2, <3>4, <3>6 DEF q
  <2> HIDE DEF u, v, b
  <2>4. (u \o v) \o more = u \o (v \o more)
    BY <1>5, <2>2, <2>3, Concat3
  <2>5. out' = u \o SubSeq(b, 1, r)
    BY <1>4, <2>1, <2>3, <2>4
  <2>6. TextUpTo' = TextUpTo /\ Bytes(index)' = Bytes(index)
    BY <1>1 DEF TextUpTo, Text, Bytes
  <2> QED BY <1>1, <2>5, <2>6 DEF Streamed, u, b
<1>9. Sound'
  BY <1>1 DEF Sound
<1>10. Remembered'
  <2>1. Len(out) + n # 0
    BY <1>2, <1>3
  <2>2. out'[Len(out')] = <<index, last'>>
    BY <1>4, <1>6, <2>1
  <2>3. out' # << >>
    <3>1. Len(out') # 0
      BY <1>6, <2>1
    <3> QED BY <3>1, EmptySeq
  <2> QED BY <1>1, <2>2, <2>3 DEF Remembered
<1>11. MembersSeparated'
  <2> SUFFICES ASSUME NEW p \in 1..(Len(out) + n)
               PROVE  /\ p > 1 /\ out'[p - 1][1] # out'[p][1] => out'[p - 1][2] = "nl" \/ out'[p][1] = 0
                      /\ out'[p][1] = 0 => p > 1 /\ out'[p - 1][2] = "x"
    BY <1>6 DEF MembersSeparated
  <2>1. CASE p \in 1..Len(out)
    <3>1. p > 1 => p - 1 \in 1..Len(out)
      BY <1>2, <2>1
    <3>2. out'[p] = out[p] /\ (p > 1 => out'[p - 1] = out[p - 1])
      BY <1>6, <2>1, <3>1
    <3> QED BY <1>1, <1>2, <2>1, <3>2 DEF MembersSeparated
  <2>2. CASE p = Len(out) + 1
    <3>2. out'[p][1] = index /\ index # 0
      <4>1. p > Len(out)
        BY <1>2, <2>2
      <4>2. out'[p][1] = index
        BY <1>6, <4>1
      <4>3. index # 0
        BY <1>2
      <4> QED BY <4>2, <4>3
    <3>3. CASE out = << >>
      <4>1. p = 1
        BY <2>2, <3>3, EmptySeq
      <4> QED BY <3>2, <4>1
    <3>4. CASE out # << >>
      <4>1. Len(out) \in 1..Len(out) /\ p - 1 = Len(out)
        BY <1>2, <2>2, <3>4, EmptySeq
      <4>2. out'[p - 1] = out[Len(out)]
        BY <1>6, <4>1
      <4>3. out[Len(out)][1] = index \/ out[Len(out)][2] = "nl"
        BY <1>1, <3>4 DEF Remembered
      <4> QED BY <3>2, <4>2, <4>3
    <3> QED BY <3>3, <3>4
  <2>3. CASE p > Len(out) + 1
    <3>1. p - 1 \in 1..(Len(out) + n) /\ p - 1 > Len(out) /\ p > Len(out)
      BY <1>2, <1>3, <2>3
    <3>2. out'[p][1] = index /\ out'[p - 1][1] = index /\ index # 0
      BY <1>2, <1>6, <3>1
    <3> QED BY <3>2
  <2>4. p \in 1..Len(out) \/ p = Len(out) + 1 \/ p > Len(out) + 1
    BY <1>2, <1>3
  <2> QED BY <2>1, <2>2, <2>3, <2>4
<1> QED BY <1>7, <1>8, <1>9, <1>10, <1>11 DEF ArchiveInv

(* The end of a member completes its text, and the stream of it.           *)
LEMMA EndStep ==
  ASSUME ArchiveInv, EndOfMember
  PROVE  ArchiveInv'
<1> DEFINE d == files[index].data
           b == Bytes(index)
           u == TextUpTo[index - 1]
           end == <<0, "nl">>
<1>1. /\ state = "reading" /\ active /\ Len(d) - read = 0 /\ files[index].fault # "read"
      /\ active' = FALSE
      /\ out' = IF had /\ last # "nl" THEN Append(out, end) ELSE out
      /\ UNCHANGED <<files, index, read, had, last, state>>
      /\ Placed /\ Streamed /\ Sound /\ Remembered /\ MembersSeparated
  BY DEF EndOfMember, Rest, Unended, ArchiveInv
<1>2. /\ index \in 1..Len(files) /\ index - 1 \in 0..Len(files) /\ index \in Nat
      /\ d \in Seq({"x", "nl"}) /\ Len(d) \in Nat /\ read = Len(d)
      /\ files \in Archives /\ out \in Seq(Char) /\ Len(out) \in Nat /\ DOMAIN out = 1..Len(out)
      /\ Len(files) \in Nat /\ files[index].regular /\ (had <=> read # 0)
      /\ (had => last = d[read]) /\ last \in {"x", "nl"} /\ had \in BOOLEAN
  <2>1. /\ index \in 1..Len(files) /\ index - 1 \in 0..Len(files) /\ index \in Nat
        /\ d \in Seq({"x", "nl"}) /\ Len(d) \in Nat /\ read \in 0..Len(d)
    BY <1>1, PlacedFact
  <2>2. /\ files \in Archives /\ out \in Seq(Char) /\ files[index].regular /\ (had <=> read # 0)
        /\ (had => last = d[read]) /\ last \in {"x", "nl"} /\ had \in BOOLEAN
    BY <1>1 DEF Placed
  <2> HIDE DEF d
  <2>3. read = Len(d)
    BY <1>1, <2>1
  <2> QED BY <2>1, <2>2, <2>3, FileFact, LenProperties
<1>3. end \in Char
  BY DEF Char
<1>4. /\ u \in Seq(Char) /\ b \in Seq(Char) /\ Len(b) = Len(d)
      /\ TextUpTo[index] = u \o Text(index)
  BY <1>2, TextUpToType, BytesFact, TextFact
<1>5. out = u \o b
  <2>1. out = u \o SubSeq(b, 1, read)
    BY <1>1 DEF Streamed
  <2>2. SubSeq(b, 1, read) = b
    BY <1>2, <1>4, SubSeqFull
  <2> QED BY <2>1, <2>2
<1>6. had <=> d # << >>
  BY <1>2, EmptySeq
<1>7. had => Last(d) = last
  BY <1>2 DEF Last
<1>8. Text(index) = IF had /\ last # "nl" THEN Append(b, end) ELSE b
  BY <1>2, <1>6, <1>7 DEF Text
<1> HIDE DEF u, b, d, end
<1>9. TextUpTo[index] = out'
  <2>1. CASE had /\ last # "nl"
    <3>1. Append(b, end) = b \o <<end>> /\ Append(out, end) = out \o <<end>> /\ <<end>> \in Seq(Char)
      BY <1>2, <1>3, <1>4, AppendIsConcat
    <3>2. (u \o b) \o <<end>> = u \o (b \o <<end>>)
      BY <1>4, <3>1, Concat3
    <3> QED BY <1>1, <1>4, <1>5, <1>8, <2>1, <3>1, <3>2
  <2>2. CASE ~(had /\ last # "nl")
    BY <1>1, <1>4, <1>5, <1>8, <2>2
  <2> QED BY <2>1, <2>2
<1>10. Streamed'
  <2>1. TextUpTo' = TextUpTo
    BY <1>1 DEF TextUpTo, Text, Bytes
  <2> QED BY <1>1, <1>9, <2>1 DEF Streamed
<1>11. out' \in Seq(Char)
  BY <1>1, <1>2, <1>3, AppendProperties
<1>12. Placed'
  BY <1>1, <1>11 DEF Placed
<1>13. Sound'
  <2> SUFFICES ASSUME NEW m \in 1..index, files[m].regular PROVE files[m].fault = "none"
    BY <1>1 DEF Sound
  <2>1. CASE m = index
    <3>1. files[index].fault \in {"none", "open", "read"} /\ files[index].fault # "open"
      BY <1>1, <1>2, FileFact DEF Placed
    <3> QED BY <1>1, <2>1, <3>1
  <2>2. CASE m # index
    BY <1>1, <2>2 DEF Sound
  <2> QED BY <2>1, <2>2
<1>14. CASE had /\ last # "nl"
  <2>1. /\ out' = Append(out, end) /\ out # << >> /\ out[Len(out)] = <<index, "x">>
    BY <1>1, <1>2, <1>14 DEF Remembered
  <2>2. Len(out) \in 1..Len(out)
    BY <1>2, <2>1, EmptySeq
  <2>3. /\ Len(out') = Len(out) + 1 /\ DOMAIN out' = 1..(Len(out) + 1) /\ out'[Len(out) + 1] = end
        /\ \A p \in 1..Len(out) : out'[p] = out[p]
    BY <1>2, <1>3, <2>1, AppendProperties, LenProperties
  <2>4. Remembered'
    BY <1>1, <2>3 DEF Remembered, end
  <2>5. MembersSeparated'
    <3> SUFFICES ASSUME NEW p \in 1..(Len(out) + 1)
                 PROVE  /\ p > 1 /\ out'[p - 1][1] # out'[p][1] => out'[p - 1][2] = "nl" \/ out'[p][1] = 0
                        /\ out'[p][1] = 0 => p > 1 /\ out'[p - 1][2] = "x"
      BY <2>3 DEF MembersSeparated
    <3>1. CASE p \in 1..Len(out)
      <4>1. p > 1 => p - 1 \in 1..Len(out)
        BY <1>2, <3>1
      <4>2. out'[p] = out[p] /\ (p > 1 => out'[p - 1] = out[p - 1])
        BY <2>3, <3>1, <4>1
      <4>3. /\ p > 1 /\ out[p - 1][1] # out[p][1] => out[p - 1][2] = "nl" \/ out[p][1] = 0
            /\ out[p][1] = 0 => p > 1 /\ out[p - 1][2] = "x"
        BY <1>1, <1>2, <3>1 DEF MembersSeparated
      <4> QED BY <4>2, <4>3
    <3>2. CASE p = Len(out) + 1
      <4>1. p > 1 /\ p - 1 = Len(out)
        BY <1>2, <2>2, <3>2
      <4>2. out'[p - 1] = <<index, "x">> /\ out'[p] = end
        BY <2>1, <2>2, <2>3, <3>2, <4>1
      <4> QED BY <4>1, <4>2 DEF end
    <3>3. p \in 1..Len(out) \/ p = Len(out) + 1
      BY <1>2
    <3> QED BY <3>1, <3>2, <3>3
  <2> QED BY <1>10, <1>12, <1>13, <2>4, <2>5 DEF ArchiveInv
<1>15. CASE ~(had /\ last # "nl")
  <2>1. out' = out
    BY <1>1, <1>15
  <2>2. Remembered'
    <3> SUFFICES ASSUME out # << >> PROVE out[Len(out)][2] = "nl"
      BY <1>1, <2>1 DEF Remembered
    <3>1. had => out[Len(out)] = <<index, last>> /\ last = "nl"
      BY <1>1, <1>15 DEF Remembered
    <3>2. ~had => out[Len(out)][2] = "nl"
      BY <1>1 DEF Remembered
    <3> QED BY <3>1, <3>2
  <2>3. MembersSeparated'
    BY <1>1, <2>1 DEF MembersSeparated
  <2> QED BY <1>10, <1>12, <1>13, <2>2, <2>3 DEF ArchiveInv
<1> QED BY <1>14, <1>15

(* All of the above holds in every state of an archive that is read.       *)
THEOREM ArchiveInvariant == ArchiveSpec => []ArchiveInv
<1>1. ArchiveInit => ArchiveInv
  <2> SUFFICES ASSUME ArchiveInit PROVE ArchiveInv
    OBVIOUS
  <2>1. Len(files) \in Nat /\ files \in Archives
    BY FileFact DEF ArchiveInit
  <2>2. Placed
    <3>1. 0 \in 0..Len(files) /\ << >> \in Seq(Char)
      BY <2>1, EmptySeq
    <3> QED BY <2>1, <3>1 DEF ArchiveInit, Placed
  <2>3. Streamed
    BY <2>1, TextFact DEF ArchiveInit, Streamed
  <2>4. Sound /\ Remembered /\ MembersSeparated
    BY DEF ArchiveInit, Sound, Remembered, MembersSeparated
  <2> QED BY <2>2, <2>3, <2>4 DEF ArchiveInv
<1>2. ArchiveInv /\ [ArchiveNext]_archiveVars => ArchiveInv'
  BY SkipStep, OpenStep, StopStep, ReadStep, EndStep DEF ArchiveNext, Read
<1> QED BY <1>1, <1>2, PTL DEF ArchiveSpec

(* zip.go 17-55, tar.go 17-47: the stream is the text of the members, in   *)
(* order, none lost or repeated, and one that ends without an error is     *)
(* all of it, for every archive and every way the reads fall.              *)
THEOREM StreamIsTheMembers == ArchiveSpec => []StreamIsMembers
<1>1. ArchiveInv => StreamIsMembers
  <2> SUFFICES ASSUME ArchiveInv PROVE StreamIsMembers
    OBVIOUS
  <2> DEFINE whole == TextUpTo[Len(files)]
  <2>1. /\ files \in Archives /\ Len(files) \in Nat /\ DOMAIN files = 1..Len(files)
        /\ whole \in Seq(Char) /\ out \in Seq(Char)
    <3>1. files \in Archives /\ out \in Seq(Char)
      BY DEF ArchiveInv, Placed
    <3>2. Len(files) \in Nat /\ DOMAIN files = 1..Len(files)
      BY <3>1, FileFact
    <3>3. Len(files) \in 0..Len(files)
      BY <3>2
    <3> QED BY <3>1, <3>2, <3>3, TextUpToType
  <2>2. PICK s \in Seq(Char) : whole = out \o s
    <3>1. CASE active
      <4> DEFINE u == TextUpTo[index - 1]
                 v == SubSeq(Bytes(index), 1, read)
      <4>1. index \in 1..Len(files) /\ read \in 0..Len(files[index].data) /\ files[index].regular
        BY <3>1, PlacedFact DEF ArchiveInv, Placed
      <4>2. out = u \o v
        BY <3>1 DEF ArchiveInv, Streamed
      <4>3. PICK t \in Seq(Char) : Text(index) = v \o t
        BY <2>1, <4>1, TextOpen
      <4>4. PICK w \in Seq(Char) : whole = TextUpTo[index] \o w
        <5>1. index \in 0..Len(files)
          BY <2>1, <4>1
        <5> QED BY <2>1, <5>1, TextGrows
      <4>5. u \in Seq(Char) /\ v \in Seq(Char) /\ TextUpTo[index] = u \o Text(index)
        <5>1. index - 1 \in 0..Len(files)
          BY <2>1, <4>1
        <5>2. u \in Seq(Char)
          BY <2>1, <5>1, TextUpToType
        <5>3. v \in Seq(Char)
          BY <2>1, <4>1, TextOpen
        <5>4. TextUpTo[index] = u \o Text(index)
          BY <2>1, <4>1, TextFact
        <5> QED BY <5>2, <5>3, <5>4
      <4> HIDE DEF u, v, whole
      <4>6. TextUpTo[index] = out \o t
        <5>1. (u \o v) \o t = u \o (v \o t)
          BY <4>3, <4>5, Concat3
        <5> QED BY <4>2, <4>3, <4>5, <5>1
      <4>7. whole = out \o (t \o w) /\ t \o w \in Seq(Char)
        <5>1. out \in Seq(Char) /\ t \in Seq(Char) /\ w \in Seq(Char)
          BY <2>1, <4>3, <4>4
        <5>2. t \o w \in Seq(Char) /\ (out \o t) \o w = out \o (t \o w)
          BY <5>1, Concat3
        <5> QED BY <4>4, <4>6, <5>2
      <4> QED BY <4>7
    <3>2. CASE ~active
      <4>1. out = TextUpTo[index] /\ index \in 0..Len(files)
        BY <3>2 DEF ArchiveInv, Streamed, Placed
      <4> QED BY <2>1, <4>1, TextGrows
    <3> QED BY <3>1, <3>2
  <2>3. IsPrefix(out, whole)
    <3> HIDE DEF whole
    <3> DEFINE l == Len(out)
    <3>1. l \in Nat /\ Len(whole) \in Nat /\ l <= Len(whole)
          /\ \A i \in 1..l : whole[i] = out[i] /\ out[i] \in Char
      <4>1. Len(whole) = Len(out) + Len(s) /\ Len(out) \in Nat /\ Len(s) \in Nat
            /\ \A i \in 1..(Len(out) + Len(s)) : whole[i] = IF i <= Len(out) THEN out[i] ELSE s[i - Len(out)]
        BY <2>1, <2>2, ConcatProperties, LenProperties
      <4>2. \A i \in 1..Len(out) : i \in 1..(Len(out) + Len(s)) /\ i <= Len(out)
        BY <4>1
      <4>3. \A i \in 1..Len(out) : out[i] \in Char
        BY <2>1, ElementOfSeq
      <4> QED BY <4>1, <4>2, <4>3
    <3>2. SubSeq(out, 1, l) = SubSeq(whole, 1, l)
      <4> DEFINE p == SubSeq(out, 1, l)
                 q == SubSeq(whole, 1, l)
      <4> HIDE DEF l
      <4>1. /\ p \in Seq(Char) /\ Len(p) = IF 1 <= l THEN l - 1 + 1 ELSE 0
            /\ \A i \in 1..(l - 1 + 1) : p[i] = out[1 + i - 1]
        BY <3>1, SubSeqProperties
      <4>2. /\ q \in Seq(Char) /\ Len(q) = IF 1 <= l THEN l - 1 + 1 ELSE 0
            /\ \A i \in 1..(l - 1 + 1) : q[i] = whole[1 + i - 1]
        BY <3>1, SubSeqProperties
      <4> HIDE DEF p, q
      <4>3. Len(p) = l /\ Len(q) = l /\ l - 1 + 1 = l /\ \A i \in 1..l : 1 + i - 1 = i
        BY <3>1, <4>1, <4>2
      <4>4. \A i \in 1..Len(p) : p[i] = q[i]
        BY <3>1, <4>1, <4>2, <4>3
      <4>5. p = q
        BY <4>1, <4>2, <4>3, <4>4, SeqEqual
      <4> QED BY <4>5 DEF p, q
    <3> QED BY <3>1, <3>2 DEF IsPrefix
  <2>4. ASSUME state = "eof" PROVE out = whole /\ \A m \in Range(files) : m.regular => m.fault = "none"
    <3>1. ~active /\ index = Len(files)
      BY <2>4 DEF ArchiveInv, Placed
    <3>2. out = whole
      BY <3>1 DEF ArchiveInv, Streamed
    <3>3. \A m \in 1..Len(files) : files[m].regular => files[m].fault = "none"
      BY <3>1 DEF ArchiveInv, Sound
    <3> QED BY <2>1, <3>2, <3>3 DEF Range
  <2> QED BY <2>3, <2>4 DEF StreamIsMembers
<1> QED BY <1>1, ArchiveInvariant, PTL

(* zip.go 47-53, tar.go 42-45: no line holds bytes of two members, and a   *)
(* separator ends a line that has bytes.                                   *)
THEOREM MembersAreSeparated == ArchiveSpec => []MembersSeparated
<1>1. ArchiveInv => MembersSeparated
  BY DEF ArchiveInv
<1> QED BY <1>1, ArchiveInvariant, PTL
================================================================================
