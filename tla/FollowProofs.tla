------------------------------ MODULE FollowProofs -----------------------------
(***************************************************************************)
(* What is proved of Follow: the type invariant and the three safety       *)
(* invariants of its runs, for every writer, buffer and bound.             *)
(*                                                                         *)
(* The argument is about the order in which the writer writes.  Chunks are *)
(* ordered by line and place (Before); every file holds a run of them, all *)
(* before the chunk written next and all after those of the files created  *)
(* earlier (Written).  What the follower may still read (Ahead) is the     *)
(* part of its file past its position, or all of the file if it shrank,    *)
(* the later files and what is not yet written.  The invariant says that   *)
(* what it holds, pending and buffer, is a run before everything ahead,    *)
(* and that what it emitted are whole lines before what it holds and what  *)
(* is ahead (InStep, Whole, Passed).                                       *)
(***************************************************************************)
EXTENDS Follow, SequenceTheorems, WellFoundedInduction, TLAPS

(* A set of naturals has a least element unless it is empty. *)
LEMMA LeastNumber ==
  ASSUME NEW T, T \subseteq Nat, T # {}
  PROVE  \E x \in T : \A y \in T : x <= y
<1> DEFINE R == {p \in Nat \X Nat : p[1] < p[2]}
<1>1. IsWellFoundedOn(R, Nat)
  BY NatLessThanWellFounded, Zenon DEF OpToRel
<1>2. \A x, y \in Nat : <<y, x>> \in R <=> y < x
  OBVIOUS
<1> HIDE DEF R
<1>3. PICK x \in T : \A y \in T : <<y, x>> \notin R
  BY <1>1, WFMin
<1>4. x \in Nat /\ \A y \in T : y \in Nat /\ ~(y < x)
  BY <1>2, <1>3
<1> QED BY <1>4

(* Induction over a prefix of the naturals: a set that holds the first     *)
(* position and, with any position, the next one, holds them all.          *)
LEMMA PrefixInduction ==
  ASSUME NEW m \in Nat, NEW G, 0 \in G,
         \A b \in 1..m : b - 1 \in G => b \in G
  PROVE  0..m \subseteq G
<1> SUFFICES ASSUME ~(0..m \subseteq G) PROVE FALSE
  OBVIOUS
<1> DEFINE T == (0..m) \ G
<1>1. T \subseteq Nat /\ T # {}
  OBVIOUS
<1> HIDE DEF T
<1>2. PICK x \in T : \A y \in T : x <= y
  BY <1>1, LeastNumber
<1>3. x \in 1..m /\ x \notin G
  BY <1>2 DEF T
<1>4. x - 1 \in 0..m /\ ~(x <= x - 1)
  BY <1>3
<1>5. x - 1 \in G
  BY <1>2, <1>4 DEF T
<1> QED BY <1>3, <1>5
--------------------------------------------------------------------------------
Before(c, d) == c[1] < d[1] \/ (c[1] = d[1] /\ c[2] < d[2])

After(c) == IF Ends(c) THEN <<c[1] + 1, 1>> ELSE <<c[1], c[2] + 1>>

(* Chunks in the order the writer writes them, none left out. *)
Run(s) == \A p \in 1..Len(s) : p > 1 => s[p] = After(s[p - 1])

End == <<Len(Length) + 1, 1>>

Types ==
  /\ content \in [File -> Seq(Chunk)]
  /\ created \in File /\ path \in {NoFile, created}
  /\ path = NoFile => created < Inodes
  /\ next \in Chunk \cup {End}
  /\ truncated \in 0..Truncates /\ unseen \in BOOLEAN /\ cancelled \in BOOLEAN
  /\ pc \in {"start", "head", "read", "tick", "stat", "open", "done", "failed"}
  /\ file \in File \cup {NoFile} /\ fpos \in Nat
  /\ buf \in Seq(Chunk) /\ Len(buf) <= BufCap
  /\ pending \in Seq(Chunk) /\ Len(pending) <= MaxLine
  /\ emitted \in Seq(Seq(Chunk))

(* Every file is a run from the start of a line; the next chunk continues  *)
(* the newest one, and files are written one after the other.              *)
Written ==
  /\ \A i \in File :
       /\ Run(content[i])
       /\ content[i] # << >> => content[i][1][2] = 1
       /\ i > created => content[i] = << >>
       /\ \A p \in DOMAIN content[i] : Before(content[i][p], next)
  /\ IF content[created] = << >> THEN ~MidLine
     ELSE next = After(content[created][Len(content[created])])
  /\ \A i, j \in File : i < j =>
       \A p \in DOMAIN content[i], q \in DOMAIN content[j] :
         Before(content[i][p], content[j][q])

(* The program counter against the file the follower has open.             *)
Opened ==
  /\ file <= created
  /\ pc \in {"head", "read", "tick", "stat", "open"} => file # NoFile
  /\ pc = "start" => file = NoFile
  /\ file = NoFile => fpos = 0 /\ buf = << >> /\ pending = << >> /\ emitted = << >> /\ ~unseen
  /\ pc \in {"tick", "stat"} => buf = << >>
  /\ pc = "open" => file < created

held == pending \o buf

(* What the follower may yet read. *)
Ahead(c) ==
  \/ c = next
  \/ \E i \in File : \E p \in DOMAIN content[i] :
       /\ i > file \/ (i = file /\ (unseen \/ p > fpos))
       /\ c = content[i][p]

(* The follower against its file, which is shorter than what was read of   *)
(* it exactly as long as a truncation is unseen.                           *)
InStep ==
  /\ offset = fpos - Len(buf) /\ Len(held) <= fpos
  /\ unseen => truncated > 0 /\ Len(content[file]) < fpos
  /\ file # NoFile /\ ~unseen =>
       /\ fpos <= Len(content[file])
       /\ \A k \in 1..Len(held) : held[k] = content[file][fpos - Len(held) + k]
       /\ emitted # << >> /\ Len(held) < fpos => Ends(content[file][fpos - Len(held)])

(* What the follower holds is a run, from the start of a line once one was *)
(* emitted, and before everything ahead.                                   *)
Whole ==
  /\ Run(held)
  /\ \A k \in 1..Len(pending) : ~Ends(pending[k])
  /\ emitted # << >> /\ held # << >> => held[1][2] = 1
  /\ \A k \in 1..Len(held) : \A c : Ahead(c) => Before(held[k], c)

OneLine(s) ==
  /\ s # << >> /\ Ends(s[Len(s)])
  /\ \A i \in 1..Len(s) : s[i][1] = s[1][1]

(* What was emitted are whole lines, in order, before all that follows.    *)
Passed ==
  /\ \A b \in 1..Len(emitted) :
       /\ OneLine(emitted[b]) /\ Len(emitted[b]) <= MaxLine
       /\ b > 1 => Len(emitted[b]) = Length[emitted[b][1][1]]
       /\ \A k \in 1..Len(held) : emitted[b][1][1] < held[k][1]
       /\ \A c : Ahead(c) => emitted[b][1][1] < c[1]
  /\ LinesInOrder

Inv == Types /\ Written /\ Opened /\ InStep /\ Whole /\ Passed
--------------------------------------------------------------------------------
(* The order of the writer. *)

Point == Nat \X Nat

LEMMA ChunkIs ==
  /\ Lines = 1..Len(Length) /\ Len(Length) \in Nat
  /\ \A l \in Lines : Length[l] \in Nat \ {0}
  /\ \A c \in Chunk : /\ c \in Point /\ c = <<c[1], c[2]>>
                      /\ c[1] \in Lines /\ c[2] \in 1..Length[c[1]]
  /\ \A l \in Lines, n \in Nat : n \in 1..Length[l] => <<l, n>> \in Chunk
  /\ End \in Point
<1>1. Length \in Seq(Nat \ {0})
  BY FollowAssumption
<1>2. Lines = 1..Len(Length) /\ Len(Length) \in Nat /\ \A l \in Lines : Length[l] \in Nat \ {0}
  <2>1. Lines = 1..Len(Length) /\ Len(Length) \in Nat /\ Length \in [1..Len(Length) -> Nat \ {0}]
    BY <1>1, LenProperties DEF Lines
  <2> QED BY <2>1
<1>3. ASSUME NEW c \in Chunk
      PROVE  c \in Point /\ c = <<c[1], c[2]>> /\ c[1] \in Lines /\ c[2] \in 1..Length[c[1]]
  <2>1. PICK l \in Lines : c \in {l} \X (1..Length[l])
    BY DEF Chunk
  <2> QED BY <1>2, <2>1 DEF Point
<1>4. ASSUME NEW l \in Lines, NEW n \in 1..Length[l] PROVE <<l, n>> \in Chunk
  BY DEF Chunk
<1>5. End \in Point
  BY <1>2 DEF End, Point
<1> QED BY <1>2, <1>3, <1>4, <1>5

LEMMA AfterIs ==
  ASSUME NEW c \in Chunk
  PROVE  /\ After(c) \in Chunk \cup {End} /\ After(c) \in Point
         /\ Before(c, After(c))
         /\ ~Ends(c) => After(c)[1] = c[1] /\ After(c)[2] = c[2] + 1
         /\ Ends(c) => After(c)[1] = c[1] + 1 /\ After(c)[2] = 1
<1>1. /\ c[1] \in 1..Len(Length) /\ c[2] \in 1..Length[c[1]]
      /\ Length[c[1]] \in Nat \ {0} /\ Len(Length) \in Nat
  BY ChunkIs
<1>2. CASE Ends(c)
  <2>1. After(c) = <<c[1] + 1, 1>>
    BY <1>2 DEF After
  <2>2. c[1] < Len(Length) => After(c) \in Chunk
    <3> SUFFICES ASSUME c[1] < Len(Length) PROVE After(c) \in Chunk
      OBVIOUS
    <3>1. c[1] + 1 \in Lines
      BY <1>1, ChunkIs
    <3>2. 1 \in 1..Length[c[1] + 1]
      BY <3>1, ChunkIs
    <3> QED BY <2>1, <3>1, <3>2, ChunkIs
  <2>3. c[1] = Len(Length) => After(c) = End
    BY <2>1 DEF End
  <2> QED BY <1>1, <1>2, <2>1, <2>2, <2>3 DEF Before, Point
<1>3. CASE ~Ends(c)
  <2>1. After(c) = <<c[1], c[2] + 1>>
    BY <1>3 DEF After
  <2>2. c[2] + 1 \in 1..Length[c[1]]
    BY <1>1, <1>3 DEF Ends
  <2>3. c[1] \in Lines
    BY ChunkIs
  <2>4. After(c) \in Chunk
    BY <2>1, <2>2, <2>3, ChunkIs
  <2> QED BY <1>1, <1>3, <2>1, <2>4 DEF Before, Point
<1> QED BY <1>2, <1>3

LEMMA BeforeTransitive ==
  ASSUME NEW c \in Point, NEW d \in Point, NEW e \in Point, Before(c, d), Before(d, e)
  PROVE  Before(c, e)
BY DEF Before, Point

(* What comes after the last chunk of a line is of a later line. *)
LEMMA PastTheEnd ==
  ASSUME NEW c \in Chunk, NEW d \in Chunk \cup {End}, Ends(c), Before(c, d)
  PROVE  c[1] < d[1]
<1>1. c[1] \in 1..Len(Length) /\ c[2] = Length[c[1]] /\ Len(Length) \in Nat
  BY ChunkIs DEF Ends
<1>2. CASE d \in Chunk
  <2>1. d[2] \in 1..Length[d[1]] /\ d[1] \in 1..Len(Length) /\ Length[d[1]] \in Nat
    BY <1>2, ChunkIs
  <2> QED BY <1>1, <2>1 DEF Before
<1>3. CASE d = End
  <2>1. d[1] = Len(Length) + 1
    BY <1>3 DEF End
  <2> QED BY <1>1, <2>1
<1> QED BY <1>2, <1>3

(* A run is in order ... *)
LEMMA RunSorted ==
  ASSUME NEW s \in Seq(Chunk), Run(s), NEW a \in 1..Len(s), NEW b \in 1..Len(s), a < b
  PROVE  Before(s[a], s[b])
<1> DEFINE m == Len(s) - a
           G == {n \in 0..m : n > 0 => Before(s[a], s[a + n])}
<1>1. Len(s) \in Nat /\ m \in Nat /\ \A i \in 1..Len(s) : s[i] \in Chunk /\ s[i] \in Point
  <2>1. Len(s) \in Nat /\ \A i \in 1..Len(s) : s[i] \in Chunk
    BY LenProperties, ElementOfSeq
  <2>2. \A i \in 1..Len(s) : s[i] \in Point
    BY <2>1, ChunkIs
  <2> QED BY <2>1, <2>2
<1>2. 0 \in G
  BY <1>1
<1>3. ASSUME NEW n \in 1..m, n - 1 \in G PROVE n \in G
  <2>1. /\ a + n \in 1..Len(s) /\ a + n > 1 /\ (a + n) - 1 = a + (n - 1)
        /\ a + (n - 1) \in 1..Len(s)
    BY <1>1
  <2>2. s[a + n] = After(s[a + (n - 1)])
    BY <2>1 DEF Run
  <2>3. Before(s[a + (n - 1)], s[a + n])
    BY <1>1, <2>1, <2>2, AfterIs
  <2>4. n - 1 > 0 => Before(s[a], s[a + (n - 1)])
    BY <1>3
  <2>5. n - 1 = 0 => s[a + (n - 1)] = s[a]
    <3>1. n - 1 = 0 => a + (n - 1) = a
      OBVIOUS
    <3> QED BY <3>1
  <2>6. Before(s[a], s[a + n])
    BY <1>1, <2>1, <2>3, <2>4, <2>5, BeforeTransitive
  <2>7. n \in 0..m
    BY <1>1
  <2> QED BY <2>6, <2>7
<1> HIDE DEF G
<1>4. 0..m \subseteq G
  BY <1>1, <1>2, <1>3, PrefixInduction
<1>5. b - a \in 0..m /\ b - a > 0 /\ a + (b - a) = b
  BY <1>1
<1> QED BY <1>4, <1>5 DEF G

(* ... and stays on one line as long as no chunk ends it. *)
LEMMA RunOnLine ==
  ASSUME NEW s \in Seq(Chunk), Run(s), NEW n \in 1..Len(s),
         \A i \in 1..(n - 1) : ~Ends(s[i])
  PROVE  \A i \in 1..n : s[i][1] = s[1][1] /\ s[i][2] = s[1][2] + i - 1
<1> DEFINE m == n - 1
           G == {j \in 0..m : s[j + 1][1] = s[1][1] /\ s[j + 1][2] = s[1][2] + j}
<1>1. Len(s) \in Nat /\ m \in Nat /\ \A i \in 1..Len(s) : s[i] \in Chunk
  BY LenProperties, ElementOfSeq
<1>2. s[1][2] \in Nat
  BY <1>1, ChunkIs
<1>3. 0 \in G
  BY <1>1, <1>2
<1>4. ASSUME NEW j \in 1..m, j - 1 \in G PROVE j \in G
  <2> DEFINE p == s[j]
             q == s[j + 1]
  <2>1. j \in 1..Len(s) /\ j + 1 \in 1..Len(s) /\ j + 1 > 1 /\ (j + 1) - 1 = j /\ (j - 1) + 1 = j
    BY <1>1
  <2>2. q = After(p)
    BY <2>1 DEF Run
  <2>3. ~Ends(p) /\ p \in Chunk
    BY <1>1, <2>1
  <2>4. q[1] = p[1] /\ q[2] = p[2] + 1
    BY <2>2, <2>3, AfterIs
  <2>5. p[1] = s[1][1] /\ p[2] = s[1][2] + (j - 1)
    BY <1>4, <2>1
  <2> HIDE DEF p
  <2>6. j \in Int /\ (s[1][2] + (j - 1)) + 1 = s[1][2] + j
    BY <1>1, <1>2
  <2>7. q[1] = s[1][1] /\ q[2] = s[1][2] + j
    BY <2>4, <2>5, <2>6
  <2> QED BY <1>1, <2>7
<1> HIDE DEF G
<1>5. 0..m \subseteq G
  BY <1>1, <1>3, <1>4, PrefixInduction
<1>6. ASSUME NEW i \in 1..n PROVE s[i][1] = s[1][1] /\ s[i][2] = s[1][2] + i - 1
  <2>1. i - 1 \in 0..m /\ (i - 1) + 1 = i
    BY <1>1
  <2>2. i - 1 \in G
    BY <1>5, <2>1
  <2>3. s[i][1] = s[1][1] /\ s[i][2] = s[1][2] + (i - 1)
    BY <2>1, <2>2 DEF G
  <2> QED BY <1>2, <2>3
<1> QED BY <1>6
--------------------------------------------------------------------------------
(* What is held and what is ahead. *)

LEMMA JoinIs ==
  ASSUME NEW p \in Seq(Chunk), NEW b \in Seq(Chunk)
  PROVE  /\ p \o b \in Seq(Chunk) /\ Len(p \o b) = Len(p) + Len(b)
         /\ Len(p) \in Nat /\ Len(b) \in Nat
         /\ \A k \in 1..Len(p) : (p \o b)[k] = p[k]
         /\ \A k \in 1..Len(b) : (p \o b)[Len(p) + k] = b[k]
<1>1. /\ p \o b \in Seq(Chunk) /\ Len(p \o b) = Len(p) + Len(b)
      /\ Len(p) \in Nat /\ Len(b) \in Nat
      /\ \A i \in 1..(Len(p) + Len(b)) :
           (p \o b)[i] = IF i <= Len(p) THEN p[i] ELSE b[i - Len(p)]
  BY ConcatProperties, LenProperties
<1>2. ASSUME NEW k \in 1..Len(p) PROVE (p \o b)[k] = p[k]
  BY <1>1
<1>3. ASSUME NEW k \in 1..Len(b) PROVE (p \o b)[Len(p) + k] = b[k]
  <2>1. /\ Len(p) + k \in 1..(Len(p) + Len(b)) /\ ~(Len(p) + k <= Len(p))
        /\ (Len(p) + k) - Len(p) = k
    BY <1>1
  <2> QED BY <1>1, <2>1
<1> QED BY <1>1, <1>2, <1>3

LEMMA JoinAssociative ==
  ASSUME NEW p \in Seq(Chunk), NEW b \in Seq(Chunk), NEW a \in Seq(Chunk)
  PROVE  p \o (b \o a) = (p \o b) \o a
BY ConcatAssociative

LEMMA ContentIs ==
  ASSUME Types, NEW i \in File
  PROVE  /\ content[i] \in Seq(Chunk) /\ Len(content[i]) \in Nat
         /\ DOMAIN content[i] = 1..Len(content[i])
         /\ \A p \in 1..Len(content[i]) : content[i][p] \in Chunk /\ content[i][p] \in Point
<1>1. content[i] \in Seq(Chunk)
  BY DEF Types
<1> QED BY <1>1, LenProperties, ElementOfSeq, ChunkIs

LEMMA AheadIs ==
  ASSUME Types, NEW c, Ahead(c)
  PROVE  c \in Chunk \cup {End} /\ c \in Point
<1>1. c = next \/ \E i \in File : \E p \in DOMAIN content[i] : c = content[i][p]
  BY DEF Ahead
<1>2. next \in Chunk \cup {End}
  BY DEF Types
<1>3. \A i \in File : \A p \in DOMAIN content[i] : content[i][p] \in Chunk
  BY ContentIs
<1> QED BY <1>1, <1>2, <1>3, ChunkIs

LEMMA HeldIs ==
  ASSUME Types
  PROVE  /\ held \in Seq(Chunk) /\ Len(held) = Len(pending) + Len(buf) /\ Len(held) \in Nat
         /\ Len(pending) \in Nat /\ Len(buf) \in Nat
         /\ \A k \in 1..Len(held) : held[k] \in Chunk /\ held[k] \in Point
<1>1. pending \in Seq(Chunk) /\ buf \in Seq(Chunk)
  BY DEF Types
<1>2. /\ held \in Seq(Chunk) /\ Len(held) = Len(pending) + Len(buf)
      /\ Len(pending) \in Nat /\ Len(buf) \in Nat
  BY <1>1, JoinIs DEF held
<1> QED BY <1>2, LenProperties, ElementOfSeq, ChunkIs

LEMMA EmittedIs ==
  ASSUME Types
  PROVE  /\ Len(emitted) \in Nat /\ DOMAIN emitted = 1..Len(emitted)
         /\ \A b \in 1..Len(emitted) :
              /\ emitted[b] \in Seq(Chunk) /\ Len(emitted[b]) \in Nat
              /\ DOMAIN emitted[b] = 1..Len(emitted[b])
              /\ emitted[b] # << >> => Len(emitted[b]) > 0 /\ emitted[b][1] \in Chunk
<1>1. emitted \in Seq(Seq(Chunk))
  BY DEF Types
<1>2. Len(emitted) \in Nat /\ DOMAIN emitted = 1..Len(emitted)
      /\ \A b \in 1..Len(emitted) : emitted[b] \in Seq(Chunk)
  BY <1>1, LenProperties, ElementOfSeq
<1>3. ASSUME NEW s \in Seq(Chunk)
      PROVE  /\ Len(s) \in Nat /\ DOMAIN s = 1..Len(s)
             /\ s # << >> => Len(s) > 0 /\ s[1] \in Chunk
  <2>1. Len(s) \in Nat /\ DOMAIN s = 1..Len(s) /\ (s # << >> => Len(s) \in Nat \ {0})
    BY LenProperties, EmptySeq
  <2>2. Len(s) \in Nat \ {0} => 1 \in 1..Len(s)
    OBVIOUS
  <2> QED BY <2>1, <2>2, ElementOfSeq
<1> QED BY <1>2, <1>3

(* A step that drops what is held, or moves it on within the pending line, *)
(* and emits nothing keeps Whole and Passed if all that is ahead then was  *)
(* ahead, or is written after something that was.                          *)
LEMMA HeldStays ==
  ASSUME Types, Whole, Passed, held' = held \/ held' = << >>, emitted' = emitted,
         \A k \in 1..Len(pending') : ~Ends(pending'[k]),
         \A c : Ahead(c)' => \/ Ahead(c)
                             \/ c \in Point /\ \E d : Ahead(d) /\ Before(d, c)
  PROVE  Whole' /\ Passed'
<1>1. ASSUME NEW k \in 1..Len(held') PROVE k \in 1..Len(held) /\ held'[k] = held[k]
  <2>1. Len(<< >>) = 0
    OBVIOUS
  <2> QED BY <1>1, <2>1
<1>2. Run(held')
  <2>1. Run(<< >>)
    BY DEF Run
  <2> QED BY <2>1 DEF Whole
<1>3. ASSUME NEW k \in 1..Len(held'), NEW c, Ahead(c)' PROVE Before(held'[k], c)
  <2>1. \A d : Ahead(d) => Before(held[k], d) /\ d \in Point
    BY <1>1, AheadIs DEF Whole
  <2>2. held[k] \in Point
    BY <1>1, HeldIs
  <2> QED BY <1>1, <1>3, <2>1, <2>2, BeforeTransitive
<1>4. Whole'
  <2>1. (emitted # << >> /\ held # << >> => held[1][2] = 1)'
    BY DEF Whole
  <2>2. (\A k \in 1..Len(held) : \A c : Ahead(c) => Before(held[k], c))'
    BY <1>3
  <2>3. Run(held)'
    BY <1>2 DEF Run
  <2> QED BY <2>1, <2>2, <2>3 DEF Whole, Ends
<1>5. ASSUME NEW b \in 1..Len(emitted), NEW c, Ahead(c)' PROVE emitted[b][1][1] < c[1]
  <2>1. \A d : Ahead(d) => emitted[b][1][1] < d[1] /\ d \in Point
    BY AheadIs DEF Passed
  <2>2. emitted[b][1] \in Point
    BY EmittedIs, ChunkIs DEF Passed, OneLine
  <2>3. CASE Ahead(c)
    BY <2>1, <2>3
  <2>4. CASE ~Ahead(c)
    <3>1. PICK d : Ahead(d) /\ Before(d, c) /\ c \in Point
      BY <1>5, <2>4
    <3>2. d \in Point /\ emitted[b][1][1] < d[1]
      BY <2>1, <3>1
    <3> QED BY <2>2, <3>1, <3>2 DEF Before, Point
  <2> QED BY <2>3, <2>4
<1>6. Passed'
  <2>1. ASSUME NEW b \in 1..Len(emitted)
        PROVE  /\ OneLine(emitted[b]) /\ Len(emitted[b]) <= MaxLine
               /\ b > 1 => Len(emitted[b]) = Length[emitted[b][1][1]]
               /\ \A k \in 1..Len(held') : emitted[b][1][1] < held'[k][1]
    BY <1>1 DEF Passed
  <2>2. LinesInOrder'
    BY DEF Passed, LinesInOrder
  <2> QED BY <1>5, <2>1, <2>2 DEF Passed, OneLine, Ends
<1> QED BY <1>4, <1>6
--------------------------------------------------------------------------------
(* The environment. *)

(* What one more chunk does to a file. *)
LEMMA GrownIs ==
  ASSUME NEW s \in Seq(Chunk), NEW c \in Chunk
  PROVE  /\ Append(s, c) \in Seq(Chunk) /\ Len(Append(s, c)) = Len(s) + 1
         /\ Len(s) \in Nat /\ Append(s, c) # << >>
         /\ \A p \in 1..Len(s) : Append(s, c)[p] = s[p]
         /\ Append(s, c)[Len(s) + 1] = c
<1>1. /\ Append(s, c) \in Seq(Chunk) /\ Len(Append(s, c)) = Len(s) + 1
      /\ \A p \in 1..Len(s) : Append(s, c)[p] = s[p]
      /\ Append(s, c)[Len(s) + 1] = c
  BY AppendProperties
<1>2. Len(s) \in Nat
  BY LenProperties
<1>3. Len(<< >>) = 0
  OBVIOUS
<1>4. Append(s, c) # << >>
  BY <1>1, <1>2, <1>3
<1> QED BY <1>1, <1>2, <1>4

LEMMA WriteKeeps == Inv /\ Write => Inv'
<1> SUFFICES ASSUME Inv, Write PROVE Inv'
  OBVIOUS
<1> DEFINE old == content[created]
           new == Append(old, next)
<1>1. /\ content' = [content EXCEPT ![created] = new] /\ next' = After(next)
      /\ next[1] \in Lines /\ (unseen /\ created = file => Len(old) + 1 < fpos)
      /\ UNCHANGED <<path, created, truncated, cancelled, unseen, pc, file, fpos, offset,
                     buf, pending, emitted>>
  BY DEF Write, After, follower
<1>2. Types /\ Written /\ Opened /\ InStep /\ Whole /\ Passed
  BY DEF Inv
<1>3. /\ created \in File /\ content \in [File -> Seq(Chunk)] /\ old \in Seq(Chunk)
      /\ file \in File \cup {NoFile} /\ fpos \in Nat
  BY <1>2 DEF Types
<1>4. next \in Chunk
  <2>1. Len(Length) \in Nat /\ Lines = 1..Len(Length) /\ End[1] = Len(Length) + 1
    BY ChunkIs DEF End
  <2>2. next # End
    BY <1>1, <2>1
  <2> QED BY <1>2, <2>2 DEF Types
<1>5. /\ next' \in Chunk \cup {End} /\ next' \in Point /\ next \in Point /\ Before(next, next')
  BY <1>1, <1>4, AfterIs, ChunkIs
<1>6. /\ content'[created] = new /\ \A i \in File \ {created} : content'[i] = content[i]
  BY <1>1, <1>3
<1>7. /\ new \in Seq(Chunk) /\ Len(new) = Len(old) + 1 /\ Len(old) \in Nat /\ new # << >>
      /\ \A p \in 1..Len(old) : new[p] = old[p]
      /\ new[Len(old) + 1] = next /\ DOMAIN new = 1..(Len(old) + 1)
      /\ DOMAIN old = 1..Len(old)
  BY <1>3, <1>4, GrownIs, LenProperties
<1>8. Inodes \in Nat
  BY FollowAssumption
<1> HIDE DEF old, new
<1>10. Types'
  <2>1. content' \in [File -> Seq(Chunk)]
    BY <1>1, <1>3, <1>7
  <2> QED BY <1>1, <1>2, <1>5, <2>1 DEF Types
<1>11. \A p \in 1..Len(old) : Before(old[p], next) /\ Before(old[p], next') /\ old[p] \in Point
  <2>1. \A p \in 1..Len(old) : Before(old[p], next)
    BY <1>2, <1>3, <1>7 DEF Written, old
  <2>2. \A p \in 1..Len(old) : old[p] \in Point
    BY <1>2, <1>3, ContentIs DEF old
  <2> QED BY <1>5, <2>1, <2>2, BeforeTransitive
<1>12. Written'
  <2>1. Run(new)
    <3> SUFFICES ASSUME NEW p \in 1..(Len(old) + 1), p > 1 PROVE new[p] = After(new[p - 1])
      BY <1>7 DEF Run
    <3>1. CASE p <= Len(old)
      <4>1. p \in 1..Len(old) /\ p - 1 \in 1..Len(old)
        BY <1>7, <3>1
      <4>2. old[p] = After(old[p - 1])
        BY <1>2, <1>3, <4>1 DEF Written, Run, old
      <4> QED BY <1>7, <4>1, <4>2
    <3>2. CASE p = Len(old) + 1
      <4>1. Len(old) \in 1..Len(old) /\ p - 1 = Len(old)
        BY <1>7, <3>2
      <4>2. old # << >>
        <5>1. Len(<< >>) = 0
          OBVIOUS
        <5> QED BY <4>1, <5>1
      <4>3. next = After(old[Len(old)])
        BY <1>2, <4>2 DEF Written, old
      <4> QED BY <1>7, <3>2, <4>1, <4>3
    <3> QED BY <1>7, <3>1, <3>2
  <2>2. new[1][2] = 1
    <3>1. CASE old = << >>
      <4>1. next[2] = 1
        BY <1>2, <3>1 DEF Written, MidLine, old
      <4>2. Len(old) = 0
        BY <3>1
      <4> QED BY <1>7, <4>1, <4>2
    <3>2. CASE old # << >>
      <4>1. 1 \in 1..Len(old)
        BY <1>3, <1>7, <3>2, EmptySeq
      <4>2. old[1][2] = 1
        BY <1>2, <1>3, <3>2 DEF Written, old
      <4> QED BY <1>7, <4>1, <4>2
    <3> QED BY <3>1, <3>2
  <2>3. \A p \in DOMAIN new : Before(new[p], next')
    <3> SUFFICES ASSUME NEW p \in 1..(Len(old) + 1) PROVE Before(new[p], next')
      BY <1>7
    <3>1. p \in 1..Len(old) \/ p = Len(old) + 1
      BY <1>7
    <3> QED BY <1>5, <1>7, <1>11, <3>1
  <2>4. ASSUME NEW i \in File, i # created
        PROVE  /\ Run(content[i])
               /\ content[i] # << >> => content[i][1][2] = 1
               /\ i > created => content[i] = << >>
               /\ \A p \in DOMAIN content[i] : Before(content[i][p], next')
    <3>1. /\ Run(content[i])
          /\ content[i] # << >> => content[i][1][2] = 1
          /\ i > created => content[i] = << >>
          /\ \A p \in DOMAIN content[i] : Before(content[i][p], next)
      BY <1>2 DEF Written
    <3>2. \A p \in DOMAIN content[i] : content[i][p] \in Point
      BY <1>2, ContentIs
    <3> QED BY <1>5, <3>1, <3>2, BeforeTransitive
  <2>5. ASSUME NEW i \in File
        PROVE  /\ Run(content'[i])
               /\ content'[i] # << >> => content'[i][1][2] = 1
               /\ i > created => content'[i] = << >>
               /\ \A p \in DOMAIN content'[i] : Before(content'[i][p], next')
    <3>1. CASE i = created
      <4>1. ~(i > created)
        BY <1>3, <1>8, <3>1 DEF File
      <4> QED BY <1>6, <2>1, <2>2, <2>3, <3>1, <4>1
    <3>2. CASE i # created
      BY <1>6, <2>4, <3>2
    <3> QED BY <3>1, <3>2
  <2>6. /\ content'[created] # << >> /\ next' = After(content'[created][Len(content'[created])])
    BY <1>1, <1>6, <1>7
  <2>7. ASSUME NEW i \in File, NEW j \in File, i < j,
               NEW p \in DOMAIN content'[i], NEW q \in DOMAIN content'[j]
        PROVE  Before(content'[i][p], content'[j][q])
    <3>1. ASSUME NEW y \in DOMAIN content[i], NEW z \in DOMAIN content[j]
          PROVE  Before(content[i][y], content[j][z])
      BY <1>2, <2>7 DEF Written
    <3>2. CASE i # created /\ j # created
      BY <1>6, <3>1, <3>2
    <3>3. CASE i = created
      <4>1. j > created /\ j # created
        BY <1>3, <1>8, <2>7, <3>3 DEF File
      <4>2. content'[j] = << >>
        BY <1>2, <1>6, <4>1 DEF Written
      <4> QED BY <2>7, <4>2
    <3>4. CASE i # created /\ j = created
      <4>1. p \in DOMAIN content[i] /\ content'[i][p] = content[i][p]
        BY <1>6, <3>4
      <4>2. q \in 1..Len(old) \/ q = Len(old) + 1
        BY <1>6, <1>7, <3>4
      <4>3. q \in 1..Len(old) => Before(content'[i][p], content'[j][q])
        BY <1>6, <1>7, <3>1, <3>4, <4>1 DEF old
      <4>4. Before(content[i][p], next)
        BY <1>2, <4>1 DEF Written
      <4> QED BY <1>6, <1>7, <3>4, <4>1, <4>2, <4>3, <4>4
    <3> QED BY <3>2, <3>3, <3>4
  <2>8. (\A i \in File :
         /\ Run(content[i])
         /\ content[i] # << >> => content[i][1][2] = 1
         /\ i > created => content[i] = << >>
         /\ \A p \in DOMAIN content[i] : Before(content[i][p], next))'
    BY <1>1, <2>5 DEF Run, Before, After, Ends
  <2>9. (IF content[created] = << >> THEN ~MidLine
         ELSE next = After(content[created][Len(content[created])]))'
    BY <1>1, <2>6 DEF After, Ends
  <2>10. (\A i, j \in File : i < j =>
           \A p \in DOMAIN content[i], q \in DOMAIN content[j] :
             Before(content[i][p], content[j][q]))'
    BY <2>7 DEF Before
  <2> QED BY <2>8, <2>9, <2>10 DEF Written
<1>13. Opened'
  BY <1>1, <1>2 DEF Opened
<1>14. /\ file # NoFile => file \in File /\ Len(content[file]) \in Nat
       /\ file # NoFile => Len(content[file]) <= Len(content'[file])
       /\ file # NoFile => \A p \in 1..Len(content[file]) : content'[file][p] = content[file][p]
       /\ file # NoFile /\ unseen => Len(content'[file]) < fpos
  <2>1. file # NoFile => file \in File /\ Len(content[file]) \in Nat
    BY <1>2, <1>3, ContentIs
  <2>2. CASE file = created
    BY <1>1, <1>3, <1>6, <1>7, <2>1, <2>2 DEF old
  <2>3. CASE file # created
    BY <1>2, <1>6, <2>1, <2>3 DEF InStep
  <2> QED BY <2>2, <2>3
<1>15. InStep'
  <2>1. held' = held
    BY <1>1 DEF held
  <2>2. Len(held) \in Nat /\ Len(buf) \in Nat
    BY <1>2, HeldIs
  <2>3. (offset = fpos - Len(buf) /\ Len(held) <= fpos)'
    BY <1>1, <1>2, <2>1 DEF InStep
  <2>4. (unseen => truncated > 0 /\ Len(content[file]) < fpos)'
    BY <1>1, <1>2, <1>14 DEF InStep, Opened
  <2>5. ASSUME file # NoFile, ~unseen
        PROVE  /\ fpos <= Len(content'[file])
               /\ \A k \in 1..Len(held) : held[k] = content'[file][fpos - Len(held) + k]
               /\ emitted # << >> /\ Len(held) < fpos => Ends(content'[file][fpos - Len(held)])
    <3>1. /\ fpos <= Len(content[file]) /\ Len(held) <= fpos
          /\ \A k \in 1..Len(held) : held[k] = content[file][fpos - Len(held) + k]
          /\ emitted # << >> /\ Len(held) < fpos => Ends(content[file][fpos - Len(held)])
      BY <1>2, <2>5 DEF InStep
    <3>2. \A k \in 1..Len(held) : fpos - Len(held) + k \in 1..Len(content[file])
      BY <1>3, <1>14, <2>2, <2>5, <3>1
    <3>3. Len(held) < fpos => fpos - Len(held) \in 1..Len(content[file])
      BY <1>3, <1>14, <2>2, <2>5, <3>1
    <3>4. fpos <= Len(content'[file])
      <4>1. Len(content'[file]) \in Nat
        BY <1>6, <1>7, <1>14, <2>5
      <4> QED BY <1>3, <1>14, <2>5, <3>1, <4>1
    <3> QED BY <1>14, <2>5, <3>1, <3>2, <3>3, <3>4
  <2>6. (file # NoFile /\ ~unseen =>
          /\ fpos <= Len(content[file])
          /\ \A k \in 1..Len(held) : held[k] = content[file][fpos - Len(held) + k]
          /\ emitted # << >> /\ Len(held) < fpos => Ends(content[file][fpos - Len(held)]))'
    BY <1>1, <2>1, <2>5 DEF Ends
  <2> QED BY <2>3, <2>4, <2>6 DEF InStep
<1>16. ASSUME NEW c, Ahead(c)'
       PROVE  Ahead(c) \/ (c \in Point /\ \E d : Ahead(d) /\ Before(d, c))
  <2>1. Ahead(next)
    BY DEF Ahead
  <2>2. CASE c = next'
    BY <1>5, <2>1, <2>2
  <2>3. CASE c # next'
    <3>0. PICK i \in File : \E p \in DOMAIN content'[i] :
            /\ i > file \/ (i = file /\ (unseen \/ p > fpos))
            /\ c = content'[i][p]
      BY <1>1, <1>16, <2>3 DEF Ahead
    <3>1. PICK p \in DOMAIN content'[i] :
            /\ i > file \/ (i = file /\ (unseen \/ p > fpos))
            /\ c = content'[i][p]
      BY <3>0
    <3>2. CASE i # created
      BY <1>6, <3>1, <3>2 DEF Ahead
    <3>3. CASE i = created
      <4>1. p \in 1..Len(old) \/ p = Len(old) + 1
        BY <1>6, <1>7, <3>3
      <4>2. p \in 1..Len(old) => Ahead(c)
        BY <1>6, <1>7, <3>1, <3>3 DEF Ahead, old
      <4>3. p = Len(old) + 1 => c = next
        BY <1>6, <1>7, <3>1, <3>3
      <4> QED BY <2>1, <4>1, <4>2, <4>3
    <3> QED BY <3>2, <3>3
  <2> QED BY <2>2, <2>3
<1>17. Whole' /\ Passed'
  <2>1. held' = held /\ emitted' = emitted
    BY <1>1 DEF held
  <2>2. \A k \in 1..Len(pending') : ~Ends(pending'[k])
    BY <1>1, <1>2 DEF Whole
  <2> QED BY <1>2, <1>16, <2>1, <2>2, HeldStays
<1> QED BY <1>10, <1>12, <1>13, <1>15, <1>17 DEF Inv

(* The steps that move the path. *)
LEMMA MovedKeeps ==
  ASSUME Inv, UNCHANGED <<content, next, truncated, cancelled, unseen, follower>>,
         ~MidLine, created' \in File, created' = created \/ created' = created + 1,
         path' \in {NoFile, created'}, path' = NoFile => created' < Inodes
  PROVE  Inv'
<1>1. /\ Types /\ Written /\ Opened /\ InStep /\ Whole /\ Passed
      /\ UNCHANGED <<content, next, truncated, cancelled, unseen, pc, file, fpos, offset,
                     buf, pending, emitted>>
  BY DEF Inv, follower
<1>2. created \in Nat /\ File \subseteq Nat /\ file \in Nat
  BY <1>1, FollowAssumption DEF Types, File, NoFile
<1>3. Types'
  BY <1>1 DEF Types
<1>4. Written'
  <2>1. (\A i \in File :
         /\ Run(content[i])
         /\ content[i] # << >> => content[i][1][2] = 1
         /\ i > created => content[i] = << >>
         /\ \A p \in DOMAIN content[i] : Before(content[i][p], next))'
    <3>1. \A i \in File : i > created' => i > created
      BY <1>2
    <3> QED BY <1>1, <3>1 DEF Written, Run, Before, After, Ends
  <2>2. (IF content[created] = << >> THEN ~MidLine
         ELSE next = After(content[created][Len(content[created])]))'
    <3>1. CASE created' = created
      BY <1>1, <3>1 DEF Written, MidLine, After, Ends
    <3>2. CASE created' = created + 1
      <4>1. content[created'] = << >>
        BY <1>1, <1>2, <3>2 DEF Written
      <4> QED BY <1>1, <4>1 DEF MidLine
    <3> QED BY <3>1, <3>2
  <2>3. (\A i, j \in File : i < j =>
           \A p \in DOMAIN content[i], q \in DOMAIN content[j] :
             Before(content[i][p], content[j][q]))'
    BY <1>1 DEF Written, Before
  <2> QED BY <2>1, <2>2, <2>3 DEF Written
<1>5. Opened'
  BY <1>1, <1>2 DEF Opened
<1>6. held' = held
  BY <1>1 DEF held
<1>7. InStep'
  BY <1>1, <1>6 DEF InStep, Ends
<1>8. \A c : Ahead(c)' => Ahead(c)
  BY <1>1 DEF Ahead
<1>9. Whole' /\ Passed'
  <2>1. \A k \in 1..Len(pending') : ~Ends(pending'[k])
    BY <1>1 DEF Whole
  <2> QED BY <1>1, <1>6, <1>8, <2>1, HeldStays
<1> QED BY <1>3, <1>4, <1>5, <1>7, <1>9 DEF Inv

LEMMA RenameKeeps == Inv /\ Rename => Inv'
<1> SUFFICES ASSUME Inv, Rename PROVE Inv'
  OBVIOUS
<1>1. created \in 1..Inodes /\ Inodes \in Nat /\ created < Inodes
  BY FollowAssumption DEF Inv, Types, File, Rename
<1>2. created + 1 \in File
  BY <1>1 DEF File
<1>3. created \in File
  BY DEF Inv, Types
<1>4. /\ UNCHANGED <<content, next, truncated, cancelled, unseen, follower>> /\ ~MidLine
      /\ \/ path' = created + 1 /\ created' = created + 1
         \/ path' = NoFile /\ created' = created
  BY DEF Rename
<1>5. created' \in File /\ (created' = created \/ created' = created + 1)
  BY <1>2, <1>3, <1>4
<1>6. path' \in {NoFile, created'} /\ (path' = NoFile => created' < Inodes)
  BY <1>1, <1>4 DEF NoFile
<1> QED BY <1>4, <1>5, <1>6, MovedKeeps

LEMMA CreateKeeps == Inv /\ Create => Inv'
<1> SUFFICES ASSUME Inv, Create PROVE Inv'
  OBVIOUS
<1>1. created \in 1..Inodes /\ Inodes \in Nat /\ created < Inodes
  BY FollowAssumption DEF Inv, Types, File, Create
<1>2. created + 1 \in File /\ created + 1 # NoFile
  BY <1>1 DEF File, NoFile
<1> QED BY <1>2, MovedKeeps DEF Create

LEMMA TruncateKeeps == Inv /\ Truncate => Inv'
<1> SUFFICES ASSUME Inv, Truncate PROVE Inv'
  OBVIOUS
<1>1. /\ Types /\ Written /\ Opened /\ InStep /\ Whole /\ Passed
      /\ UNCHANGED <<path, created, next, cancelled, pc, file, fpos, offset, buf, pending,
                     emitted>>
  BY DEF Inv, Truncate, follower
<1>2. /\ content' = [content EXCEPT ![created] = << >>] /\ truncated' = truncated + 1
      /\ unseen' = (unseen \/ (created = file /\ fpos > 0)) /\ ~MidLine
      /\ truncated < Truncates
  BY DEF Truncate
<1>3. /\ created \in File /\ content \in [File -> Seq(Chunk)] /\ fpos \in Nat
      /\ truncated \in 0..Truncates /\ Truncates \in Nat /\ unseen \in BOOLEAN
      /\ file \in File \cup {NoFile}
  BY <1>1, FollowAssumption DEF Types
<1>4. /\ content'[created] = << >> /\ \A i \in File \ {created} : content'[i] = content[i]
  BY <1>2, <1>3
<1>5. Types'
  <2>1. content' \in [File -> Seq(Chunk)]
    BY <1>2, <1>3, EmptySeq
  <2>2. truncated' \in 0..Truncates
    BY <1>2, <1>3
  <2> QED BY <1>1, <1>2, <1>3, <2>1, <2>2 DEF Types
<1>6. Written'
  <2>1. Run(<< >>) /\ DOMAIN << >> = {}
    BY DEF Run
  <2>2. (\A i \in File :
         /\ Run(content[i])
         /\ content[i] # << >> => content[i][1][2] = 1
         /\ i > created => content[i] = << >>
         /\ \A p \in DOMAIN content[i] : Before(content[i][p], next))'
    BY <1>1, <1>4, <2>1 DEF Written, Run, Before, After, Ends
  <2>3. (IF content[created] = << >> THEN ~MidLine
         ELSE next = After(content[created][Len(content[created])]))'
    BY <1>1, <1>2, <1>4 DEF MidLine
  <2>4. (\A i, j \in File : i < j =>
           \A p \in DOMAIN content[i], q \in DOMAIN content[j] :
             Before(content[i][p], content[j][q]))'
    <3> SUFFICES ASSUME NEW i \in File, NEW j \in File, i < j,
                        NEW p \in DOMAIN content'[i], NEW q \in DOMAIN content'[j]
                 PROVE  Before(content'[i][p], content'[j][q])
      BY DEF Before
    <3>1. i # created /\ j # created
      BY <1>4, <2>1
    <3> QED BY <1>1, <1>4, <3>1 DEF Written
  <2> QED BY <2>2, <2>3, <2>4 DEF Written
<1>7. unseen' => file # NoFile
  BY <1>1, <1>2, <1>3, FollowAssumption DEF Opened, File, NoFile
<1>8. Opened'
  BY <1>1, <1>7 DEF Opened
<1>9. held' = held
  BY <1>1 DEF held
<1>10. Len(held) \in Nat /\ Len(buf) \in Nat
  BY <1>1, HeldIs
<1>11. InStep'
  <2>1. (offset = fpos - Len(buf) /\ Len(held) <= fpos)'
    BY <1>1, <1>9 DEF InStep
  <2>2. ASSUME unseen' PROVE truncated' > 0 /\ Len(content'[file]) < fpos
    <3>1. CASE created = file
      <4>1. fpos > 0
        BY <1>1, <1>2, <1>3, <1>10, <2>2, <3>1, ContentIs DEF InStep
      <4>2. Len(content'[file]) = 0
        BY <1>4, <3>1
      <4> QED BY <1>2, <1>3, <4>1, <4>2
    <3>2. CASE created # file
      <4>1. unseen /\ file \in File
        BY <1>2, <1>3, <1>7, <2>2, <3>2
      <4> QED BY <1>1, <1>2, <1>3, <1>4, <3>2, <4>1 DEF InStep
    <3> QED BY <3>1, <3>2
  <2>3. ASSUME file # NoFile, ~unseen'
        PROVE  /\ fpos <= Len(content'[file])
               /\ \A k \in 1..Len(held) : held[k] = content'[file][fpos - Len(held) + k]
               /\ emitted # << >> /\ Len(held) < fpos => Ends(content'[file][fpos - Len(held)])
    <3>1. CASE created = file
      <4>0. ~(fpos > 0)
        BY <1>2, <2>3, <3>1, Zenon
      <4>1. fpos = 0
        BY <1>3, <4>0
      <4>2. Len(held) = 0
        BY <1>1, <1>10, <4>1 DEF InStep
      <4>3. Len(content'[file]) = 0
        BY <1>4, <3>1
      <4> QED BY <4>1, <4>2, <4>3
    <3>2. CASE created # file
      BY <1>1, <1>2, <1>3, <1>4, <2>3, <3>2 DEF InStep
    <3> QED BY <3>1, <3>2
  <2>4. (unseen => truncated > 0 /\ Len(content[file]) < fpos)'
    BY <1>1, <2>2
  <2>5. (file # NoFile /\ ~unseen =>
          /\ fpos <= Len(content[file])
          /\ \A k \in 1..Len(held) : held[k] = content[file][fpos - Len(held) + k]
          /\ emitted # << >> /\ Len(held) < fpos => Ends(content[file][fpos - Len(held)]))'
    BY <1>1, <1>9, <2>3 DEF Ends
  <2> QED BY <2>1, <2>4, <2>5 DEF InStep
<1>12. ASSUME NEW c, Ahead(c)' PROVE Ahead(c)
  <2>1. CASE c = next
    BY <2>1 DEF Ahead
  <2>2. CASE c # next
    <3>1. PICK i \in File : \E p \in DOMAIN content'[i] :
            /\ i > file \/ (i = file /\ (unseen' \/ p > fpos))
            /\ c = content'[i][p]
      BY <1>1, <1>12, <2>2 DEF Ahead
    <3>2. i # created
      BY <1>4, <3>1
    <3>3. \E p \in DOMAIN content[i] :
            /\ i > file \/ (i = file /\ (unseen \/ p > fpos))
            /\ c = content[i][p]
      BY <1>2, <1>4, <3>1, <3>2
    <3> QED BY <3>3 DEF Ahead
  <2> QED BY <2>1, <2>2
<1>13. Whole' /\ Passed'
  <2>1. \A k \in 1..Len(pending') : ~Ends(pending'[k])
    BY <1>1 DEF Whole
  <2> QED BY <1>1, <1>9, <1>12, <2>1, HeldStays
<1> QED BY <1>5, <1>6, <1>8, <1>11, <1>13 DEF Inv
--------------------------------------------------------------------------------
(* The follower. *)

(* The steps of the follower that leave the files as they are.             *)
LEMMA WrittenStays ==
  ASSUME Types, Written, UNCHANGED env
  PROVE  Written'
<1>1. UNCHANGED <<content, path, created, next, truncated, cancelled>>
  BY DEF env
<1> QED BY <1>1 DEF Written, Run, Before, After, Ends, MidLine

(* Steps that only move the program counter. *)
LEMMA TurnKeeps ==
  ASSUME Inv, UNCHANGED <<content, path, created, next, truncated, unseen, file, fpos, offset,
                          buf, pending, emitted>>,
         cancelled' \in BOOLEAN,
         pc' \in {"start", "head", "read", "tick", "stat", "open", "done", "failed"},
         Opened'
  PROVE  Inv'
<1>1. Types /\ Written /\ Opened /\ InStep /\ Whole /\ Passed
  BY DEF Inv
<1>2. Types'
  BY <1>1 DEF Types
<1>3. Written'
  BY <1>1 DEF Written, Run, Before, After, Ends, MidLine
<1>4. held' = held
  BY DEF held
<1>5. InStep'
  BY <1>1, <1>4 DEF InStep, Ends
<1>6. \A c : Ahead(c)' => Ahead(c)
  BY DEF Ahead
<1>7. \A k \in 1..Len(pending') : ~Ends(pending'[k])
  BY <1>1 DEF Whole
<1>8. Whole' /\ Passed'
  BY <1>1, <1>4, <1>6, <1>7, HeldStays
<1> QED BY <1>2, <1>3, <1>5, <1>8 DEF Inv

LEMMA TurnsKeep == Inv /\ (Cancel \/ Stop \/ Enter \/ Overlong \/ Tick) => Inv'
<1>1. ASSUME Inv, Cancel PROVE Inv'
  <2>1. Opened'
    BY <1>1 DEF Inv, Cancel, follower, Opened
  <2> QED BY <1>1, <2>1, TurnKeeps DEF Inv, Types, Cancel, follower
<1>2. ASSUME Inv, Stop \/ Enter \/ Overlong \/ Tick PROVE Inv'
  <2>1. /\ UNCHANGED <<content, path, created, next, truncated, cancelled, unseen, file, fpos,
                       offset, buf, pending, emitted>>
        /\ \/ pc' \in {"done", "failed"}
           \/ pc = "head" /\ pc' = "read"
           \/ pc = "tick" /\ pc' = "stat"
    BY <1>2 DEF Stop, Enter, Overlong, Tick, env
  <2>2. Opened'
    BY <1>2, <2>1 DEF Inv, Opened
  <2> QED BY <1>2, <2>1, <2>2, TurnKeeps DEF Inv, Types
<1> QED BY <1>1, <1>2

(* A file is read from its start, whatever was held of the former one.     *)
LEMMA ResetKeeps ==
  ASSUME Inv, UNCHANGED <<env, emitted>>, pc' = "head", file' \in File, file' <= created,
         unseen' = FALSE, fpos' = 0, offset' = 0, buf' = << >>, pending' = << >>,
         \A c : Ahead(c)' => Ahead(c)
  PROVE  Inv'
<1>1. /\ Types /\ Written /\ Opened /\ InStep /\ Whole /\ Passed
      /\ UNCHANGED <<content, path, created, next, truncated, cancelled, emitted>>
  BY DEF Inv, env
<1>2. Types'
  <2>1. << >> \in Seq(Chunk) /\ Len(<< >>) = 0 /\ 0 <= BufCap /\ 0 <= MaxLine
    BY EmptySeq, FollowAssumption
  <2>2. /\ buf' \in Seq(Chunk) /\ Len(buf') <= BufCap
        /\ pending' \in Seq(Chunk) /\ Len(pending') <= MaxLine
    BY <2>1
  <2>3. fpos' \in Nat /\ unseen' \in BOOLEAN
    OBVIOUS
  <2> QED BY <1>1, <2>2, <2>3 DEF Types
<1>3. Written'
  BY <1>1, WrittenStays
<1>4. file' # NoFile
  BY FollowAssumption DEF File, NoFile
<1>5. Opened'
  BY <1>1, <1>4 DEF Opened
<1>6. held' = << >> /\ Len(held') = 0
  BY DEF held
<1>7. InStep'
  <2>1. Len(content'[file']) \in Nat
    BY <1>1, ContentIs
  <2>2. Len(buf') = 0 /\ 0 = 0 - 0
    OBVIOUS
  <2>3. offset' = fpos' - Len(buf') /\ Len(held') <= fpos'
    <3>1. offset' = fpos' - Len(buf')
      BY <2>2
    <3>2. Len(held') <= fpos'
      BY <1>6
    <3> QED BY <3>1, <3>2
  <2>4. fpos' <= Len(content'[file'])
    BY <2>1
  <2>5. (\A k \in 1..Len(held) : held[k] = content[file][fpos - Len(held) + k])'
    BY <1>6
  <2>6. ~(Len(held') < fpos')
    BY <1>6
  <2> QED BY <2>3, <2>4, <2>5, <2>6 DEF InStep
<1>8. Whole' /\ Passed'
  <2>1. \A k \in 1..Len(pending') : ~Ends(pending'[k])
    OBVIOUS
  <2> QED BY <1>1, <1>6, <2>1, HeldStays
<1> QED BY <1>2, <1>3, <1>5, <1>7, <1>8 DEF Inv

LEMMA StartKeeps == Inv /\ Start => Inv'
<1> SUFFICES ASSUME Inv, Start PROVE Inv'
  OBVIOUS
<1>1. /\ Types /\ Written /\ Opened /\ InStep /\ Whole /\ Passed
      /\ UNCHANGED <<content, path, created, next, truncated, cancelled, unseen, buf, pending,
                     emitted>>
      /\ pc = "start"
  BY DEF Inv, Start, env
<1>2. /\ file = NoFile /\ fpos = 0 /\ buf = << >> /\ pending = << >> /\ emitted = << >>
      /\ ~unseen
  BY <1>1 DEF Opened
<1>3. CASE path = NoFile
  <2>1. pc' = "failed" /\ UNCHANGED <<file, fpos, offset>>
    BY <1>3 DEF Start
  <2>2. Opened'
    BY <1>1, <2>1 DEF Opened
  <2> QED BY <1>1, <2>1, <2>2, TurnKeeps DEF Types
<1>4. CASE path # NoFile
  <2>1. /\ pc' = "head" /\ file' = path
        /\ fpos' = Len(content[path]) /\ offset' = Len(content[path])
    BY <1>4 DEF Start
  <2>2. path = created /\ created \in File /\ created \in Nat
    BY <1>1, <1>4, FollowAssumption DEF Types, File
  <2>3. Len(content[path]) \in Nat /\ DOMAIN content[path] = 1..Len(content[path])
    BY <1>1, <2>2, ContentIs
  <2>4. Types'
    BY <1>1, <2>1, <2>2, <2>3 DEF Types
  <2>5. Written'
    BY <1>1, WrittenStays DEF env
  <2>6. Opened'
    BY <1>1, <1>4, <2>1, <2>2 DEF Opened
  <2>7. held' = held /\ held' = << >> /\ Len(held') = 0
    BY <1>1, <1>2 DEF held
  <2>8. InStep'
    BY <1>1, <1>2, <2>1, <2>3, <2>7 DEF InStep
  <2>9. ASSUME NEW c, Ahead(c)' PROVE Ahead(c)
    <3>1. \A i \in File : i > created => DOMAIN content[i] = {}
      <4>1. DOMAIN << >> = {}
        OBVIOUS
      <4> QED BY <1>1, <4>1 DEF Written
    <3>2. \A p \in DOMAIN content[path] : ~(p > Len(content[path]))
      BY <2>3
    <3> QED BY <1>1, <1>2, <2>1, <2>2, <2>9, <3>1, <3>2 DEF Ahead
  <2>10. Whole' /\ Passed'
    <3>1. \A k \in 1..Len(pending') : ~Ends(pending'[k])
      BY <1>1 DEF Whole
    <3> QED BY <1>1, <2>7, <2>9, <3>1, HeldStays
  <2> QED BY <2>4, <2>5, <2>6, <2>8, <2>10 DEF Inv
<1> QED BY <1>3, <1>4

LEMMA StatKeeps == Inv /\ Stat => Inv'
<1> SUFFICES ASSUME Inv, Stat PROVE Inv'
  OBVIOUS
<1>1. /\ Types /\ Opened /\ InStep
      /\ UNCHANGED <<content, path, created, next, truncated, cancelled, file, emitted>>
      /\ pc = "stat" /\ file \in File /\ file \in Nat /\ created \in Nat
  <2>1. Types /\ Opened /\ InStep /\ pc = "stat" /\ UNCHANGED <<env, file, emitted>>
    BY DEF Inv, Stat
  <2>2. file \in File /\ created \in File
    BY <2>1 DEF Types, Opened
  <2>3. File \subseteq Nat
    BY FollowAssumption DEF File
  <2> QED BY <2>1, <2>2, <2>3 DEF env
<1>2. CASE ~Replaced /\ ~Shrunk /\ pc' = "head" /\ UNCHANGED <<unseen, fpos, offset, buf, pending>>
  <2>1. Opened'
    BY <1>1, <1>2 DEF Opened
  <2> QED BY <1>1, <1>2, <2>1, TurnKeeps DEF Types
<1>3. CASE /\ Shrunk /\ pc' = "head" /\ unseen' = FALSE
           /\ fpos' = 0 /\ offset' = 0 /\ buf' = << >> /\ pending' = << >>
  <2>1. unseen
    <3> SUFFICES ASSUME ~unseen PROVE FALSE
      OBVIOUS
    <3>1. fpos <= Len(content[file]) /\ offset = fpos - Len(buf)
      BY <1>1 DEF InStep, Opened
    <3>2. Len(content[file]) < offset
      BY <1>3 DEF Shrunk
    <3>3. fpos \in Nat /\ Len(buf) \in Nat /\ Len(content[file]) \in Nat
      BY <1>1, HeldIs, ContentIs DEF Types
    <3> QED BY <3>1, <3>2, <3>3
  <2>2. \A c : Ahead(c)' => Ahead(c)
    BY <1>1, <2>1 DEF Ahead
  <2> QED BY <1>1, <1>3, <2>2, ResetKeeps DEF Opened, env
<1>4. CASE Replaced /\ pc' = "open" /\ UNCHANGED <<unseen, fpos, offset, buf, pending>>
  <2>1. file < created
    BY <1>1, <1>4 DEF Replaced, Types, Opened
  <2>2. Opened'
    BY <1>1, <1>4, <2>1 DEF Opened
  <2> QED BY <1>1, <1>4, <2>2, TurnKeeps DEF Types
<1> QED BY <1>2, <1>3, <1>4 DEF Stat

LEMMA OpenKeeps == Inv /\ Open => Inv'
<1> SUFFICES ASSUME Inv, Open PROVE Inv'
  OBVIOUS
<1>1. /\ Types /\ Written /\ Opened /\ UNCHANGED <<env, emitted>>
      /\ UNCHANGED <<content, path, created, next, truncated, cancelled, emitted>>
      /\ pc = "open"
  BY DEF Inv, Open, env
<1>2. CASE path = NoFile
  <2>1. pc' = "failed" /\ UNCHANGED <<unseen, file, fpos, offset, buf, pending>>
    BY <1>2 DEF Open
  <2>2. Opened'
    BY <1>1, <2>1 DEF Opened
  <2> QED BY <1>1, <2>1, <2>2, TurnKeeps DEF Types
<1>3. CASE path # NoFile
  <2>1. /\ pc' = "head" /\ file' = path /\ unseen' = FALSE
        /\ fpos' = 0 /\ offset' = 0 /\ buf' = << >> /\ pending' = << >>
    BY <1>3 DEF Open
  <2>2. path = created /\ created \in File /\ created \in Nat /\ file < created
    BY <1>1, <1>3, FollowAssumption DEF Types, File, Opened
  <2>3. ASSUME NEW c, Ahead(c)' PROVE Ahead(c)
    <3>1. \A i \in File : i > created => DOMAIN content[i] = {}
      <4>1. DOMAIN << >> = {}
        OBVIOUS
      <4> QED BY <1>1, <4>1 DEF Written
    <3>2. c = next \/ \E i \in File : \E p \in DOMAIN content[i] :
                        i = created /\ c = content[i][p]
      BY <1>1, <2>1, <2>2, <2>3, <3>1 DEF Ahead
    <3> QED BY <2>2, <3>2 DEF Ahead
  <2>4. file' \in File /\ file' <= created
    BY <2>1, <2>2
  <2> QED BY <1>1, <2>1, <2>3, <2>4, ResetKeeps
<1> QED BY <1>2, <1>3

(* A part of a sequence of chunks. *)
LEMMA PartIs ==
  ASSUME NEW s \in Seq(Chunk), NEW m \in 0..Len(s), NEW n \in m..Len(s)
  PROVE  /\ SubSeq(s, m + 1, n) \in Seq(Chunk) /\ Len(SubSeq(s, m + 1, n)) = n - m
         /\ \A i \in 1..(n - m) : SubSeq(s, m + 1, n)[i] = s[m + i]
<1> DEFINE q == SubSeq(s, m + 1, n)
<1>1. Len(s) \in Nat
  BY LenProperties
<1>2. \A i \in (m + 1)..n : s[i] \in Chunk
  <2>1. \A i \in (m + 1)..n : i \in 1..Len(s)
    BY <1>1
  <2> QED BY <2>1, ElementOfSeq
<1>3. m + 1 \in Int /\ n \in Int
  BY <1>1
<1>4. /\ q \in Seq(Chunk) /\ Len(q) = IF m + 1 <= n THEN n - (m + 1) + 1 ELSE 0
      /\ \A i \in 1..(n - (m + 1) + 1) : q[i] = s[m + 1 + i - 1]
  BY <1>2, <1>3, SubSeqProperties
<1> HIDE DEF q
<1>5. Len(q) = n - m /\ n - (m + 1) + 1 = n - m
  BY <1>1, <1>4
<1>6. \A i \in 1..(n - m) : m + 1 + i - 1 = m + i
  BY <1>1
<1> QED BY <1>4, <1>5, <1>6 DEF q

LEMMA HeadIs ==
  ASSUME NEW s \in Seq(Chunk), NEW n \in 0..Len(s)
  PROVE  /\ SubSeq(s, 1, n) \in Seq(Chunk) /\ Len(SubSeq(s, 1, n)) = n
         /\ \A i \in 1..n : SubSeq(s, 1, n)[i] = s[i]
<1> DEFINE z == 0
<1>1. Len(s) \in Nat
  BY LenProperties
<1>2. z \in 0..Len(s) /\ n \in z..Len(s) /\ z + 1 = 1 /\ n - z = n /\ \A i \in 1..n : z + i = i
  BY <1>1
<1> HIDE DEF z
<1>3. /\ SubSeq(s, z + 1, n) \in Seq(Chunk) /\ Len(SubSeq(s, z + 1, n)) = n - z
      /\ \A i \in 1..(n - z) : SubSeq(s, z + 1, n)[i] = s[z + i]
  BY <1>2, PartIs
<1> QED BY <1>2, <1>3

LEMMA LeastIs ==
  ASSUME NEW S, S \subseteq Nat, S # {}
  PROVE  Min(S) \in S /\ \A x \in S : Min(S) <= x
<1>1. \E x \in S : \A y \in S : x <= y
  BY LeastNumber
<1> QED BY <1>1 DEF Min

(* The whole buffer joins the pending line. *)
LEMMA JoinKeeps ==
  ASSUME Inv, UNCHANGED <<env, unseen, file, fpos, emitted>>, pc = "read",
         pc' \in {"head", "tick"}, Newlines = {}, Consume(Len(buf)), pending' = pending \o buf
  PROVE  Inv'
<1>1. /\ Types /\ Written /\ Opened /\ InStep /\ Whole /\ Passed
      /\ UNCHANGED <<content, path, created, next, truncated, cancelled, unseen, file, fpos,
                     emitted>>
      /\ offset' = offset + Len(buf) /\ buf' = SubSeq(buf, Len(buf) + 1, Len(buf))
      /\ Len(pending) + Len(buf) <= MaxLine
  BY DEF Inv, env, Consume
<1>2. /\ Len(buf) \in Nat /\ buf \in Seq(Chunk) /\ pending \in Seq(Chunk) /\ held \in Seq(Chunk)
      /\ Len(held) = Len(pending) + Len(buf) /\ Len(held) \in Nat /\ Len(pending) \in Nat
  BY <1>1, HeldIs DEF Types
<1>3. buf' = << >> /\ Len(buf') = 0
  BY <1>1, <1>2, SubSeqEmpty
<1>4. pending' = held /\ held' = held
  <2>1. held \o << >> = held
    BY <1>2, ConcatEmptySeq
  <2> QED BY <1>3, <2>1 DEF held
<1>5. Types'
  <2>1. buf' \in Seq(Chunk) /\ Len(buf') <= BufCap
    BY <1>3, EmptySeq, FollowAssumption
  <2>2. pending' \in Seq(Chunk) /\ Len(pending') <= MaxLine
    BY <1>1, <1>2, <1>4
  <2> QED BY <1>1, <2>1, <2>2 DEF Types
<1>6. Written'
  BY <1>1, WrittenStays
<1>7. Opened'
  BY <1>1, <1>3 DEF Opened
<1>8. InStep'
  <2>1. fpos \in Nat
    BY <1>1 DEF Types
  <2>2. offset' = fpos' - Len(buf')
    BY <1>1, <1>2, <1>3, <2>1 DEF InStep
  <2> QED BY <1>1, <1>4, <2>2 DEF InStep, Ends
<1>9. \A c : Ahead(c)' => Ahead(c)
  BY <1>1 DEF Ahead
<1>10. \A k \in 1..Len(pending') : ~Ends(pending'[k])
  <2> SUFFICES ASSUME NEW k \in 1..Len(held) PROVE ~Ends(held[k])
    BY <1>4
  <2>1. CASE k <= Len(pending)
    <3>1. k \in 1..Len(pending)
      BY <1>2, <2>1
    <3>2. held[k] = pending[k]
      BY <1>2, <3>1, JoinIs DEF held
    <3> QED BY <1>1, <3>1, <3>2 DEF Whole
  <2>2. CASE k > Len(pending)
    <3> DEFINE j == k - Len(pending)
    <3>1. j \in 1..Len(buf) /\ Len(pending) + j = k
      BY <1>2, <2>2
    <3> HIDE DEF j
    <3>2. held[k] = buf[j]
      BY <1>2, <3>1, JoinIs DEF held
    <3>3. j \in DOMAIN buf
      BY <1>2, <3>1, LenProperties
    <3> QED BY <3>2, <3>3 DEF Newlines
  <2> QED BY <1>2, <2>1, <2>2
<1>11. Whole' /\ Passed'
  BY <1>1, <1>4, <1>9, <1>10, HeldStays
<1> QED BY <1>5, <1>6, <1>7, <1>8, <1>11 DEF Inv

LEMMA TakeFullKeeps == Inv /\ TakeFull => Inv'
BY JoinKeeps DEF TakeFull

LEMMA TakeRestKeeps == Inv /\ TakeRest => Inv'
BY JoinKeeps DEF TakeRest

LEMMA FillKeeps == Inv /\ Fill => Inv'
<1> SUFFICES ASSUME Inv, Fill PROVE Inv'
  OBVIOUS
<1> DEFINE s  == content[file]
           to == Min({Len(s), fpos + BufCap - Len(buf)})
           add == SubSeq(s, fpos + 1, to)
           x  == fpos - Len(held)
<1>1. /\ Types /\ Written /\ Opened /\ InStep /\ Whole /\ Passed
      /\ UNCHANGED <<content, path, created, next, truncated, cancelled, unseen, pc, file,
                     offset, pending, emitted>>
      /\ pc = "read" /\ Len(buf) < BufCap /\ Len(s) - fpos > 0
      /\ buf' = buf \o add /\ fpos' = to
  BY DEF Inv, Fill, env, Available
<1>2. /\ fpos \in Nat /\ BufCap \in Nat /\ file \in File /\ file # NoFile
      /\ s \in Seq(Chunk) /\ Len(s) \in Nat /\ DOMAIN s = 1..Len(s)
      /\ buf \in Seq(Chunk) /\ pending \in Seq(Chunk) /\ held \in Seq(Chunk)
      /\ Len(buf) \in Nat /\ Len(pending) \in Nat /\ Len(held) \in Nat
      /\ Len(held) = Len(pending) + Len(buf)
  <2>1. fpos \in Nat /\ BufCap \in Nat /\ file \in File /\ file # NoFile
        /\ buf \in Seq(Chunk) /\ pending \in Seq(Chunk)
    BY <1>1, FollowAssumption DEF Types, Opened
  <2> QED BY <1>1, <2>1, HeldIs, ContentIs
<1>3. Run(s) /\ (s # << >> => s[1][2] = 1) /\ \A p \in 1..Len(s) : Before(s[p], next)
  BY <1>1, <1>2 DEF Written
<1> HIDE DEF s
<1>4. to \in Nat /\ fpos < to /\ to <= Len(s) /\ to <= fpos + BufCap - Len(buf)
  <2> DEFINE S == {Len(s), fpos + BufCap - Len(buf)}
  <2>1. S \subseteq Nat /\ S # {} /\ \A y \in S : fpos < y
    BY <1>1, <1>2
  <2>2. Min(S) \in S /\ \A y \in S : Min(S) <= y
    BY <2>1, LeastIs
  <2>3. Len(s) \in S /\ fpos + BufCap - Len(buf) \in S
    OBVIOUS
  <2> QED BY <2>1, <2>2, <2>3
<1> HIDE DEF to
<1>5. ~unseen /\ fpos <= Len(s) /\ Len(held) <= fpos
  BY <1>1, <1>2 DEF InStep, s
<1>6. /\ add \in Seq(Chunk) /\ Len(add) = to - fpos
      /\ \A i \in 1..(to - fpos) : add[i] = s[fpos + i]
  <2>1. fpos \in 0..Len(s) /\ to \in fpos..Len(s)
    BY <1>2, <1>4
  <2> QED BY <1>2, <2>1, PartIs
<1> HIDE DEF add
<1>7. buf' \in Seq(Chunk) /\ Len(buf') = Len(buf) + (to - fpos)
  <2>1. buf \in Seq(Chunk) /\ add \in Seq(Chunk) /\ Len(add) = to - fpos /\ buf' = buf \o add
    BY <1>1, <1>2, <1>6
  <2>2. buf \o add \in Seq(Chunk) /\ Len(buf \o add) = Len(buf) + Len(add)
    BY <2>1, JoinIs
  <2> QED BY <2>1, <2>2
<1>8. /\ held' \in Seq(Chunk) /\ Len(held') = Len(held) + (to - fpos)
      /\ \A k \in 1..Len(held) : held'[k] = held[k]
      /\ \A i \in 1..(to - fpos) : held'[Len(held) + i] = s[fpos + i]
  <2>1. held' = held \o add
    <3>1. pending \o (buf \o add) = (pending \o buf) \o add
      BY <1>2, <1>6, JoinAssociative
    <3> QED BY <1>1, <3>1 DEF held
  <2>2. /\ held \o add \in Seq(Chunk) /\ Len(held \o add) = Len(held) + Len(add)
        /\ \A k \in 1..Len(held) : (held \o add)[k] = held[k]
        /\ \A k \in 1..Len(add) : (held \o add)[Len(held) + k] = add[k]
    <3>1. held \in Seq(Chunk) /\ add \in Seq(Chunk)
      BY <1>2, <1>6
    <3> HIDE DEF held
    <3> QED BY <3>1, JoinIs
  <2> QED BY <1>6, <2>1, <2>2
<1>9. x \in Nat /\ x + Len(held') = to /\ x = to - Len(held')
  BY <1>2, <1>4, <1>5, <1>8
<1>10. \A k \in 1..Len(held) : held[k] = s[x + k]
  BY <1>1, <1>2, <1>5 DEF InStep, s
<1>11. x > 0 /\ emitted # << >> => Ends(s[x])
  BY <1>1, <1>2, <1>5 DEF InStep, s
<1>12. x + Len(held) = fpos
  BY <1>2, <1>5
<1> HIDE DEF x
<1>13. \A k \in 1..Len(held') : held'[k] = s[x + k] /\ x + k \in 1..to /\ x + k \in 1..Len(s)
  <2> SUFFICES ASSUME NEW k \in 1..Len(held')
               PROVE  held'[k] = s[x + k] /\ x + k \in 1..to /\ x + k \in 1..Len(s)
    OBVIOUS
  <2>1. x + k \in 1..to /\ x + k \in 1..Len(s)
    BY <1>2, <1>4, <1>8, <1>9
  <2>2. CASE k <= Len(held)
    <3>1. k \in 1..Len(held)
      BY <1>2, <2>2
    <3> QED BY <1>8, <1>10, <2>1, <3>1
  <2>3. CASE k > Len(held)
    <3> DEFINE i == k - Len(held)
    <3>1. i \in 1..(to - fpos) /\ Len(held) + i = k /\ fpos + i = x + k
      BY <1>2, <1>4, <1>8, <1>9, <1>12, <2>3
    <3> HIDE DEF i
    <3> QED BY <1>8, <2>1, <3>1
  <2> QED BY <1>2, <2>2, <2>3
<1>14. Types'
  <2>1. Len(buf') <= BufCap
    BY <1>2, <1>4, <1>7
  <2> QED BY <1>1, <1>4, <1>7, <2>1 DEF Types
<1>15. Written'
  BY <1>1, WrittenStays DEF env
<1>16. Opened'
  BY <1>1, <1>2 DEF Opened
<1>17. InStep'
  <2>1. offset' = fpos' - Len(buf') /\ Len(held') <= fpos'
    <3>1. offset = fpos - Len(buf)
      BY <1>1 DEF InStep
    <3>2. offset = to - Len(buf')
      BY <1>2, <1>4, <1>7, <3>1
    <3>3. Len(held') <= to
      BY <1>4, <1>8, <1>9
    <3> QED BY <1>1, <3>2, <3>3
  <2>2. fpos' <= Len(content'[file'])
    BY <1>1, <1>4 DEF s
  <2>3. fpos' - Len(held') = x
    BY <1>1, <1>9
  <2>4. (\A k \in 1..Len(held) : held[k] = content[file][fpos - Len(held) + k])'
    BY <1>1, <1>13, <2>3 DEF s
  <2>5. Len(held') < fpos' => x > 0
    BY <1>1, <1>4, <1>8, <1>9
  <2>6. (emitted # << >> /\ Len(held) < fpos => Ends(content[file][fpos - Len(held)]))'
    BY <1>1, <1>11, <2>3, <2>5 DEF s, Ends
  <2> QED BY <1>1, <1>5, <2>1, <2>2, <2>4, <2>6 DEF InStep
<1>18. Run(held')
  <2> SUFFICES ASSUME NEW p \in 1..Len(held'), p > 1 PROVE held'[p] = After(held'[p - 1])
    BY DEF Run
  <2>1. Len(held') \in Nat
    BY <1>8, LenProperties
  <2>2. p - 1 \in 1..Len(held') /\ x + (p - 1) = (x + p) - 1 /\ x + p > 1
    BY <1>9, <2>1
  <2>3. s[x + p] = After(s[(x + p) - 1])
    BY <1>3, <1>13, <2>2 DEF Run
  <2> QED BY <1>13, <2>2, <2>3
<1>19. emitted # << >> /\ held' # << >> => held'[1][2] = 1
  <2> SUFFICES ASSUME emitted # << >>, held' # << >> PROVE held'[1][2] = 1
    OBVIOUS
  <2>1. 1 \in 1..Len(held')
    BY <1>8, EmptySeq
  <2>2. held'[1] = s[x + 1] /\ x + 1 \in 1..Len(s)
    BY <1>13, <2>1
  <2>3. CASE x = 0
    <3>1. s # << >>
      <4>1. Len(<< >>) = 0
        OBVIOUS
      <4> QED BY <1>2, <2>2, <4>1
    <3> QED BY <1>3, <2>2, <2>3, <3>1
  <2>4. CASE x > 0
    <3>1. x + 1 > 1 /\ (x + 1) - 1 = x /\ x \in 1..Len(s)
      BY <1>2, <1>9, <2>2, <2>4
    <3>2. s[x + 1] = After(s[x])
      BY <1>3, <2>2, <3>1 DEF Run
    <3>3. s[x] \in Chunk
      BY <1>2, <3>1, ElementOfSeq
    <3>4. Ends(s[x])
      BY <1>11, <2>4
    <3> QED BY <2>2, <3>2, <3>3, <3>4, AfterIs
  <2> QED BY <1>9, <2>3, <2>4
<1>20. ASSUME NEW c, Ahead(c)'
       PROVE  \/ c = next
              \/ \E i \in File : i > file /\ \E p \in DOMAIN content[i] : c = content[i][p]
              \/ \E p \in DOMAIN s : p > to /\ c = s[p]
  BY <1>1, <1>5, <1>20 DEF Ahead, s
<1>21. \A c : Ahead(c)' => Ahead(c)
  <2>1. \A p \in DOMAIN s : p > to => p > fpos
    BY <1>2, <1>4
  <2> QED BY <1>2, <1>20, <2>1 DEF Ahead, s
<1>22. ASSUME NEW k \in 1..Len(held'), NEW c, Ahead(c)' PROVE Before(held'[k], c)
  <2>1. held'[k] = s[x + k] /\ x + k \in 1..to /\ x + k \in 1..Len(s)
    BY <1>13
  <2>2. CASE c = next
    BY <1>3, <2>1, <2>2
  <2>3. CASE \E i \in File : i > file /\ \E p \in DOMAIN content[i] : c = content[i][p]
    <3>1. PICK i \in File : i > file /\ \E p \in DOMAIN content[i] : c = content[i][p]
      BY <2>3
    <3>2. x + k \in DOMAIN content[file] /\ file < i
      BY <1>2, <2>1, <3>1, FollowAssumption DEF s, File
    <3> QED BY <1>1, <1>2, <2>1, <3>1, <3>2 DEF Written, s
  <2>4. CASE \E p \in DOMAIN s : p > to /\ c = s[p]
    <3>1. PICK p \in 1..Len(s) : p > to /\ c = s[p]
      BY <1>2, <2>4
    <3>2. x + k < p
      BY <1>4, <2>1, <3>1
    <3> QED BY <1>2, <1>3, <2>1, <3>1, <3>2, RunSorted
  <2> QED BY <1>20, <1>22, <2>2, <2>3, <2>4
<1>23. Whole'
  <2>1. Run(held)'
    BY <1>18 DEF Run, After, Ends
  <2>2. (\A k \in 1..Len(pending) : ~Ends(pending[k]))'
    BY <1>1 DEF Whole, Ends
  <2>3. (emitted # << >> /\ held # << >> => held[1][2] = 1)'
    BY <1>1, <1>19
  <2>4. (\A k \in 1..Len(held) : \A c : Ahead(c) => Before(held[k], c))'
    BY <1>22
  <2> QED BY <2>1, <2>2, <2>3, <2>4 DEF Whole
<1>24. ASSUME NEW b \in 1..Len(emitted), NEW k \in 1..Len(held')
       PROVE  emitted[b][1][1] < held'[k][1]
  <2>1. CASE k \in 1..Len(held)
    BY <1>1, <1>8, <2>1 DEF Passed
  <2>2. CASE k \notin 1..Len(held)
    <3>1. x + k > fpos /\ x + k \in DOMAIN s /\ held'[k] = s[x + k]
      BY <1>2, <1>9, <1>12, <1>13, <2>2
    <3>2. Ahead(held'[k])
      BY <1>2, <3>1 DEF Ahead, s
    <3> QED BY <1>1, <3>2 DEF Passed
  <2> QED BY <2>1, <2>2
<1>25. Passed'
  <2>1. ASSUME NEW b \in 1..Len(emitted)
        PROVE  /\ OneLine(emitted[b]) /\ Len(emitted[b]) <= MaxLine
               /\ b > 1 => Len(emitted[b]) = Length[emitted[b][1][1]]
               /\ \A c : Ahead(c)' => emitted[b][1][1] < c[1]
    BY <1>1, <1>21 DEF Passed
  <2>2. LinesInOrder'
    BY <1>1 DEF Passed, LinesInOrder
  <2> QED BY <1>1, <1>24, <2>1, <2>2 DEF Passed, OneLine, Ends
<1> QED BY <1>14, <1>15, <1>16, <1>17, <1>23, <1>25 DEF Inv

(* A line is complete.  It is the first h chunks held, one line, and what  *)
(* is held from then on starts the next one.                               *)
LEMMA TakeLineKeeps == Inv /\ TakeLine => Inv'
<1> SUFFICES ASSUME Inv, TakeLine PROVE Inv'
  OBVIOUS
<1> DEFINE n == Min(Newlines)
           head == SubSeq(buf, 1, n)
           rest == SubSeq(buf, n + 1, Len(buf))
           line == pending \o head
           h    == Len(pending) + n
<1>1. /\ Types /\ Written /\ Opened /\ InStep /\ Whole /\ Passed
      /\ UNCHANGED <<content, path, created, next, truncated, cancelled, unseen, file, fpos>>
      /\ pc = "read" /\ pc' = "head" /\ Newlines # {}
      /\ offset' = offset + n /\ buf' = rest /\ h <= MaxLine
      /\ emitted' = Append(emitted, line) /\ pending' = << >>
  BY DEF Inv, TakeLine, env, Consume
<1>2. /\ fpos \in Nat /\ file \in File \cup {NoFile} /\ file # NoFile
      /\ buf \in Seq(Chunk) /\ pending \in Seq(Chunk) /\ held \in Seq(Chunk)
      /\ Len(buf) \in Nat /\ Len(pending) \in Nat /\ Len(held) \in Nat
      /\ Len(held) = Len(pending) + Len(buf) /\ DOMAIN buf = 1..Len(buf)
      /\ \A k \in 1..Len(held) : held[k] \in Chunk /\ held[k] \in Point
      /\ \A k \in 1..Len(pending) : held[k] = pending[k]
      /\ \A k \in 1..Len(buf) : held[Len(pending) + k] = buf[k]
  <2>1. buf \in Seq(Chunk) /\ pending \in Seq(Chunk)
    BY <1>1 DEF Types
  <2> QED BY <1>1, <2>1, HeldIs, JoinIs, LenProperties DEF Types, Opened, held
<1>3. n \in 1..Len(buf) /\ Ends(buf[n]) /\ \A k \in 1..(n - 1) : ~Ends(buf[k])
  <2>1. Newlines \subseteq Nat
    BY <1>2 DEF Newlines
  <2>2. n \in Newlines /\ \A y \in Newlines : n <= y
    BY <1>1, <2>1, LeastIs
  <2> HIDE DEF n
  <2>3. n \in 1..Len(buf) /\ Ends(buf[n])
    BY <1>2, <2>2 DEF Newlines
  <2>4. ASSUME NEW k \in 1..(n - 1) PROVE ~Ends(buf[k])
    <3>1. k \in DOMAIN buf /\ ~(n <= k)
      BY <1>2, <2>3
    <3> QED BY <2>2, <3>1 DEF Newlines
  <2> QED BY <2>3, <2>4
<1> HIDE DEF n
<1>4. /\ head \in Seq(Chunk) /\ Len(head) = n /\ \A i \in 1..n : head[i] = buf[i]
  <2>1. n \in 0..Len(buf)
    BY <1>2, <1>3
  <2> HIDE DEF n
  <2> QED BY <1>2, <2>1, HeadIs
<1>5. /\ rest \in Seq(Chunk) /\ Len(rest) = Len(buf) - n
      /\ \A i \in 1..(Len(buf) - n) : rest[i] = buf[n + i]
  <2> DEFINE l == Len(buf)
  <2>1. n \in 0..Len(buf) /\ l \in n..Len(buf)
    BY <1>2, <1>3
  <2> HIDE DEF l
  <2>2. /\ SubSeq(buf, n + 1, l) \in Seq(Chunk) /\ Len(SubSeq(buf, n + 1, l)) = l - n
        /\ \A i \in 1..(l - n) : SubSeq(buf, n + 1, l)[i] = buf[n + i]
    BY <1>2, <2>1, PartIs
  <2> QED BY <2>2 DEF l
<1> HIDE DEF head, rest
<1>6. h \in 1..Len(held) /\ h \in Nat /\ h >= 1
  BY <1>2, <1>3
<1>7. line \in Seq(Chunk) /\ Len(line) = h /\ \A k \in 1..h : line[k] = held[k]
  <2>1. /\ line \in Seq(Chunk) /\ Len(line) = h
        /\ \A k \in 1..Len(pending) : line[k] = pending[k]
        /\ \A k \in 1..n : line[Len(pending) + k] = head[k]
    BY <1>2, <1>4, JoinIs
  <2> HIDE DEF line
  <2>2. ASSUME NEW k \in 1..h PROVE line[k] = held[k]
    <3>1. CASE k <= Len(pending)
      <4>1. k \in 1..Len(pending)
        BY <1>2, <1>6, <3>1
      <4> QED BY <1>2, <2>1, <4>1
    <3>2. CASE k > Len(pending)
      <4> DEFINE j == k - Len(pending)
      <4>1. j \in 1..n /\ j \in 1..Len(buf) /\ Len(pending) + j = k
        BY <1>2, <1>3, <3>2
      <4> HIDE DEF j
      <4> QED BY <1>2, <1>4, <2>1, <4>1
    <3> QED BY <1>2, <3>1, <3>2
  <2> QED BY <2>1, <2>2
<1>8. Ends(held[h]) /\ \A k \in 1..(h - 1) : ~Ends(held[k])
  <2>1. held[h] = buf[n]
    BY <1>2, <1>3
  <2>2. ASSUME NEW k \in 1..(h - 1) PROVE ~Ends(held[k])
    <3>1. CASE k <= Len(pending)
      <4>1. k \in 1..Len(pending)
        BY <1>2, <1>6, <3>1
      <4> QED BY <1>1, <1>2, <4>1 DEF Whole
    <3>2. CASE k > Len(pending)
      <4> DEFINE j == k - Len(pending)
      <4>1. j \in 1..(n - 1) /\ j \in 1..Len(buf) /\ Len(pending) + j = k
        BY <1>2, <1>3, <3>2
      <4> HIDE DEF j
      <4> QED BY <1>2, <1>3, <4>1
    <3> QED BY <1>2, <3>1, <3>2
  <2> QED BY <1>3, <2>1, <2>2
<1> HIDE DEF line
<1>9. /\ held' \in Seq(Chunk) /\ Len(held') = Len(held) - h /\ Len(held') \in Nat
      /\ \A k \in 1..Len(held') : held'[k] = held[h + k] /\ h + k \in 1..Len(held)
  <2>1. held' = rest
    <3>1. << >> \o rest = rest
      BY <1>5, ConcatEmptySeq
    <3> QED BY <1>1, <3>1 DEF held
  <2>2. Len(rest) = Len(held) - h /\ Len(rest) \in Nat
    BY <1>2, <1>3, <1>5
  <2>3. ASSUME NEW k \in 1..Len(rest) PROVE rest[k] = held[h + k] /\ h + k \in 1..Len(held)
    <3>1. /\ n + k \in 1..Len(buf) /\ Len(pending) + (n + k) = h + k /\ h + k \in 1..Len(held)
          /\ k \in 1..(Len(buf) - n)
      BY <1>2, <1>3, <1>5
    <3> QED BY <1>2, <1>5, <3>1
  <2> QED BY <1>5, <2>1, <2>2, <2>3
<1>10. Len(buf') = Len(buf) - n /\ offset' = offset + n /\ h = Len(pending) + n
  BY <1>1, <1>5
<1>11. /\ Len(emitted) \in Nat /\ emitted \in Seq(Seq(Chunk))
       /\ emitted' \in Seq(Seq(Chunk)) /\ Len(emitted') = Len(emitted) + 1
       /\ \A b \in 1..Len(emitted) : emitted'[b] = emitted[b]
       /\ emitted'[Len(emitted) + 1] = line
  <2>1. emitted \in Seq(Seq(Chunk))
    BY <1>1 DEF Types
  <2> QED BY <1>1, <1>7, <2>1, AppendProperties, LenProperties
<1> HIDE DEF h
<1>12. \A c : Ahead(c)' => Ahead(c)
  BY <1>1 DEF Ahead
<1>13. \A k \in 1..h : held[k][1] = held[1][1] /\ held[k][2] = held[1][2] + k - 1
  BY <1>1, <1>2, <1>6, <1>8, RunOnLine DEF Whole
<1>14. Types'
  <2>1. rest \in Seq(Chunk) /\ Len(rest) <= BufCap
    <3>1. Len(buf) <= BufCap /\ BufCap \in Nat
      BY <1>1, FollowAssumption DEF Types
    <3> QED BY <1>2, <1>3, <1>5, <3>1
  <2>2. << >> \in Seq(Chunk) /\ Len(<< >>) <= MaxLine
    BY EmptySeq, FollowAssumption
  <2> QED BY <1>1, <1>11, <2>1, <2>2 DEF Types
<1>15. Written'
  BY <1>1, WrittenStays DEF env
<1>16. Opened'
  BY <1>1, <1>2 DEF Opened
<1>17. InStep'
  <2>1. offset = fpos - Len(buf) /\ Len(held) <= fpos
    BY <1>1 DEF InStep
  <2>2. offset' = fpos' - Len(buf') /\ Len(held') <= fpos'
    <3>1. fpos' = fpos /\ Len(buf') = Len(buf) - n /\ offset' = offset + n
      BY <1>1, <1>10
    <3>2. Len(held') = Len(held) - h /\ h >= 1
      BY <1>6, <1>9
    <3>3. fpos \in Nat /\ Len(buf) \in Nat /\ Len(held) \in Nat /\ n \in Nat /\ h \in Nat
      BY <1>2, <1>3, <1>6
    <3>4. offset' = fpos' - Len(buf')
      BY <2>1, <3>1, <3>3
    <3> QED BY <2>1, <3>1, <3>2, <3>3, <3>4
  <2>3. (unseen => truncated > 0 /\ Len(content[file]) < fpos)'
    BY <1>1 DEF InStep
  <2>4. ASSUME ~unseen
        PROVE  /\ fpos <= Len(content[file])
               /\ \A k \in 1..Len(held') : held'[k] = content[file][fpos - Len(held') + k]
               /\ Len(held') < fpos => Ends(content[file][fpos - Len(held')])
    <3>1. /\ fpos <= Len(content[file])
          /\ \A k \in 1..Len(held) : held[k] = content[file][fpos - Len(held) + k]
      BY <1>1, <1>2, <2>4 DEF InStep
    <3>2. fpos - Len(held') = fpos - Len(held) + h
      BY <1>2, <1>6, <1>9
    <3>3. \A k \in 1..Len(held') : fpos - Len(held) + (h + k) = fpos - Len(held') + k
      BY <1>2, <1>6, <1>9
    <3>4. held[h] = content[file][fpos - Len(held')]
      BY <1>6, <3>1, <3>2
    <3> QED BY <1>8, <1>9, <3>1, <3>3, <3>4
  <2>5. (file # NoFile /\ ~unseen =>
          /\ fpos <= Len(content[file])
          /\ \A k \in 1..Len(held) : held[k] = content[file][fpos - Len(held) + k]
          /\ emitted # << >> /\ Len(held) < fpos => Ends(content[file][fpos - Len(held)]))'
    BY <1>1, <2>4 DEF Ends
  <2> QED BY <2>2, <2>3, <2>5 DEF InStep
<1>18. Run(held')
  <2> SUFFICES ASSUME NEW p \in 1..Len(held'), p > 1 PROVE held'[p] = After(held'[p - 1])
    BY DEF Run
  <2>0. Len(held') \in Nat /\ h \in Nat /\ h >= 1
    BY <1>6, <1>9
  <2>1. p - 1 \in 1..Len(held') /\ h + (p - 1) = (h + p) - 1 /\ h + p > 1
    BY <2>0
  <2>2. held[h + p] = After(held[(h + p) - 1])
    BY <1>1, <1>9, <2>1 DEF Whole, Run
  <2> QED BY <1>9, <2>1, <2>2
<1>19. held' # << >> => held'[1][2] = 1
  <2> SUFFICES ASSUME held' # << >> PROVE held'[1][2] = 1
    OBVIOUS
  <2>1. 1 \in 1..Len(held')
    BY <1>9, EmptySeq
  <2>2. held'[1] = held[h + 1] /\ h + 1 \in 1..Len(held) /\ h + 1 > 1 /\ (h + 1) - 1 = h
    BY <1>6, <1>9, <2>1
  <2>3. held[h + 1] = After(held[h])
    BY <1>1, <2>2 DEF Whole, Run
  <2> QED BY <1>2, <1>6, <1>8, <2>2, <2>3, AfterIs
<1>20. Whole'
  <2>1. Run(held)'
    BY <1>18 DEF Run, After, Ends
  <2>2. (\A k \in 1..Len(pending) : ~Ends(pending[k]))'
    BY <1>1
  <2>3. (emitted # << >> /\ held # << >> => held[1][2] = 1)'
    BY <1>19
  <2>4. (\A k \in 1..Len(held) : \A c : Ahead(c) => Before(held[k], c))'
    BY <1>1, <1>9, <1>12 DEF Whole
  <2> QED BY <2>1, <2>2, <2>3, <2>4 DEF Whole
<1>21. line[1] = held[1] /\ held[h][1] = line[1][1] /\ line # << >>
  <2>1. 1 \in 1..h /\ h \in 1..h
    BY <1>6
  <2>2. Len(<< >>) = 0
    OBVIOUS
  <2> QED BY <1>6, <1>7, <1>13, <2>1, <2>2
<1>22. OneLine(line) /\ Len(line) <= MaxLine
  <2>1. h \in 1..h
    BY <1>6
  <2> QED BY <1>1, <1>7, <1>8, <1>13, <1>21, <2>1 DEF OneLine, h
<1>23. emitted # << >> => Len(line) = Length[line[1][1]]
  <2> SUFFICES ASSUME emitted # << >> PROVE Len(line) = Length[line[1][1]]
    OBVIOUS
  <2>1. held # << >>
    <3>1. Len(<< >>) = 0
      OBVIOUS
    <3> QED BY <1>6, <3>1
  <2>2. held[1][2] = 1
    BY <1>1, <2>1 DEF Whole
  <2>3. h \in 1..h
    BY <1>6
  <2>4. held[h][2] = h
    BY <1>6, <1>13, <2>2, <2>3
  <2> QED BY <1>7, <1>8, <1>21, <2>4 DEF Ends
<1>24. \A k \in 1..Len(held') : line[1][1] < held'[k][1]
  <2> SUFFICES ASSUME NEW k \in 1..Len(held') PROVE line[1][1] < held'[k][1]
    OBVIOUS
  <2>1. h + k \in 1..Len(held) /\ h < h + k /\ held'[k] = held[h + k]
    BY <1>6, <1>9
  <2>2. Before(held[h], held[h + k])
    BY <1>1, <1>2, <1>6, <2>1, RunSorted DEF Whole
  <2>3. held[h] \in Chunk /\ held[h + k] \in Chunk
    BY <1>2, <1>6, <2>1
  <2>4. held[h][1] < held[h + k][1]
    BY <1>8, <2>2, <2>3, PastTheEnd
  <2> QED BY <1>21, <2>1, <2>4
<1>25. ASSUME NEW c, Ahead(c)' PROVE line[1][1] < c[1]
  <2>1. Before(held[h], c) /\ c \in Chunk \cup {End} /\ held[h] \in Chunk
    BY <1>1, <1>2, <1>6, <1>12, <1>25, AheadIs DEF Whole
  <2>2. held[h][1] < c[1]
    BY <1>8, <2>1, PastTheEnd
  <2> QED BY <1>21, <2>2
<1>26. \A b \in 1..Len(emitted) : emitted[b][1][1] < line[1][1]
  <2>1. 1 \in 1..Len(held)
    BY <1>2, <1>6
  <2> QED BY <1>1, <1>21, <2>1 DEF Passed
<1>27. ASSUME NEW b \in 1..Len(emitted')
       PROVE  /\ OneLine(emitted'[b]) /\ Len(emitted'[b]) <= MaxLine
              /\ b > 1 => Len(emitted'[b]) = Length[emitted'[b][1][1]]
              /\ \A k \in 1..Len(held') : emitted'[b][1][1] < held'[k][1]
              /\ \A c : Ahead(c)' => emitted'[b][1][1] < c[1]
  <2>1. CASE b \in 1..Len(emitted)
    BY <1>1, <1>9, <1>11, <1>12, <2>1 DEF Passed
  <2>2. CASE b = Len(emitted) + 1
    <3>1. b > 1 => emitted # << >>
      <4>1. Len(<< >>) = 0
        OBVIOUS
      <4> QED BY <1>11, <2>2, <4>1
    <3> QED BY <1>11, <1>22, <1>23, <1>24, <1>25, <2>2, <3>1
  <2> QED BY <1>11, <2>1, <2>2
<1>28. LinesInOrder'
  <2> SUFFICES ASSUME NEW a \in DOMAIN emitted', NEW b \in DOMAIN emitted', a < b
               PROVE  emitted'[a][1][1] < emitted'[b][1][1]
    BY DEF LinesInOrder
  <2>1. a \in 1..(Len(emitted) + 1) /\ b \in 1..(Len(emitted) + 1) /\ DOMAIN emitted = 1..Len(emitted)
    BY <1>11, LenProperties
  <2>2. a \in 1..Len(emitted) /\ (b \in 1..Len(emitted) \/ b = Len(emitted) + 1)
    BY <1>11, <2>1
  <2> QED BY <1>1, <1>11, <1>26, <2>1, <2>2 DEF Passed, LinesInOrder
<1>29. Passed'
  BY <1>27, <1>28 DEF Passed, OneLine, Ends
<1> QED BY <1>14, <1>15, <1>16, <1>17, <1>20, <1>29 DEF Inv
--------------------------------------------------------------------------------
(* The invariant of the follower. *)
THEOREM FollowerCorrect == Spec => []Inv
<1>1. Init => Inv
  <2> SUFFICES ASSUME Init PROVE Inv
    OBVIOUS
  <2>1. /\ content = [i \in File |-> << >>] /\ path = 1 /\ created = 1 /\ next = <<1, 1>>
        /\ truncated = 0 /\ cancelled = FALSE /\ unseen = FALSE /\ pc = "start"
        /\ file = NoFile /\ fpos = 0 /\ offset = 0
        /\ buf = << >> /\ pending = << >> /\ emitted = << >>
    BY DEF Init
  <2>2. 1 \in File /\ NoFile \notin File /\ NoFile <= 1 /\ \A i \in File : content[i] = << >>
    BY <2>1, FollowAssumption DEF File, NoFile
  <2>3. next \in Chunk \cup {End}
    <3>1. CASE Len(Length) = 0
      BY <2>1, <3>1 DEF End
    <3>2. CASE Len(Length) # 0
      <4>1. 1 \in Lines
        BY <3>2, ChunkIs
      <4>2. 1 \in 1..Length[1]
        BY <4>1, ChunkIs
      <4> QED BY <2>1, <4>1, <4>2, ChunkIs
    <3> QED BY <3>1, <3>2
  <2>4. Types
    <3>1. \A S : << >> \in Seq(S)
      BY EmptySeq
    <3>2. content \in [File -> Seq(Chunk)]
      BY <2>1, <3>1
    <3>3. 0 \in 0..Truncates /\ Len(<< >>) <= BufCap /\ Len(<< >>) <= MaxLine /\ 1 # NoFile
      BY FollowAssumption DEF NoFile
    <3>4. truncated \in 0..Truncates /\ Len(buf) <= BufCap /\ Len(pending) <= MaxLine
      BY <2>1, <3>3
    <3>5. buf \in Seq(Chunk) /\ pending \in Seq(Chunk) /\ emitted \in Seq(Seq(Chunk))
      BY <2>1, <3>1
    <3> QED BY <2>1, <2>2, <2>3, <3>2, <3>3, <3>4, <3>5 DEF Types
  <2>5. Run(<< >>) /\ DOMAIN << >> = {} /\ Len(<< >>) = 0
    BY DEF Run
  <2>6. Written
    <3>1. ~MidLine
      BY <2>1 DEF MidLine
    <3> QED BY <2>1, <2>2, <2>5, <3>1 DEF Written
  <2>7. Opened
    BY <2>1, <2>2 DEF Opened
  <2>8. held = << >> /\ Len(held) = 0
    BY <2>1 DEF held
  <2>9. InStep
    <3>1. offset = fpos - Len(buf) /\ Len(held) <= fpos
      <4>1. Len(buf) = 0
        BY <2>1, <2>5
      <4>2. offset = 0 /\ fpos = 0
        BY <2>1
      <4>3. offset = fpos - Len(buf)
        BY <4>1, <4>2
      <4>4. Len(held) <= fpos
        BY <2>8, <4>2
      <4> QED BY <4>3, <4>4
    <3> QED BY <2>1, <3>1 DEF InStep
  <2>10. Whole
    BY <2>1, <2>5, <2>8 DEF Whole
  <2>11. Passed
    BY <2>1, <2>5 DEF Passed, LinesInOrder
  <2> QED BY <2>4, <2>6, <2>7, <2>9, <2>10, <2>11 DEF Inv
<1>2. Inv /\ [Next]_vars => Inv'
  <2> SUFFICES ASSUME Inv, [Next]_vars PROVE Inv'
    OBVIOUS
  <2>1. CASE Environment
    BY <2>1, WriteKeeps, RenameKeeps, CreateKeeps, TruncateKeeps, TurnsKeep DEF Environment
  <2>2. CASE Follower
    BY <2>2, StartKeeps, TurnsKeep, FillKeeps, TakeLineKeeps, TakeFullKeeps, TakeRestKeeps,
       StatKeeps, OpenKeeps DEF Follower
  <2>3. CASE UNCHANGED vars
    <3>1. UNCHANGED <<content, path, created, next, truncated, cancelled, unseen, pc, file, fpos,
                      offset, buf, pending, emitted>>
      BY <2>3 DEF vars, env, follower
    <3>2. Opened'
      BY <3>1 DEF Inv, Opened
    <3> QED BY <3>1, <3>2, TurnKeeps DEF Inv, Types
  <2> QED BY <2>1, <2>2, <2>3 DEF Next
<1> QED BY <1>1, <1>2, PTL DEF Spec

(* The elements of a sequence of chunks are chunks. *)
LEMMA RangeIs ==
  ASSUME NEW s \in Seq(Chunk)
  PROVE  Range(s) \subseteq Chunk
<1>1. \A i \in DOMAIN s : s[i] \in Chunk
  BY LenProperties, ElementOfSeq
<1> QED BY <1>1 DEF Range

(* The type invariant: for every writer and all sizes of line, buffer and  *)
(* limit, the buffer and the pending line stay within their bounds, and    *)
(* the offset never passes the position read.                              *)
THEOREM TypesHold == Spec => []TypeOK
<1>1. Inv => TypeOK
  <2> SUFFICES ASSUME Inv PROVE TypeOK
    OBVIOUS
  <2>1. Types /\ InStep /\ Passed
    BY DEF Inv
  <2>2. \A i \in File : Range(content[i]) \subseteq Chunk
    BY <2>1, ContentIs, RangeIs
  <2>3. Range(buf) \subseteq Chunk /\ Range(pending) \subseteq Chunk
    BY <2>1, RangeIs DEF Types
  <2>4. \A b \in DOMAIN emitted : Range(emitted[b]) \subseteq Chunk /\ Len(emitted[b]) <= MaxLine
    BY <2>1, EmittedIs, RangeIs DEF Passed
  <2>5. offset \in 0..fpos
    <3>1. /\ fpos \in Nat /\ Len(buf) \in Nat /\ Len(pending) \in Nat
          /\ Len(held) = Len(pending) + Len(buf)
      BY <2>1, HeldIs DEF Types
    <3>2. offset = fpos - Len(buf) /\ Len(held) <= fpos
      BY <2>1 DEF InStep
    <3> QED BY <3>1, <3>2
  <2> QED BY <2>1, <2>2, <2>3, <2>4, <2>5 DEF TypeOK, Types, End
<1> QED BY <1>1, FollowerCorrect, PTL

(* read.go 117-131: for every file that is not truncated, whatever the     *)
(* sizes of its lines, of the buffer and of the limit, and wherever its    *)
(* writes fall between the reads, the unfinished line and the buffer are   *)
(* the last chunks read, from the start of a line.                         *)
THEOREM NothingConsumedIsLost == Spec => []UnfinishedLineKept
<1>1. Inv => UnfinishedLineKept
  <2> SUFFICES ASSUME Inv, truncated = 0, pc \in {"head", "read", "tick", "stat", "open"}
               PROVE  /\ Len(held) <= fpos
                      /\ held = SubSeq(content[file], fpos - Len(held) + 1, fpos)
                      /\ emitted # << >> /\ Len(held) < fpos =>
                           Ends(content[file][fpos - Len(held)])
                      /\ offset = fpos - Len(buf)
    BY DEF UnfinishedLineKept, held
  <2> DEFINE s == content[file]
             x == fpos - Len(held)
             t == SubSeq(s, x + 1, fpos)
  <2>1. Types /\ Opened /\ InStep
    BY DEF Inv
  <2>2. file # NoFile /\ file \in File /\ fpos \in Nat
    BY <2>1 DEF Opened, Types
  <2>3. ~unseen
    BY <2>1 DEF InStep
  <2>4. /\ offset = fpos - Len(buf) /\ Len(held) <= fpos /\ fpos <= Len(s)
        /\ \A k \in 1..Len(held) : held[k] = s[x + k]
        /\ emitted # << >> /\ Len(held) < fpos => Ends(s[x])
    BY <2>1, <2>2, <2>3 DEF InStep
  <2>5. s \in Seq(Chunk) /\ Len(s) \in Nat /\ held \in Seq(Chunk) /\ Len(held) \in Nat
    BY <2>1, <2>2, ContentIs, HeldIs
  <2>6. x \in Nat /\ x + Len(held) = fpos
    BY <2>2, <2>4, <2>5
  <2> HIDE DEF s, x
  <2>7. /\ t \in Seq(Chunk) /\ Len(t) = Len(held)
        /\ \A i \in 1..Len(held) : t[i] = s[x + i]
    <3>1. x \in 0..Len(s) /\ fpos \in x..Len(s) /\ fpos - x = Len(held)
      BY <2>2, <2>4, <2>5, <2>6
    <3>2. /\ t \in Seq(Chunk) /\ Len(t) = fpos - x
          /\ \A i \in 1..(fpos - x) : t[i] = s[x + i]
      BY <2>5, <3>1, PartIs
    <3> QED BY <3>1, <3>2
  <2> HIDE DEF t
  <2>8. held = t
    BY <2>4, <2>5, <2>7, SeqEqual
  <2> QED BY <2>4, <2>8 DEF s, x, t
<1> QED BY <1>1, FollowerCorrect, PTL

(* read.go 126-130, 159-168: no rotation and no truncation, in whatever    *)
(* order, ever glues parts of two lines together or cuts one, the first    *)
(* one excepted.                                                           *)
THEOREM NoTornLines == Spec => []LinesNotTorn
<1>1. Inv => LinesNotTorn
  <2> SUFFICES ASSUME Inv, NEW b \in DOMAIN emitted
               PROVE  /\ \A i, j \in DOMAIN emitted[b] : emitted[b][i][1] = emitted[b][j][1]
                      /\ b > 1 => Len(emitted[b]) = Length[emitted[b][1][1]]
                      /\ Ends(emitted[b][Len(emitted[b])])
    BY DEF LinesNotTorn
  <2>1. Types /\ Passed
    BY DEF Inv
  <2>2. b \in 1..Len(emitted) /\ DOMAIN emitted[b] = 1..Len(emitted[b])
    BY <2>1, EmittedIs
  <2>3. OneLine(emitted[b]) /\ (b > 1 => Len(emitted[b]) = Length[emitted[b][1][1]])
    BY <2>1, <2>2 DEF Passed
  <2> QED BY <2>2, <2>3 DEF OneLine
<1> QED BY <1>1, FollowerCorrect, PTL

(* read.go 152-169: nor are lines ever emitted twice or out of order.      *)
THEOREM OrderIsKept == Spec => []LinesInOrder
<1>1. Inv => LinesInOrder
  BY DEF Inv, Passed
<1> QED BY <1>1, FollowerCorrect, PTL
================================================================================
