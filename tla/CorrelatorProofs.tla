--------------------------- MODULE CorrelatorProofs ---------------------------
(***************************************************************************)
(* The index of the Correlator is exact and what it has returned is what   *)
(* DirectLinks promises, for every buffer limit, window, grouping of       *)
(* fields and sequence of entries.  The inductive invariant is the         *)
(* conjunction of the three invariants: an exact selection needs an exact  *)
(* index, and an exact index a buffer that is a window on the arrivals.    *)
(* From it follows that the Correlator implements DirectLinks, once it is  *)
(* shown what the loop over the buffer returns (KeptFact).                 *)
(***************************************************************************)
EXTENDS Correlator, SequenceTheorems, WellFoundedInduction, TLAPS

(* Adding an element to a queue. *)
LEMMA SendFact ==
  ASSUME NEW S, NEW q \in Seq(S), NEW e \in S
  PROVE  /\ Append(q, e) \in Seq(S) /\ Len(Append(q, e)) = Len(q) + 1
         /\ Range(Append(q, e)) = Range(q) \cup {e}
<1>1. /\ Append(q, e) \in Seq(S) /\ Len(Append(q, e)) = Len(q) + 1
      /\ \A i \in 1..Len(q) : Append(q, e)[i] = q[i]
      /\ Append(q, e)[Len(q) + 1] = e
  BY AppendProperties
<1>2. Range(q) = {q[i] : i \in 1..Len(q)}
      /\ Range(Append(q, e)) = {Append(q, e)[i] : i \in 1..(Len(q) + 1)}
  BY <1>1, RangeEquality
<1>3. Len(q) \in Nat
  BY LenProperties
<1> QED BY <1>1, <1>2, <1>3

(* Induction over a prefix of the naturals: a set that holds the first     *)
(* position and, with any position, the next one, holds them all.          *)
LEMMA PrefixInduction ==
  ASSUME NEW m \in Nat, NEW G, 0 \in G,
         \A b \in 1..m : b - 1 \in G => b \in G
  PROVE  0..m \subseteq G
<1> DEFINE R == {p \in Nat \X Nat : p[1] < p[2]}
           T == (0..m) \ G
<1>1. IsWellFoundedOn(R, Nat)
  BY NatLessThanWellFounded, Zenon DEF OpToRel
<1>2. \A x, y \in Nat : <<y, x>> \in R <=> y < x
  OBVIOUS
<1> SUFFICES ASSUME T # {} PROVE FALSE
  OBVIOUS
<1>3. T \subseteq Nat
  OBVIOUS
<1> HIDE DEF R, T
<1>4. PICK x \in T : \A y \in T : <<y, x>> \notin R
  BY <1>1, <1>3, WFMin
<1>5. x \in 1..m /\ x \notin G /\ x - 1 \in 0..m /\ x - 1 < x
  BY <1>4 DEF T
<1>6. x \in Nat /\ x - 1 \in Nat /\ <<x - 1, x>> \in R
  BY <1>2, <1>5
<1> QED BY <1>4, <1>5, <1>6 DEF T
--------------------------------------------------------------------------------
Inv == TypeOK /\ IndexExact /\ SelectedExactly

(* The arrivals still retained when n have been seen. *)
Recent(n) == {i \in 1..n : i > n - Cap}

(* q is the buffer after n arrivals. *)
WindowOn(n, q) ==
  /\ q \in Seq(1..n)
  /\ Len(q) = IF n < Cap THEN n ELSE Cap
  /\ q = [b \in 1..Len(q) |-> n - Len(q) + b]

(* ix is an index of just the arrivals in R of s. *)
Exact(ix, R, s) ==
  /\ DOMAIN ix = UNION {Keys(s[i]) : i \in R}
  /\ \A k \in DOMAIN ix : ix[k] = {i \in R : k \in Keys(s[i])}

LEMMA CapType == Cap \in Nat \ {0}
BY CorrelatorAssumption DEF Cap

(* Positions of a window of length l on n arrivals. *)
LEMMA WindowArithmetic ==
  ASSUME NEW n \in Nat, NEW c \in Nat \ {0}, NEW l \in Nat,
         l = IF n < c THEN n ELSE c
  PROVE  /\ \A i \in 1..n : i > n - c => i - (n - l) \in 1..l /\ n - l + (i - (n - l)) = i
         /\ \A b \in 1..l : n - l + b \in 1..n /\ n - l + b > n - c
<1>1. CASE n < c
  BY <1>1
<1>2. CASE ~(n < c)
  BY <1>2
<1> QED BY <1>1, <1>2

(* The buffer holds the most recent arrivals. *)
LEMMA WindowFact ==
  ASSUME NEW n \in Nat, NEW q, WindowOn(n, q)
  PROVE  Len(q) \in Nat /\ Range(q) = Recent(n)
<1>1. Len(q) \in Nat /\ Cap \in Nat \ {0} /\ Len(q) = IF n < Cap THEN n ELSE Cap
  BY LenProperties, CapType DEF WindowOn
<1>2. /\ DOMAIN q = 1..Len(q)
      /\ \A b \in 1..Len(q) : q[b] = n - Len(q) + b
  BY DEF WindowOn
<1>3. /\ \A i \in 1..n : i > n - Cap =>
           i - (n - Len(q)) \in 1..Len(q) /\ n - Len(q) + (i - (n - Len(q))) = i
      /\ \A b \in 1..Len(q) : n - Len(q) + b \in 1..n /\ n - Len(q) + b > n - Cap
  BY <1>1, WindowArithmetic
<1>4. ASSUME NEW i \in Recent(n) PROVE \E b \in 1..Len(q) : q[b] = i
  BY <1>2, <1>3 DEF Recent
<1>5. ASSUME NEW b \in 1..Len(q) PROVE q[b] \in Recent(n)
  BY <1>2, <1>3 DEF Recent
<1> QED BY <1>1, <1>2, <1>4, <1>5 DEF Range

(* Eviction followed by insertion slides the window by one arrival. *)
LEMMA WindowSlides ==
  ASSUME NEW n \in Nat, NEW q, WindowOn(n, q), NEW r,
         r = Append(IF Len(q) >= Cap THEN Tail(q) ELSE q, n + 1)
  PROVE  WindowOn(n + 1, r)
<1>1. /\ q \in Seq(1..(n + 1)) /\ Len(q) \in Nat /\ Cap \in Nat \ {0}
      /\ Len(q) = IF n < Cap THEN n ELSE Cap
  BY LenProperties, CapType, SeqMonotonic DEF WindowOn
<1>2. \A b \in 1..Len(q) : q[b] = n - Len(q) + b
  BY DEF WindowOn
<1>3. CASE Len(q) >= Cap
  <2>1. ~(n < Cap) /\ Len(q) = Cap /\ q # << >>
    BY <1>1, <1>3, EmptySeq
  <2>2. /\ Tail(q) \in Seq(1..(n + 1)) /\ Len(Tail(q)) = Cap - 1
        /\ \A b \in 1..(Cap - 1) : Tail(q)[b] = q[b + 1]
    BY <1>1, <2>1, HeadTailProperties
  <2>3. /\ r \in Seq(1..(n + 1)) /\ Len(r) = Cap /\ r[Cap] = n + 1
        /\ \A b \in 1..(Cap - 1) : r[b] = Tail(q)[b]
    <3>1. r = Append(Tail(q), n + 1) /\ n + 1 \in 1..(n + 1) /\ (Cap - 1) + 1 = Cap
      BY <1>1, <1>3
    <3>2. /\ r \in Seq(1..(n + 1)) /\ Len(r) = Len(Tail(q)) + 1
          /\ r[Len(Tail(q)) + 1] = n + 1
          /\ \A b \in 1..Len(Tail(q)) : r[b] = Tail(q)[b]
      <4> DEFINE S == 1..(n + 1)
      <4>1. Tail(q) \in Seq(S) /\ n + 1 \in S
        BY <2>2, <3>1
      <4>2. Append(Tail(q), n + 1) \in Seq(S)
        <5> HIDE DEF S
        <5> QED BY <4>1, AppendProperties
      <4>3. /\ Len(Append(Tail(q), n + 1)) = Len(Tail(q)) + 1
            /\ Append(Tail(q), n + 1)[Len(Tail(q)) + 1] = n + 1
            /\ \A b \in 1..Len(Tail(q)) : Append(Tail(q), n + 1)[b] = Tail(q)[b]
        <5> HIDE DEF S
        <5> QED BY <4>1, AppendProperties
      <4> QED BY <3>1, <4>2, <4>3
    <3> QED BY <2>2, <3>1, <3>2
  <2>4. \A b \in 1..Cap : r[b] = (n + 1) - Cap + b
    <3>1. ASSUME NEW b \in 1..(Cap - 1) PROVE r[b] = (n + 1) - Cap + b
      <4>1. b + 1 \in 1..Len(q) /\ r[b] = q[b + 1]
        BY <1>1, <2>1, <2>2, <2>3
      <4>2. q[b + 1] = n - Cap + (b + 1)
        BY <1>2, <2>1, <4>1
      <4>3. n - Cap + (b + 1) = (n + 1) - Cap + b
        BY <1>1
      <4> QED BY <4>1, <4>2, <4>3
    <3>2. r[Cap] = (n + 1) - Cap + Cap
      BY <1>1, <2>3
    <3>3. \A b \in 1..Cap : b \in 1..(Cap - 1) \/ b = Cap
      BY <1>1
    <3> QED BY <3>1, <3>2, <3>3
  <2>5. r \in [1..Len(r) -> 1..(n + 1)]
    BY <2>3, LenProperties
  <2>6. r = [b \in 1..Len(r) |-> (n + 1) - Len(r) + b]
    BY <2>3, <2>4, <2>5
  <2>7. Len(r) = IF n + 1 < Cap THEN n + 1 ELSE Cap
    BY <1>1, <2>1, <2>3
  <2> QED BY <2>3, <2>6, <2>7 DEF WindowOn
<1>4. CASE ~(Len(q) >= Cap)
  <2>1. Len(q) = n /\ n < Cap
    BY <1>1, <1>4
  <2>2. /\ r \in Seq(1..(n + 1)) /\ Len(r) = n + 1 /\ r[n + 1] = n + 1
        /\ \A b \in 1..n : r[b] = q[b]
    BY <1>1, <1>4, <2>1, AppendProperties
  <2>3. \A b \in 1..(n + 1) : r[b] = b
    BY <1>2, <2>1, <2>2
  <2>4. Len(r) = IF n + 1 < Cap THEN n + 1 ELSE Cap
    BY <1>1, <2>1, <2>2
  <2>5. \A b \in 1..Len(r) : r[b] = (n + 1) - Len(r) + b
    <3>1. Len(r) = n + 1 /\ (n + 1) - (n + 1) = 0
      BY <2>2
    <3>2. \A b \in 1..(n + 1) : 0 + b = b
      OBVIOUS
    <3> QED BY <2>3, <3>1, <3>2
  <2>6. r = [b \in 1..Len(r) |-> (n + 1) - Len(r) + b]
    <3>1. r \in [1..Len(r) -> 1..(n + 1)]
      BY <2>2, LenProperties
    <3> QED BY <2>5, <3>1
  <2> QED BY <2>2, <2>4, <2>6 DEF WindowOn
<1> QED BY <1>3, <1>4

(* Evicting an arrival leaves an index of the others. *)
LEMMA UnindexExact ==
  ASSUME NEW R, NEW ix, Exact(ix, R, seen), NEW o \in R
  PROVE  Exact(Unindex(ix, o), R \ {o}, seen)
<1> DEFINE u == Unindex(ix, o)
<1>1. DOMAIN u = {k \in DOMAIN ix : k \in Keys(seen[o]) => ix[k] # {o}}
  BY DEF Unindex
<1>2. \A k \in DOMAIN u : u[k] = IF k \in Keys(seen[o]) THEN ix[k] \ {o} ELSE ix[k]
  BY DEF Unindex
<1>3. \A k \in DOMAIN ix : ix[k] = {i \in R : k \in Keys(seen[i])}
  BY DEF Exact
<1>4. ASSUME NEW k PROVE k \in DOMAIN u <=> \E i \in R \ {o} : k \in Keys(seen[i])
  BY <1>1, <1>3 DEF Exact
<1>5. ASSUME NEW k \in DOMAIN u PROVE u[k] = {i \in R \ {o} : k \in Keys(seen[i])}
  BY <1>1, <1>2, <1>3
<1>6. DOMAIN u = UNION {Keys(seen[i]) : i \in R \ {o}}
  BY <1>4
<1> QED BY <1>5, <1>6 DEF Exact

(* Inserting an arrival leaves an index of it and the others. *)
LEMMA ReindexExact ==
  ASSUME NEW R, NEW ix, NEW s, NEW t, Exact(ix, R, s), NEW j, j \notin R,
         \A i \in R : t[i] = s[i]
  PROVE  Exact(Reindex(ix, j, Keys(t[j])), R \cup {j}, t)
<1> DEFINE r == Reindex(ix, j, Keys(t[j]))
<1>1. DOMAIN r = DOMAIN ix \cup Keys(t[j])
  BY DEF Reindex
<1>2. \A k \in DOMAIN r : r[k] = IF k \in Keys(t[j]) THEN Bucket(ix, k) \cup {j} ELSE ix[k]
  BY DEF Reindex
<1>3. ASSUME NEW k PROVE Bucket(ix, k) = {i \in R : k \in Keys(t[i])}
  BY DEF Bucket, Exact
<1>4. ASSUME NEW k PROVE k \in DOMAIN r <=> \E i \in R \cup {j} : k \in Keys(t[i])
  BY <1>1 DEF Exact
<1>5. ASSUME NEW k \in DOMAIN r PROVE r[k] = {i \in R \cup {j} : k \in Keys(t[i])}
  <2>1. CASE k \in Keys(t[j])
    BY <1>2, <1>3, <2>1
  <2>2. CASE k \notin Keys(t[j])
    <3>1. k \in DOMAIN ix /\ r[k] = ix[k] /\ ix[k] = Bucket(ix, k)
      BY <1>1, <1>2, <2>2 DEF Bucket
    <3> QED BY <1>3, <2>2, <3>1
  <2> QED BY <2>1, <2>2
<1>6. DOMAIN r = UNION {Keys(t[i]) : i \in R \cup {j}}
  BY <1>4
<1> QED BY <1>5, <1>6 DEF Exact

(* Links do not depend on which entry arrived first. *)
LEMMA LinkSymmetric ==
  ASSUME NEW a \in Entries, NEW b \in Entries
  PROVE  Link(a, b) <=> Link(b, a)
BY CorrelatorAssumption DEF Link, Nearby

(* The index finds just the retained arrivals linked to an entry. *)
LEMMA LinkedFact ==
  ASSUME Exact(index, Range(items), seen), NEW e \in Entries
  PROVE  Linked(e) = {i \in Range(items) : Link(e, seen[i])}
<1>1. ASSUME NEW k PROVE Bucket(index, k) = {i \in Range(items) : k \in Keys(seen[i])}
  BY DEF Exact, Bucket
<1>2. UNION {Bucket(index, k) : k \in Keys(e)}
        = {i \in Range(items) : Keys(e) \cap Keys(seen[i]) # {}}
  BY <1>1
<1> QED BY <1>2 DEF Linked, Link
--------------------------------------------------------------------------------
LEMMA InvInit == Init => Inv
<1> SUFFICES ASSUME Init PROVE Inv
  OBVIOUS
<1>1. Len(seen) = 0 /\ Len(items) = 0 /\ DOMAIN index = {} /\ Range(items) = {}
      /\ DOMAIN seen = {}
  BY DEF Init, Range
<1>2. TypeOK
  BY <1>1, CapType, CorrelatorAssumption, EmptySeq DEF Init, TypeOK
<1>3. IndexExact
  BY <1>1, CapType DEF Init, IndexExact
<1>4. SelectedExactly
  BY <1>1 DEF Init, SelectedExactly, Promise!Reported
<1> QED BY <1>2, <1>3, <1>4 DEF Inv

(* What Inv says of the buffer and the index, in the terms of the lemmas.  *)
LEMMA InvFact ==
  ASSUME Inv
  PROVE  /\ Len(seen) \in Nat /\ WindowOn(Len(seen), items)
         /\ Range(items) = Recent(Len(seen)) /\ Exact(index, Range(items), seen)
<1>1. Len(seen) \in Nat
  BY LenProperties DEF Inv, TypeOK
<1>2. WindowOn(Len(seen), items)
  BY DEF Inv, TypeOK, IndexExact, WindowOn
<1>3. Exact(index, Range(items), seen)
  BY DEF Inv, IndexExact, Exact
<1> QED BY <1>1, <1>2, <1>3, WindowFact

LEMMA AddStep ==
  ASSUME Inv, NEW e \in Entries, Add(e)
  PROVE  Inv'
<1> DEFINE n    == Len(seen)
           full == Len(items) >= Cap
           kept == IF full THEN Range(items) \ {Head(items)} ELSE Range(items)
           ix   == IF full THEN Unindex(index, Head(items)) ELSE index
<1>1. /\ n \in Nat /\ WindowOn(n, items) /\ Range(items) = Recent(n)
      /\ Exact(index, Range(items), seen) /\ Cap \in Nat \ {0}
  BY InvFact, CapType
<1>2. /\ seen' \in Seq(Entries) /\ Len(seen') = n + 1 /\ seen'[n + 1] = e
      /\ \A i \in 1..n : seen'[i] = seen[i]
  BY AppendProperties DEF Add, Full, Inv, TypeOK
<1>3. WindowOn(n + 1, items')
  BY <1>1, WindowSlides DEF Add, Full
<1>4. Range(items') = Recent(n + 1)
  BY <1>1, <1>3, WindowFact
<1>5. Recent(n + 1) = kept \cup {n + 1} /\ n + 1 \notin kept
  <2>1. CASE full
    <3>1. Len(items) = Cap /\ n >= Cap
      BY <1>1, <2>1 DEF WindowOn
    <3>2. Head(items) = n - Cap + 1
      <4>1. items \in Seq(1..n) /\ items # << >>
        BY <1>1, <3>1, EmptySeq DEF WindowOn
      <4>2. Head(items) = items[1]
        BY <4>1
      <4>3. items[1] = n - Len(items) + 1
        <5>1. 1 \in 1..Len(items)
          BY <1>1, <3>1
        <5>2. \A b \in 1..Len(items) : items[b] = n - Len(items) + b
          BY <1>1 DEF WindowOn
        <5> QED BY <5>1, <5>2
      <4> QED BY <3>1, <4>2, <4>3
    <3>3. kept = Recent(n) \ {n - Cap + 1}
      BY <1>1, <2>1, <3>2
    <3> QED BY <1>1, <3>1, <3>3 DEF Recent
  <2>2. CASE ~full
    <3>1. n < Cap
      BY <1>1, <2>2 DEF WindowOn
    <3>2. kept = Recent(n)
      BY <1>1, <2>2
    <3> QED BY <1>1, <3>1, <3>2 DEF Recent
  <2> QED BY <2>1, <2>2
<1>6. Exact(ix, kept, seen)
  <2>1. CASE full
    <3>1. Head(items) \in Range(items)
      BY <1>1, <2>1 DEF WindowOn, Range
    <3> QED BY <1>1, <2>1, <3>1, UnindexExact
  <2>2. CASE ~full
    BY <1>1, <2>2
  <2> QED BY <2>1, <2>2
<1>7. Exact(index', Range(items'), seen')
  <2>1. \A i \in kept : seen'[i] = seen[i]
    <3>1. kept \subseteq 1..n
      BY <1>1 DEF Recent
    <3> QED BY <1>2, <3>1
  <2>2. index' = Reindex(ix, n + 1, Keys(seen'[n + 1]))
    BY <1>2 DEF Add, Full
  <2>3. Exact(index', kept \cup {n + 1}, seen')
    <3> HIDE DEF ix, kept, n
    <3> QED BY <1>5, <1>6, <2>1, <2>2, ReindexExact
  <2> QED BY <1>4, <1>5, <2>3
<1>8. IndexExact'
  <2>1. /\ Len(items') = IF Len(seen') < Cap THEN Len(seen') ELSE Cap
        /\ items' = [b \in 1..Len(items') |-> Len(seen') - Len(items') + b]
    BY <1>2, <1>3 DEF WindowOn
  <2> QED BY <1>7, <2>1 DEF IndexExact, Exact
<1>9. TypeOK'
  <2>1. items' \in Seq(1..Len(seen')) /\ Len(items') <= Cap
    BY <1>1, <1>2, <1>3 DEF WindowOn
  <2>2. printed' \subseteq 1..Len(seen')
    <3>1. printed \subseteq 1..n /\ Range(items) \subseteq 1..n
      BY <1>1 DEF Inv, TypeOK, Recent
    <3>2. printed' \subseteq printed \cup Range(items) \cup {n + 1}
      BY DEF Add, Full
    <3>3. printed' \subseteq (1..n) \cup {n + 1}
      BY <3>1, <3>2
    <3> QED BY <1>1, <1>2, <3>3
  <2>3. \A k \in DOMAIN index' : index'[k] \subseteq 1..Len(seen')
    BY <1>2, <1>4, <1>7 DEF Exact, Recent
  <2>4. Len(seen') <= MaxArrivals
    BY <1>1, <1>2, CorrelatorAssumption DEF Add, Full
  <2> QED BY <1>2, <2>1, <2>2, <2>3, <2>4 DEF TypeOK
<1>10. SelectedExactly'
  <2>1. /\ seen \in Seq(Entries) /\ DOMAIN seen = 1..n /\ DOMAIN seen' = 1..(n + 1)
        /\ \A i \in 1..n : seen[i] \in Entries
    BY <1>1, <1>2, LenProperties, ElementOfSeq DEF Inv, TypeOK
  <2>2. Linked(e) = {i \in 1..n : n + 1 - i <= Cap /\ Link(e, seen[i])}
    <3>1. Linked(e) = {i \in Recent(n) : Link(e, seen[i])}
      BY <1>1, LinkedFact
    <3>2. Recent(n) = {i \in 1..n : n + 1 - i <= Cap}
      BY <1>1 DEF Recent
    <3> QED BY <3>1, <3>2
  <2>3. Linked(e) \subseteq Range(items)
    BY <1>1, LinkedFact
  <2>4. printed' = printed \cup (IF e.match THEN Linked(e) ELSE {})
                   \cup (IF e.match \/ \E i \in Linked(e) : seen[i].match THEN {n + 1} ELSE {})
    BY <2>3 DEF Add, Full
  <2>5. printed = Promise!Reported(seen)
    BY DEF Inv, SelectedExactly
  <2>6. ASSUME NEW i \in 1..n
        PROVE  i \in printed' <=> i \in Promise!Reported(seen')
    <3>1. i \in Promise!Reported(seen') <=>
            \/ i \in Promise!Reported(seen)
            \/ e.match /\ n + 1 - i <= Cap /\ Link(seen[i], e)
      <4>1. i # n + 1 /\ i - (n + 1) <= Cap
        BY <1>1
      <4>2. \A j \in 1..(n + 1) : j \in 1..n \/ j = n + 1
        BY <1>1
      <4>3. DOMAIN seen = 1..n /\ DOMAIN seen' = 1..(n + 1) /\ seen'[n + 1] = e
            /\ \A j \in 1..n : seen'[j] = seen[j] /\ j \in 1..(n + 1)
        BY <1>1, <1>2, <2>1
      <4> QED BY <4>1, <4>2, <4>3 DEF Promise!Reported
    <3>2. Link(seen[i], e) <=> Link(e, seen[i])
      BY <2>1, LinkSymmetric
    <3>3. i # n + 1
      BY <1>1
    <3> QED BY <2>2, <2>4, <2>5, <3>1, <3>2, <3>3
  <2>7. n + 1 \in printed' <=> n + 1 \in Promise!Reported(seen')
    <3>1. n + 1 \notin printed /\ n + 1 \notin Linked(e)
      BY <1>1, <2>2, <2>5, <2>1 DEF Promise!Reported
    <3>2. n + 1 \in Promise!Reported(seen') <=>
            e.match \/ \E j \in 1..n : seen[j].match /\ n + 1 - j <= Cap /\ Link(e, seen[j])
      <4>1. \A j \in 1..(n + 1) : (j \in 1..n /\ j # n + 1 /\ j - (n + 1) <= Cap) \/ j = n + 1
        BY <1>1
      <4> QED BY <1>1, <1>2, <2>1, <4>1 DEF Promise!Reported
    <3> QED BY <2>2, <2>4, <3>1, <3>2
  <2>8. printed' \subseteq 1..(n + 1) /\ Promise!Reported(seen') \subseteq 1..(n + 1)
    BY <1>2, <1>9, <2>1 DEF TypeOK, Promise!Reported
  <2>9. \A i \in 1..(n + 1) : i \in 1..n \/ i = n + 1
    BY <1>1
  <2>10. \A i \in 1..(n + 1) : i \in printed' <=> i \in Promise!Reported(seen')
    BY <2>6, <2>7, <2>9
  <2>11. printed' = Promise!Reported(seen')
    BY <2>8, <2>10
  <2> QED BY <2>11 DEF SelectedExactly, Promise!Reported
<1> QED BY <1>8, <1>9, <1>10 DEF Inv

LEMMA InvStep == Inv /\ [Next]_vars => Inv'
<1>1. ASSUME Inv, Next PROVE Inv'
  BY <1>1, AddStep DEF Next
<1>2. ASSUME Inv, UNCHANGED vars PROVE Inv'
  BY <1>2 DEF vars, Inv, TypeOK, IndexExact, SelectedExactly, Promise!Reported
<1> QED BY <1>1, <1>2

(* The three invariants hold together in every reachable state. *)
THEOREM Correct == Spec => []Inv
<1>1. Init => Inv
  BY InvInit
<1>2. Inv /\ [Next]_vars => Inv'
  BY InvStep
<1> QED BY <1>1, <1>2, PTL DEF Spec

(* The buffer is the last Limit arrivals and the index exactly their keys. *)
THEOREM IndexIsExact == Spec => []IndexExact
<1>1. Inv => IndexExact
  BY DEF Inv
<1> QED BY <1>1, Correct, PTL

(* Add returns the matches and what is directly linked to them, no less    *)
(* and no more, whatever was evicted in between.                           *)
THEOREM SelectionIsExact == Spec => []SelectedExactly
<1>1. Inv => SelectedExactly
  BY DEF Inv
<1> QED BY <1>1, Correct, PTL
--------------------------------------------------------------------------------
(* The loop over the retained items is a recursive function; that it has a *)
(* value at every position, and what that value is, is shown by induction  *)
(* over the positions.                                                     *)

KeptStep(q, S, k, b) ==
  IF b = 0 THEN << >>
  ELSE IF q[b] \in S THEN Append(k[b - 1], q[b]) ELSE k[b - 1]

(* The recursion of Kept is well founded.                                  *)
LEMMA KeptDefined ==
  ASSUME NEW q, NEW S, NEW m \in Nat
  PROVE  \E k : k = [b \in 0..m |-> KeptStep(q, S, k, b)]
<1> DEFINE G == {n \in Nat : \E k : k = [b \in 0..n |-> KeptStep(q, S, k, b)]}
<1>1. 0 \in G
  <2> DEFINE k == [b \in 0..0 |-> << >>]
  <2>1. \A b \in 0..0 : KeptStep(q, S, k, b) = << >>
    BY DEF KeptStep
  <2>2. k = [b \in 0..0 |-> KeptStep(q, S, k, b)]
    BY <2>1
  <2> QED BY <2>2
<1>2. ASSUME NEW n \in 1..m, n - 1 \in G PROVE n \in G
  <2>1. PICK k : k = [b \in 0..(n - 1) |-> KeptStep(q, S, k, b)]
    BY <1>2
  <2> DEFINE h == [b \in 0..n |-> IF b = n THEN KeptStep(q, S, k, n) ELSE k[b]]
  <2>2. \A b \in 0..n : b # n => b \in 0..(n - 1) /\ h[b] = k[b] /\ (b # 0 => b - 1 \in 0..n /\ b - 1 # n)
    OBVIOUS
  <2>3. \A b \in 0..n : h[b] = KeptStep(q, S, h, b)
    <3>1. n - 1 \in 0..n /\ n - 1 # n /\ n # 0 /\ n \in 0..n
      OBVIOUS
    <3>2. h[n] = KeptStep(q, S, k, n) /\ h[n - 1] = k[n - 1]
      BY <3>1
    <3>3. h[n] = KeptStep(q, S, h, n)
      <4> HIDE DEF h
      <4> QED BY <3>1, <3>2 DEF KeptStep
    <3>4. ASSUME NEW b \in 0..n, b # n PROVE h[b] = KeptStep(q, S, h, b)
      <4>1. h[b] = KeptStep(q, S, k, b)
        <5>1. \A c \in 0..(n - 1) : k[c] = KeptStep(q, S, k, c)
          BY <2>1
        <5> QED BY <2>2, <3>4, <5>1
      <4>2. b # 0 => h[b - 1] = k[b - 1]
        BY <2>2, <3>4
      <4> HIDE DEF h
      <4> QED BY <4>1, <4>2 DEF KeptStep
    <3> HIDE DEF h
    <3> QED BY <3>3, <3>4
  <2>4. h = [b \in 0..n |-> KeptStep(q, S, h, b)]
    BY <2>3
  <2> HIDE DEF h
  <2> QED BY <2>4
<1>3. 0..m \subseteq G
  <2> HIDE DEF G
  <2> QED BY <1>1, <1>2, PrefixInduction
<1> QED BY <1>3

Increasing(q) == \A a, b \in DOMAIN q : a < b => q[a] < q[b]

(* The loop returns just the chosen items, in the order of the buffer.     *)
LEMMA KeptFact ==
  ASSUME NEW q \in Seq(Nat), NEW S, Increasing(q)
  PROVE  /\ Kept(q, S) \in Seq(Nat) /\ Increasing(Kept(q, S))
         /\ Range(Kept(q, S)) = Range(q) \cap S
<1> DEFINE m == Len(q)
           k == CHOOSE k : k = [b \in 0..m |-> KeptStep(q, S, k, b)]
           upto(b) == {q[c] : c \in 1..b}
           G == {b \in 0..m : /\ k[b] \in Seq(Nat) /\ Increasing(k[b])
                              /\ Range(k[b]) = upto(b) \cap S}
<1>1. m \in Nat /\ \A b \in 1..m : q[b] \in Nat
  BY LenProperties, ElementOfSeq
<1>2. k = [b \in 0..m |-> KeptStep(q, S, k, b)]
  BY <1>1, KeptDefined
<1>3. Kept(q, S) = k[m]
  BY Zenon DEF Kept, KeptStep
<1>4. k[0] = << >> /\ \A b \in 1..m : k[b] = IF q[b] \in S THEN Append(k[b - 1], q[b]) ELSE k[b - 1]
  <2> HIDE DEF k, m
  <2>1. \A b \in 0..m : k[b] = KeptStep(q, S, k, b)
    BY <1>2
  <2> QED BY <1>1, <2>1 DEF KeptStep
<1> HIDE DEF k
<1>5. 0 \in G
  <2>1. 0 \in 0..m /\ upto(0) = {}
    BY <1>1
  <2>2. << >> \in Seq(Nat) /\ Range(<< >>) = {} /\ DOMAIN << >> = {}
    BY EmptySeq DEF Range
  <2> QED BY <1>4, <2>1, <2>2 DEF Increasing
<1>6. ASSUME NEW b \in 1..m, b - 1 \in G PROVE b \in G
  <2>1. upto(b) = upto(b - 1) \cup {q[b]}
    <3>1. \A c \in 1..b : c \in 1..(b - 1) \/ c = b
      BY <1>1
    <3>2. \A c \in 1..(b - 1) : c \in 1..b
      BY <1>1
    <3> QED BY <1>1, <3>1, <3>2
  <2>2. k[b - 1] \in Seq(Nat) /\ Increasing(k[b - 1]) /\ Range(k[b - 1]) = upto(b - 1) \cap S
    BY <1>6
  <2>3. CASE q[b] \notin S
    <3>1. k[b] = k[b - 1]
      BY <1>4, <2>3
    <3> QED BY <2>1, <2>2, <2>3, <3>1
  <2>4. CASE q[b] \in S
    <3> DEFINE p == k[b - 1]
               r == k[b]
    <3>1. r = Append(p, q[b]) /\ q[b] \in Nat /\ p \in Seq(Nat)
      BY <1>1, <1>4, <2>2, <2>4
    <3>2. \A i \in DOMAIN p : p[i] < q[b]
      <4> TAKE i \in DOMAIN p
      <4>1. PICK c \in 1..(b - 1) : p[i] = q[c]
        BY <2>2 DEF Range
      <4>2. c \in DOMAIN q /\ b \in DOMAIN q /\ c < b
        BY <1>1
      <4> QED BY <4>1, <4>2 DEF Increasing
    <3>3. Increasing(p) /\ Range(p) = upto(b - 1) \cap S
      BY <2>2
    <3> HIDE DEF p, r
    <3>4. r \in Seq(Nat) /\ Range(r) = Range(p) \cup {q[b]}
      BY <3>1, SendFact
    <3>5. Increasing(r)
      <4>1. Len(p) \in Nat /\ DOMAIN p = 1..Len(p) /\ DOMAIN r = 1..(Len(p) + 1)
            /\ r[Len(p) + 1] = q[b] /\ \A i \in 1..Len(p) : r[i] = p[i]
        BY <3>1, AppendProperties, LenProperties
      <4> SUFFICES ASSUME NEW i \in DOMAIN r, NEW j \in DOMAIN r, i < j PROVE r[i] < r[j]
        BY DEF Increasing
      <4>2. i \in 1..Len(p) /\ (j \in 1..Len(p) \/ j = Len(p) + 1)
        BY <4>1
      <4> QED BY <3>2, <3>3, <4>1, <4>2 DEF Increasing
    <3>6. Range(r) = upto(b) \cap S
      BY <2>1, <2>4, <3>3, <3>4
    <3> QED BY <3>4, <3>5, <3>6 DEF r
  <2> QED BY <2>3, <2>4
<1>7. 0..m \subseteq G
  <2> HIDE DEF G, m
  <2> QED BY <1>1, <1>5, <1>6, PrefixInduction
<1>8. upto(m) = Range(q)
  BY <1>1, RangeEquality
<1>9. m \in G
  <2> HIDE DEF G
  <2> QED BY <1>1, <1>7
<1> QED BY <1>3, <1>8, <1>9

(* What Add returns is what DirectLinks promises for this arrival.         *)
LEMMA AddImplements ==
  ASSUME Inv, Inv', NEW e \in Entries, Add(e)
  PROVE  Promise!Arrive(e)
<1> DEFINE n     == Len(seen) + 1
           prior == IF e.match THEN (Linked(e) \cap Range(items)) \ printed ELSE {}
           self  == e.match \/ \E i \in Linked(e) : seen[i].match
           kept  == Kept(items, prior)
           new   == IF self THEN <<n>> ELSE << >>
           out   == kept \o new
<1>1. /\ seen' = Append(seen, e)
      /\ printed' = printed \cup prior \cup (IF self THEN {n} ELSE {})
      /\ batch' = [b \in DOMAIN out |-> <<out[b], ~seen'[out[b]].match>>]
  BY DEF Add
<1>2. /\ Len(seen) \in Nat /\ WindowOn(Len(seen), items) /\ Range(items) \subseteq 1..Len(seen)
      /\ printed \subseteq 1..Len(seen)
  BY InvFact DEF Recent, Inv, TypeOK
<1>3. kept \in Seq(Nat) /\ Increasing(kept) /\ Range(kept) = prior
  <2>1. items \in Seq(Nat)
    <3>1. items \in Seq(1..Len(seen)) /\ 1..Len(seen) \subseteq Nat
      BY <1>2 DEF WindowOn
    <3> QED BY <3>1, SeqMonotonic
  <2>2. Increasing(items)
    <3>1. \A b \in 1..Len(items) : items[b] = Len(seen) - Len(items) + b
      BY <1>2 DEF WindowOn
    <3>2. DOMAIN items = 1..Len(items) /\ Len(items) \in Nat
      BY <2>1, LenProperties
    <3> QED BY <1>2, <3>1, <3>2 DEF Increasing
  <2>3. prior \subseteq Range(items)
    OBVIOUS
  <2> HIDE DEF prior
  <2> QED BY <2>1, <2>2, <2>3, KeptFact
<1>4. new \in Seq(Nat) /\ Len(new) = (IF self THEN 1 ELSE 0) /\ (self => new[1] = n)
  BY <1>2
<1>5. \A i \in prior : i \in 1..Len(seen) /\ i \notin printed
  BY <1>2
<1> HIDE DEF prior, self, kept, new
<1>6. /\ out \in Seq(Nat) /\ Len(kept) \in Nat /\ Len(out) = Len(kept) + Len(new)
      /\ DOMAIN out = 1..Len(out) /\ DOMAIN kept = 1..Len(kept)
      /\ \A b \in 1..Len(kept) : out[b] = kept[b] /\ kept[b] \in prior
      /\ \A b \in 1..Len(out) : b \in 1..Len(kept) \/ (self /\ b = Len(kept) + 1 /\ out[b] = n)
      /\ self => Len(kept) + 1 \in 1..Len(out) /\ out[Len(kept) + 1] = n
  <2>1. Len(kept) \in Nat /\ DOMAIN kept = 1..Len(kept) /\ Len(new) \in Nat
    BY <1>3, <1>4, LenProperties
  <2>2. /\ out \in Seq(Nat) /\ Len(out) = Len(kept) + Len(new)
        /\ \A b \in 1..Len(out) : out[b] = IF b <= Len(kept) THEN kept[b] ELSE new[b - Len(kept)]
    <3>1. /\ kept \o new \in Seq(Nat) /\ Len(kept \o new) = Len(kept) + Len(new)
          /\ \A b \in 1..(Len(kept) + Len(new)) :
               (kept \o new)[b] = IF b <= Len(kept) THEN kept[b] ELSE new[b - Len(kept)]
      BY <1>3, <1>4, ConcatProperties
    <3> QED BY <3>1
  <2> HIDE DEF out
  <2>3. DOMAIN out = 1..Len(out)
    BY <2>2, LenProperties
  <2>4. \A b \in 1..Len(kept) : out[b] = kept[b] /\ kept[b] \in prior
    <3>1. \A b \in 1..Len(kept) : kept[b] \in prior
      BY <1>3, <2>1 DEF Range
    <3>2. \A b \in 1..Len(kept) : b \in 1..Len(out) /\ b <= Len(kept)
      BY <1>4, <2>1, <2>2
    <3> QED BY <2>2, <3>1, <3>2
  <2>5. ASSUME NEW b \in 1..Len(out)
        PROVE  b \in 1..Len(kept) \/ (self /\ b = Len(kept) + 1 /\ out[b] = n)
    BY <1>4, <2>1, <2>2
  <2>6. self => Len(kept) + 1 \in 1..Len(out) /\ out[Len(kept) + 1] = n
    <3> HAVE self
    <3>1. Len(out) = Len(kept) + 1 /\ ~(Len(kept) + 1 <= Len(kept))
          /\ (Len(kept) + 1) - Len(kept) = 1 /\ Len(kept) + 1 \in 1..Len(out)
      BY <1>4, <2>1, <2>2
    <3> QED BY <1>4, <2>2, <3>1
  <2> QED BY <2>1, <2>2, <2>3, <2>4, <2>5, <2>6
<1>7. Range(out) = prior \cup (IF self THEN {n} ELSE {})
  <2> HIDE DEF out
  <2>1. ASSUME NEW i \in prior PROVE i \in Range(out)
    <3>1. PICK b \in 1..Len(kept) : kept[b] = i
      BY <1>3, <1>6 DEF Range
    <3>2. b \in 1..Len(out)
      BY <1>4, <1>6
    <3> QED BY <1>6, <3>1, <3>2 DEF Range
  <2>2. self => n \in Range(out)
    BY <1>6 DEF Range
  <2>3. ASSUME NEW b \in 1..Len(out) PROVE out[b] \in prior \cup (IF self THEN {n} ELSE {})
    BY <1>6
  <2> QED BY <1>6, <2>1, <2>2, <2>3 DEF Range
<1>8. Range(out) = Promise!Reported(seen') \ Promise!Reported(seen)
  <2>1. printed = Promise!Reported(seen) /\ printed' = Promise!Reported(seen')
    BY DEF Inv, SelectedExactly, Promise!Reported
  <2>2. n \notin printed
    BY <1>2
  <2> HIDE DEF out
  <2> QED BY <1>1, <1>5, <1>7, <2>1, <2>2
<1>9. /\ DOMAIN batch' = 1..Len(out)
      /\ \A b \in 1..Len(out) : batch'[b] = <<out[b], ~seen'[out[b]].match>>
  BY <1>1, <1>6
<1> HIDE DEF out
<1>10. Promise!Range(batch')
        = {<<i, ~seen'[i].match>> : i \in Promise!Reported(seen') \ Promise!Reported(seen)}
  <2>1. Promise!Range(batch') = {batch'[b] : b \in 1..Len(out)}
    BY <1>9 DEF Promise!Range
  <2>2. Range(out) = {out[b] : b \in 1..Len(out)}
    BY <1>6 DEF Range
  <2> DEFINE R == Promise!Reported(seen') \ Promise!Reported(seen)
  <2>3. R = {out[b] : b \in 1..Len(out)}
    BY <1>8, <2>2
  <2> HIDE DEF R
  <2> DEFINE report(i) == <<i, ~seen'[i].match>>
  <2>4. \A b \in 1..Len(out) : batch'[b] = report(out[b])
    BY <1>9
  <2>5. {batch'[b] : b \in 1..Len(out)} = {report(i) : i \in R}
    <3> HIDE DEF report
    <3>1. ASSUME NEW b \in 1..Len(out) PROVE \E i \in R : batch'[b] = report(i)
      <4>1. out[b] \in R /\ batch'[b] = report(out[b])
        BY <2>3, <2>4
      <4> QED BY <4>1
    <3>2. ASSUME NEW i \in R PROVE \E b \in 1..Len(out) : batch'[b] = report(i)
      <4>1. PICK b \in 1..Len(out) : i = out[b]
        BY <2>3
      <4> QED BY <2>4, <4>1
    <3>3. {batch'[b] : b \in 1..Len(out)} \subseteq {report(i) : i \in R}
      BY <3>1
    <3>4. {report(i) : i \in R} \subseteq {batch'[b] : b \in 1..Len(out)}
      BY <3>2
    <3> QED BY <3>3, <3>4
  <2> QED BY <2>1, <2>5 DEF R
<1>11. \A a, b \in DOMAIN batch' : a < b => batch'[a][1] < batch'[b][1]
  <2>0. DOMAIN batch' = 1..Len(out) /\ \A b \in 1..Len(out) : batch'[b][1] = out[b]
    BY <1>9
  <2>1. ASSUME NEW a \in 1..Len(out), NEW b \in 1..Len(out), a < b PROVE out[a] < out[b]
    <3>1. a \in 1..Len(kept)
      BY <1>6, <2>1
    <3>2. CASE b \in 1..Len(kept)
      BY <1>3, <1>6, <2>1, <3>1, <3>2 DEF Increasing
    <3>3. CASE out[b] = n
      BY <1>2, <1>5, <1>6, <2>1, <3>1, <3>3
    <3> QED BY <1>6, <3>2, <3>3
  <2> DEFINE l == Len(out)
             first(b) == batch'[b][1]
  <2>2. \A a, b \in 1..l : a < b => first(a) < first(b)
    BY <2>0, <2>1
  <2> QED BY <2>0, <2>2
<1> QED BY <1>1, <1>10, <1>11 DEF Promise!Arrive

(* search.go 102-160: correlation through a bounded buffer and an index    *)
(* implements the promise of DirectLinks: each Add reports just the new    *)
(* matches and neighbours, in arrival order, flagged as what they are.     *)
THEOREM CorrelatorImplementsPromise == Spec => KeepsPromise
<1>1. Init => Promise!Init
  BY DEF Init, Promise!Init
<1>2. Inv /\ Inv' /\ [Next]_vars => [Promise!Next]_<<seen, batch>>
  <2>1. ASSUME Inv, Inv', Next PROVE Promise!Next
    BY <2>1, AddImplements DEF Next, Promise!Next
  <2>2. UNCHANGED vars => UNCHANGED <<seen, batch>>
    BY DEF vars
  <2> QED BY <2>1, <2>2
<1> QED BY <1>1, <1>2, Correct, PTL DEF Spec, KeepsPromise, Promise!Spec
================================================================================
