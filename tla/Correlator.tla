------------------------------- MODULE Correlator ------------------------------
(***************************************************************************)
(* search.Correlator: the bounded buffer of arrivals and the index by key  *)
(* that let a match recover earlier context and later entries find an      *)
(* earlier match.  An item of the code is represented by the number of its *)
(* arrival; the entry it wraps is seen[i].                                 *)
(***************************************************************************)
EXTENDS Integers, Sequences, FiniteSets, Functions

CONSTANTS
  Limit,        \* -buffer; 0 stands for the default
  Window,       \* -window; 0 is unlimited
  Tokens,       \* -correlate
  Groups,       \* -correlate-by: a set of sets of aliased field names
  Entries,      \* the entries that can arrive
  Loopback,     \* the tokens that never link: 127.0.0.1, 0.0.0.0
  MaxArrivals   \* bound: arrivals explored

Absent == ""

ASSUME CorrelatorAssumption ==
  /\ Limit \in Int /\ Window \in Nat /\ Tokens \in BOOLEAN /\ MaxArrivals \in Nat
  /\ \A e \in Entries : e.time \in Nat /\ e.match \in BOOLEAN

VARIABLES
  seen,     \* the entries given to Add, in order
  items,    \* the retained arrivals, oldest first
  index,    \* key -> the retained arrivals that have it
  printed,  \* the arrivals returned so far
  batch     \* what the last Add returned, as <<arrival, Correlated>>

vars == <<seen, items, index, printed, batch>>

Cap == IF Limit <= 0 THEN 5000 ELSE Limit

(* The keys of an entry: its tokens, and for each group of aliases the     *)
(* value of every alias it has.                                            *)
Keys(e) ==
  (IF Tokens THEN {<<"token", t>> : t \in e.tokens \ Loopback} ELSE {})
  \cup UNION {{<<"field", g, e.fields[f]>> : f \in {f \in g : e.fields[f] # Absent}} :
                g \in Groups}

(* Without a window any two entries are near; with one, an unknown time is *)
(* near to nothing.                                                        *)
Nearby(a, b) ==
  \/ Window = 0
  \/ /\ a.time # 0 /\ b.time # 0
     /\ a.time - b.time >= -Window /\ a.time - b.time <= Window

Link(a, b) == Keys(a) \cap Keys(b) # {} /\ Nearby(a, b)

Init ==
  /\ seen = << >> /\ items = << >> /\ index = << >>
  /\ printed = {} /\ batch = << >>
--------------------------------------------------------------------------------
Bucket(ix, k) == IF k \in DOMAIN ix THEN ix[k] ELSE {}

(* Here and below a definition named Mutant... is a plausible bug in the    *)
(* definition that follows it: no specification uses it; replacing the      *)
(* definition by it must violate a property.                                *)
MutantUnindex(ix, i) == ix

(* An empty bucket is deleted from the index. *)
Unindex(ix, i) ==
  LET keys == Keys(seen[i])
  IN [k \in {k \in DOMAIN ix : k \in keys => ix[k] # {i}} |->
        IF k \in keys THEN ix[k] \ {i} ELSE ix[k]]

MutantReindex(ix, i, keys) ==
  [k \in DOMAIN ix \cup keys |-> IF k \in keys THEN {i} ELSE ix[k]]

Reindex(ix, i, keys) ==
  [k \in DOMAIN ix \cup keys |->
     IF k \in keys THEN Bucket(ix, k) \cup {i} ELSE ix[k]]

MutantLinked(e) == UNION {Bucket(index, k) : k \in Keys(e)}

(* The retained arrivals an entry is linked to, found through the index.   *)
Linked(e) ==
  {i \in UNION {Bucket(index, k) : k \in Keys(e)} : Nearby(e, seen[i])}

Full == Len(items) >= Cap

(* The elements of the queue q that are in S, in the order of q.           *)
MutantKept(q, S) ==
  LET kept[b \in 0..Len(q)] ==
        IF b = 0 THEN << >>
        ELSE IF q[b] \in S THEN <<q[b]>> \o kept[b - 1] ELSE kept[b - 1]
  IN kept[Len(q)]

Kept(q, S) ==
  LET kept[b \in 0..Len(q)] ==
        IF b = 0 THEN << >>
        ELSE IF q[b] \in S THEN Append(kept[b - 1], q[b]) ELSE kept[b - 1]
  IN kept[Len(q)]

(* Add returns the context a match recovers, in arrival order, and the     *)
(* entry itself if it matches or is linked to a match; then it evicts the  *)
(* oldest item of a full buffer and retains the entry.                     *)
Add(e) ==
  LET n     == Len(seen) + 1
      prior == IF e.match THEN (Linked(e) \cap Range(items)) \ printed ELSE {}
      self  == e.match \/ \E i \in Linked(e) : seen[i].match
      out   == Kept(items, prior) \o (IF self THEN <<n>> ELSE << >>)
  IN /\ Len(seen) < MaxArrivals
     /\ seen' = Append(seen, e)
     /\ printed' = printed \cup prior \cup (IF self THEN {n} ELSE {})
     /\ batch' = [b \in DOMAIN out |-> <<out[b], ~seen'[out[b]].match>>]
     /\ items' = Append(IF Full THEN Tail(items) ELSE items, n)
     /\ index' = Reindex(IF Full THEN Unindex(index, Head(items)) ELSE index, n, Keys(e))

Next == \E e \in Entries : Add(e)

Spec == Init /\ [][Next]_vars
--------------------------------------------------------------------------------
TypeOK ==
  /\ seen \in Seq(Entries) /\ Len(seen) <= MaxArrivals
  /\ items \in Seq(1..Len(seen)) /\ Len(items) <= Cap
  /\ printed \subseteq 1..Len(seen)
  /\ \A k \in DOMAIN index : index[k] \subseteq 1..Len(seen)

(* search.go 126-160: over any number of arrivals and evictions the buffer *)
(* holds the last Limit arrivals and the index exactly their keys, so that *)
(* no evicted item is found, no retained one is missed and no memory is    *)
(* left behind.                                                            *)
IndexExact ==
  /\ Len(items) = IF Len(seen) < Cap THEN Len(seen) ELSE Cap
  /\ items = [b \in 1..Len(items) |-> Len(seen) - Len(items) + b]
  /\ DOMAIN index = UNION {Keys(seen[i]) : i \in Range(items)}
  /\ \A k \in DOMAIN index : index[k] = {i \in Range(items) : k \in Keys(seen[i])}

Promise == INSTANCE DirectLinks WITH Arrivals <- Entries, Reach <- Cap

(* search.go 102-160: what has been returned is exactly the matches and    *)
(* their direct neighbours among arrivals at most Limit apart: links are   *)
(* symmetric in time and never transitive.                                 *)
SelectedExactly == printed = Promise!Reported(seen)

(* search.go 102-160 and README: correlation through the buffer and the    *)
(* index implements the promise of DirectLinks.                            *)
KeepsPromise == Promise!Spec
================================================================================
