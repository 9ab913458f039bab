------------------------------ MODULE SearchProofs -----------------------------
(***************************************************************************)
(* A whole search implements Pipeline and prints the answer, for every     *)
(* number of sources, every content and every query.  The proofs of        *)
(* Pipeline and of the Correlator are instantiated, not repeated: their    *)
(* inductive invariants hold of a search as soon as its steps are shown to *)
(* be steps of theirs.  What is new is LinkInv, which ties the two         *)
(* together: the correlator was given just the entries main has taken up   *)
(* that lie within the bounds, each once, and what main selected is what   *)
(* the correlator returned.                                                *)
(***************************************************************************)
EXTENDS Search, SequenceTheorems, FiniteSetTheorems, TLAPS

PP == INSTANCE PipelineProofs WITH
        Stamp   <- [e \in Events |-> Content[e].stamp],
        Options <- {s.opt : s \in Searches},
        context <- Held

CP == INSTANCE CorrelatorProofs WITH
        Entries <- Arrivals, MaxArrivals <- Cardinality(Events)

Within(e) == InRange(query, Content[e].time)

(* The search is one of those explored. *)
Asked == \E s \in Searches : opt = s.opt /\ query = s.query

(* The correlator was given each entry within the bounds, once.            *)
Given ==
  /\ ~opt.correlate => seen = << >>
  /\ \A i \in DOMAIN seen :
       /\ seen[i].id \in handled /\ seen[i] = Arrival(seen[i].id)
       /\ Within(seen[i].id) /\ Matched(seen[i].id) # "error"
  /\ \A i, j \in DOMAIN seen : seen[i].id = seen[j].id => i = j
  /\ opt.correlate =>
       \A e \in handled :
         Within(e) /\ Matched(e) # "error" => \E i \in DOMAIN seen : seen[i].id = e

(* An expression or a script that failed has failed the search.            *)
Noticed == \A e \in handled : Within(e) /\ Matched(e) = "error" => procErr

(* What main selected.                                                     *)
Chosen ==
  picked = IF opt.correlate THEN {seen[i].id : i \in printed}
           ELSE {e \in handled : Within(e) /\ Matched(e) = "yes"}

LinkInv == Asked /\ Given /\ Noticed /\ Chosen

SearchInv == PP!PoolInv /\ PP!FlowInv /\ PP!LedgerInv /\ CP!Inv /\ LinkInv
--------------------------------------------------------------------------------
(* The constants are those the two proofs assume.                          *)
LEMMA PipelineConstants == PP!PipelineAssumption
BY SearchAssumption
DEF P!PipelineAssumption, PP!PipelineAssumption, P!Stamps, PP!Stamps, P!OptionSpace,
    PP!OptionSpace, P!Events, PP!Events, P!Sources, PP!Sources

LEMMA CorrelatorConstants == CP!CorrelatorAssumption
BY SearchAssumption DEF C!CorrelatorAssumption, CP!CorrelatorAssumption

(* Search and the proofs instantiate the same specifications: P and PP, C  *)
(* and CP name the same initial states and the same steps.                 *)
LEMMA SameInit == P!Init => PP!Init
BY DEF P!Init, PP!Init, P!Workers, PP!Workers, P!Sources, PP!Sources

LEMMA SameNext == P!Next => PP!Next
<1> USE DEF P!mainVars, P!workerVars, P!history, PP!mainVars, PP!workerVars, PP!history
<1>1. P!Signal => PP!Signal
  BY DEF P!Signal, PP!Signal
<1>2. P!Feeder => PP!Feeder
  BY DEF P!Feeder, PP!Feeder, P!Feed, PP!Feed, P!FeederEnd, PP!FeederEnd, P!launched, PP!launched, P!Workers, PP!Workers
<1>3. P!Closer => PP!Closer
  BY DEF P!Closer, PP!Closer, P!CloseEntries, PP!CloseEntries, P!CloseErrs, PP!CloseErrs, P!AllExited, PP!AllExited, P!Workers, PP!Workers
<1>4. P!Terminated => PP!Terminated
  BY DEF P!Terminated, PP!Terminated, P!Quiescent, PP!Quiescent, P!vars, PP!vars, P!launched, PP!launched, P!AllExited, PP!AllExited, P!Workers, PP!Workers, P!errsClosed, PP!errsClosed
<1>5. ASSUME NEW w \in P!Workers, P!Worker(w) PROVE w \in PP!Workers /\ PP!Worker(w)
  BY <1>5 DEF P!Workers, PP!Workers, P!Worker, PP!Worker, P!Reader, PP!Reader, P!Fetch, PP!Fetch, P!ReadDone, PP!ReadDone, P!ReadFails, PP!ReadFails, P!Emit, PP!Emit, P!EmitAbort, PP!EmitAbort, P!DropError, PP!DropError, P!KeepError, PP!KeepError, P!Report, PP!Report, P!Cardinality, PP!Cardinality, P!WorkerExit, PP!WorkerExit, P!Current, PP!Current, P!ErrCap, PP!ErrCap
<1>6. P!Main => PP!Main
  BY DEF P!Main, PP!Main, P!Reject, PP!Reject, P!Launch, PP!Launch, P!Setup, PP!Setup, P!Drain, PP!Drain, P!DrainEnd, PP!DrainEnd,
         P!Discard, PP!Discard, P!OutOfRange, PP!OutOfRange, P!MatchFails, PP!MatchFails, P!Select, PP!Select, P!Receive, PP!Receive,
         P!Unreturned, PP!Unreturned, P!Events, PP!Events, P!Sources, PP!Sources, P!DeliverSorted, PP!DeliverSorted, P!DeliverPrinted, PP!DeliverPrinted,
         P!DeliverFails, PP!DeliverFails, P!DeliverEnd, PP!DeliverEnd, P!ConsumeEnd, PP!ConsumeEnd, P!Collect, PP!Collect, P!Verdict, PP!Verdict,
         P!Flush, PP!Flush, P!FlushFails, PP!FlushFails, P!FlushEnd, PP!FlushEnd, P!Unprinted, PP!Unprinted, P!NextSorted, PP!NextSorted,
         P!Before, PP!Before, P!Tied, PP!Tied, P!Range, PP!Range, P!Valid, PP!Valid, P!Pool, PP!Pool, P!Workers, PP!Workers, 
         P!entriesClosed, PP!entriesClosed, P!errsClosed, PP!errsClosed, P!Interrupted, PP!Interrupted
<1> QED BY <1>1, <1>2, <1>3, <1>4, <1>5, <1>6 DEF P!Next, PP!Next

LEMMA SameSteps == [P!Next]_P!vars => [PP!Next]_PP!vars
BY SameNext
DEF P!vars, PP!vars, P!mainVars, PP!mainVars, P!workerVars, PP!workerVars, P!history, PP!history

LEMMA SameAdd == ASSUME NEW a PROVE C!Add(a) <=> CP!Add(a)
BY DEF CP!Add, C!Add, CP!Linked, C!Linked, CP!Bucket, C!Bucket, CP!Keys, C!Keys, CP!Nearby, C!Nearby, CP!Kept, C!Kept, CP!Full, C!Full, CP!Cap, C!Cap,
       CP!Reindex, C!Reindex, CP!Unindex, C!Unindex, CP!Absent, C!Absent, CP!Range, C!Range

LEMMA SameLink == ASSUME NEW a, NEW b PROVE C!Link(a, b) <=> CP!Link(a, b)
BY DEF CP!Link, C!Link, CP!Keys, C!Keys, CP!Nearby, C!Nearby, CP!Absent, C!Absent

LEMMA SameTypes ==
  /\ PP!Sources = 1..N /\ PP!Events = Events
  /\ \A f : PP!Range(f) = Range(f) /\ CP!Range(f) = Range(f) /\ P!Range(f) = Range(f)
  /\ PP!Sent = P!Sent /\ CP!Cap = C!Cap
BY DEF PP!Sources, PP!Events, Events, PP!Range, CP!Range, P!Range, Range, PP!Sent, P!Sent,
       P!Events, P!Sources, CP!Cap, C!Cap
--------------------------------------------------------------------------------
(* An entry main takes up was sent, and was never taken up before.         *)
LEMMA EntryFact ==
  ASSUME PP!PoolInv, PP!FlowInv, PP!LedgerInv, P!Receive \/ P!MatchFails
  PROVE  /\ Entry \in Events /\ Entry \in P!Sent /\ Entry \notin handled
         /\ handled' = handled \cup {Entry} /\ mpc = "consume" /\ ~procErr
         /\ UNCHANGED opt
<1>1. /\ entries # << >> /\ handled' = handled \cup {Head(entries)} /\ mpc = "consume"
      /\ ~procErr /\ UNCHANGED opt
  BY DEF P!Receive, P!MatchFails
<1>2. entries \in Seq(Events)
  BY SameTypes DEF PP!PoolInv, PP!TypeOK
<1>3. Entry \in Events /\ Entry \in Range(entries)
  <2>1. Len(entries) \in Nat \ {0} /\ Entry = entries[1] /\ DOMAIN entries = 1..Len(entries)
    BY <1>1, <1>2, EmptySeq, LenProperties DEF Entry
  <2> QED BY <1>2, <2>1 DEF Range
<1>4. Entry[1] = Entry[1] /\ Entry[2] \in Nat /\ ~(Entry[2] < Entry[2])
  BY <1>3, PipelineConstants DEF Events, PP!PipelineAssumption
<1>5. \A f \in handled : f[1] = Entry[1] => f[2] < Entry[2]
  BY <1>3, SameTypes DEF PP!LedgerInv, PP!InOrder
<1>6. Entry \in P!Sent
  BY <1>3, SameTypes DEF PP!FlowInv, PP!InFlight
<1> QED BY <1>1, <1>3, <1>4, <1>5, <1>6 DEF Entry

LEMMA ArrivalFact ==
  ASSUME NEW e \in Events
  PROVE  Arrival(e) \in Arrivals /\ Arrival(e).id = e /\ Arrival(e).match = (Matched(e) = "yes")
<1> DEFINE a(m) == [id |-> e, time |-> Content[e].time, tokens |-> Content[e].tokens,
                    fields |-> Content[e].fields, match |-> m]
<1>1. \A m \in BOOLEAN : a(m) \in Arrivals
  BY DEF Arrivals
<1>2. Arrival(e) = a(TRUE) \/ Arrival(e) = a(FALSE)
  <2>1. CASE Matched(e) = "yes"
    BY <2>1 DEF Arrival
  <2>2. CASE Matched(e) # "yes"
    BY <2>2 DEF Arrival
  <2> QED BY <2>1, <2>2
<1>3. Arrival(e) \in Arrivals
  <2> HIDE DEF a
  <2> QED BY <1>1, <1>2
<1> QED BY <1>3 DEF Arrival

(* Add leaves the arrivals so far in place, appends the new one and returns*)
(* what the correlator had not returned yet.                               *)
LEMMA AddFact ==
  ASSUME CP!Inv, NEW a \in Arrivals, C!Add(a)
  PROVE  /\ CP!Inv'
         /\ Len(seen) \in Nat /\ DOMAIN seen = 1..Len(seen) /\ printed \subseteq DOMAIN seen
         /\ DOMAIN seen' = 1..(Len(seen) + 1) /\ seen'[Len(seen) + 1] = a
         /\ \A i \in DOMAIN seen : seen'[i] = seen[i]
         /\ printed \subseteq printed' /\ printed' \subseteq DOMAIN seen'
         /\ {b[1] : b \in Range(batch')} = printed' \ printed
<1>1. CP!Add(a)
  BY SameAdd
<1>2. CP!Inv'
  BY <1>1, CorrelatorConstants, CP!AddStep
<1>3. CP!Promise!Arrive(a)
  BY <1>1, <1>2, CorrelatorConstants, CP!AddImplements
<1>4. /\ seen \in Seq(Arrivals) /\ printed \subseteq 1..Len(seen)
      /\ printed = CP!Promise!Reported(seen)
  BY DEF CP!Inv, CP!TypeOK, CP!SelectedExactly
<1>5. printed' = CP!Promise!Reported(seen')
  BY <1>2 DEF CP!Inv, CP!SelectedExactly, CP!Promise!Reported
<1>6. /\ seen' = Append(seen, a) /\ printed \subseteq printed'
  BY <1>1 DEF CP!Add
<1>7. /\ Len(seen) \in Nat /\ DOMAIN seen = 1..Len(seen)
      /\ DOMAIN seen' = 1..(Len(seen) + 1) /\ seen'[Len(seen) + 1] = a
      /\ \A i \in DOMAIN seen : seen'[i] = seen[i]
  BY <1>4, <1>6, AppendProperties, LenProperties
<1>8. printed' \subseteq DOMAIN seen'
  BY <1>5 DEF CP!Promise!Reported
<1>9. {b[1] : b \in Range(batch')} = printed' \ printed
  <2> DEFINE New == printed' \ printed
  <2>1. Range(batch') = {<<i, ~seen'[i].match>> : i \in New}
    BY <1>3, <1>4, <1>5 DEF CP!Promise!Arrive, CP!Promise!Range, Range
  <2> HIDE DEF New
  <2>2. \A b \in Range(batch') : b[1] \in New
    BY <2>1
  <2>3. ASSUME NEW i \in New PROVE \E b \in Range(batch') : b[1] = i
    <3>1. <<i, ~seen'[i].match>> \in Range(batch')
      BY <2>1
    <3>2. <<i, ~seen'[i].match>>[1] = i
      OBVIOUS
    <3> QED BY <3>1, <3>2
  <2> QED BY <2>2, <2>3 DEF New
<1> QED BY <1>2, <1>4, <1>6, <1>7, <1>8, <1>9

(* The entry main hands to the correlator is new to it, so the arrivals    *)
(* keep distinct entries; what main selects is what is newly returned.     *)
LEMMA LinkedFact ==
  ASSUME SearchInv, SelectLinked
  PROVE  /\ CP!Inv' /\ Given'
         /\ selected' = {seen'[i].id : i \in printed' \ printed}
         /\ Held' = (Held \cup {Entry}) \ selected'
         /\ picked' = {seen'[i].id : i \in printed'}
         /\ selected' \subseteq Held \cup {Entry}
<1> DEFINE a == Arrival(Entry)
           n == Len(seen) + 1
<1>1. /\ Entry \in Events /\ Entry \notin handled /\ handled' = handled \cup {Entry}
      /\ UNCHANGED opt
  BY EntryFact DEF SearchInv, SelectLinked, Eligible
<1>2. a \in Arrivals /\ a.id = Entry
  BY <1>1, ArrivalFact
<1>3. /\ CP!Inv' /\ Len(seen) \in Nat /\ DOMAIN seen = 1..Len(seen)
      /\ printed \subseteq DOMAIN seen
      /\ DOMAIN seen' = 1..n /\ seen'[n] = a /\ \A i \in DOMAIN seen : seen'[i] = seen[i]
      /\ printed \subseteq printed' /\ printed' \subseteq DOMAIN seen'
      /\ {b[1] : b \in Range(batch')} = printed' \ printed
  <2> HIDE DEF a
  <2>1. CP!Inv /\ C!Add(a)
    BY DEF SearchInv, SelectLinked, a
  <2> QED BY <1>2, <2>1, AddFact
<1>4. /\ DOMAIN seen' = DOMAIN seen \cup {n} /\ n \notin DOMAIN seen
      /\ n \in DOMAIN seen' /\ n \notin printed
  BY <1>3
<1>5. /\ opt.correlate /\ query' = query
      /\ Within(Entry) /\ Matched(Entry) # "error"
      /\ selected' = {seen'[b[1]].id : b \in Range(batch')}
      /\ picked' = picked \cup selected'
  BY DEF SelectLinked, Eligible, Within
<1>6. /\ \A e : Arrival(e)' = Arrival(e) /\ Within(e)' = Within(e) /\ Matched(e)' = Matched(e)
  BY <1>5 DEF Arrival, Within, Matched
<1> HIDE DEF a, n
<1>7. Given /\ picked = {seen[i].id : i \in printed}
  BY <1>5 DEF SearchInv, LinkInv, Chosen
<1>8. /\ \A i \in DOMAIN seen : seen[i].id \in handled
      /\ \A i, j \in DOMAIN seen : seen[i].id = seen[j].id => i = j
  BY <1>7 DEF Given
<1>9. \A i, j \in DOMAIN seen' : seen'[i].id = seen'[j].id => i = j
  <2> SUFFICES ASSUME NEW i \in DOMAIN seen', NEW j \in DOMAIN seen', seen'[i].id = seen'[j].id
               PROVE  i = j
    OBVIOUS
  <2>1. CASE i \in DOMAIN seen /\ j \in DOMAIN seen
    BY <1>3, <1>8, <2>1
  <2>2. CASE i = n /\ j \in DOMAIN seen
    BY <1>1, <1>2, <1>3, <1>8, <2>2
  <2>3. CASE i \in DOMAIN seen /\ j = n
    BY <1>1, <1>2, <1>3, <1>8, <2>3
  <2> QED BY <1>4, <2>1, <2>2, <2>3
<1>10. Given'
  <2>1. ASSUME NEW i \in DOMAIN seen'
        PROVE  /\ seen'[i].id \in handled' /\ seen'[i] = Arrival(seen'[i].id)
               /\ Within(seen'[i].id) /\ Matched(seen'[i].id) # "error"
    <3>1. CASE i \in DOMAIN seen
      BY <1>1, <1>3, <1>7, <3>1 DEF Given
    <3>2. CASE i = n
      BY <1>1, <1>2, <1>3, <1>5, <3>2 DEF a
    <3> QED BY <1>4, <3>1, <3>2
  <2>2. ASSUME NEW e \in handled', Within(e), Matched(e) # "error"
        PROVE  \E i \in DOMAIN seen' : seen'[i].id = e
    <3>1. CASE e \in handled
      <4>1. PICK i \in DOMAIN seen : seen[i].id = e
        BY <1>5, <1>7, <2>2, <3>1 DEF Given
      <4> QED BY <1>3, <1>4, <4>1
    <3>2. CASE e = Entry
      BY <1>2, <1>3, <1>4, <3>2
    <3> QED BY <1>1, <3>1, <3>2
  <2>3. opt'.correlate
    BY <1>1, <1>5
  <2> QED BY <1>6, <1>9, <2>1, <2>2, <2>3 DEF Given
<1>11. selected' = {seen'[i].id : i \in printed' \ printed}
  BY <1>3, <1>5
<1>12. Held = {seen'[i].id : i \in DOMAIN seen \ printed}
  BY <1>3 DEF Held
<1>13. Held' = {seen'[i].id : i \in DOMAIN seen' \ printed'}
  BY DEF Held
<1>14. seen'[n].id = Entry
  BY <1>2, <1>3
<1>15. Held \cup {Entry} = {seen'[i].id : i \in DOMAIN seen' \ printed}
  BY <1>4, <1>12, <1>14
<1>16. Held' = (Held \cup {Entry}) \ selected'
  <2> DEFINE D == DOMAIN seen'
             f(i) == seen'[i].id
  <2>1. \A i, j \in D : f(i) = f(j) => i = j
    BY <1>9
  <2>2. printed \subseteq printed' /\ printed' \subseteq D
    BY <1>3
  <2> HIDE DEF D, f
  <2>3. {f(i) : i \in D \ printed'} = {f(i) : i \in D \ printed} \ {f(i) : i \in printed' \ printed}
    BY <2>1, <2>2
  <2> QED BY <1>11, <1>13, <1>15, <2>3 DEF D, f
<1>17. picked' = {seen'[i].id : i \in printed'}
  <2>1. picked = {seen'[i].id : i \in printed}
    BY <1>3, <1>7
  <2> QED BY <1>3, <1>5, <1>11, <2>1
<1>18. selected' \subseteq Held \cup {Entry}
  BY <1>3, <1>11, <1>15
<1> QED BY <1>3, <1>10, <1>11, <1>16, <1>17, <1>18

(* Without correlation nothing is held and the entry alone is selected.    *)
LEMMA MatchedFact ==
  ASSUME SearchInv, SelectMatch
  PROVE  /\ Held = {} /\ Held' = {} /\ selected' \subseteq {Entry}
         /\ seen' = << >> /\ printed' = printed
<1>1. ~opt.correlate /\ UNCHANGED correlatorVars
  BY DEF SelectMatch
<1>2. seen = << >>
  BY <1>1 DEF SearchInv, LinkInv, Given
<1>3. seen' = << >> /\ printed' = printed
  BY <1>1, <1>2 DEF correlatorVars
<1>4. Held = {} /\ Held' = {}
  BY <1>2, <1>3 DEF Held
<1>5. selected' \subseteq {Entry}
  BY DEF SelectMatch
<1> QED BY <1>3, <1>4, <1>5

(* A step of a search is a step of Pipeline. *)
LEMMA StepImplements == SearchInv /\ [Next]_vars => [P!Next]_P!vars
<1> SUFFICES ASSUME SearchInv, [Next]_vars PROVE [P!Next]_P!vars
  OBVIOUS
<1>1. CASE OutOfRange \/ MatchFails
  BY <1>1 DEF OutOfRange, MatchFails, P!Next, P!Main
<1>2. CASE SelectMatch
  <2>1. P!Receive /\ mpc' = "deliver" /\ picked' = picked \cup selected'
        /\ UNCHANGED procErr /\ ~opt.correlate
    BY <1>2 DEF SelectMatch, Eligible
  <2>2. selected' \in SUBSET {Entry} /\ Held' = {} /\ UNCHANGED cancelled
    BY <1>2, <2>1, MatchedFact DEF P!Receive
  <2>3. P!Select
    BY <2>1, <2>2 DEF P!Select, Entry
  <2> QED BY <2>3 DEF P!Next, P!Main
<1>3. CASE SelectLinked
  <2>1. P!Receive /\ mpc' = "deliver" /\ picked' = picked \cup selected'
        /\ UNCHANGED procErr /\ opt.correlate
    BY <1>3 DEF SelectLinked, Eligible
  <2>2. /\ selected' \in SUBSET (Held \cup {Entry}) /\ UNCHANGED cancelled
        /\ Held' = (Held \cup {Entry}) \ selected'
    BY <1>3, <2>1, LinkedFact DEF P!Receive
  <2>3. P!Select
    BY <2>1, <2>2 DEF P!Select, P!Unreturned, Entry
  <2> QED BY <2>3 DEF P!Next, P!Main
<1>4. CASE \E e \in Events : Deliver(e)
  BY <1>4 DEF Deliver, P!Next, P!Main, P!Events, P!Sources, Events
<1>5. CASE Elsewhere
  BY <1>5 DEF Elsewhere, P!Next, P!Main
<1>6. CASE UNCHANGED vars
  <2>1. Held' = Held
    BY <1>6 DEF vars, correlatorVars, Held
  <2> QED BY <1>6, <2>1 DEF vars, P!vars, P!mainVars, P!workerVars, P!history
<1> QED BY <1>1, <1>2, <1>3, <1>4, <1>5, <1>6 DEF Next

(* A step of a search is one of the correlator, or leaves it alone. *)
LEMMA CorrelatorStep == SearchInv /\ [Next]_vars => [CP!Next]_CP!vars
<1> SUFFICES ASSUME SearchInv, [Next]_vars PROVE [CP!Next]_CP!vars
  OBVIOUS
<1>1. CASE SelectLinked
  <2>1. Entry \in Events /\ C!Add(Arrival(Entry))
    BY <1>1, EntryFact DEF SearchInv, SelectLinked, Eligible
  <2>2. Arrival(Entry) \in Arrivals /\ CP!Add(Arrival(Entry))
    BY <2>1, ArrivalFact, SameAdd
  <2> QED BY <2>2 DEF CP!Next
<1>2. CASE ~SelectLinked
  <2>1. UNCHANGED correlatorVars
    BY <1>2 DEF Next, vars, OutOfRange, MatchFails, SelectMatch, Deliver, Elsewhere
  <2> QED BY <2>1 DEF correlatorVars, CP!vars
<1> QED BY <1>1, <1>2

(* What LinkInv is about changes only when main takes up an entry.         *)
LEMMA ElsewhereFact ==
  ASSUME Elsewhere \/ (\E e \in Events : Deliver(e)) \/ UNCHANGED vars
  PROVE  UNCHANGED <<query, opt, handled, picked, correlatorVars>> /\ (procErr => procErr')
<1> USE DEF P!mainVars, P!workerVars, P!history
<1>1. CASE UNCHANGED vars
  BY <1>1 DEF vars
<1>2. CASE \E e \in Events : Deliver(e)
  BY <1>2 DEF Deliver, P!DeliverSorted, P!DeliverPrinted
<1>3. CASE Elsewhere
  <2>1. UNCHANGED <<query, correlatorVars>>
    BY <1>3 DEF Elsewhere
  <2>2. CASE P!Signal \/ P!Feeder \/ P!Closer \/ P!Terminated
    BY <2>1, <2>2 DEF P!Signal, P!Feeder, P!Feed, P!FeederEnd, P!Closer, P!CloseEntries,
       P!CloseErrs, P!Terminated, P!vars
  <2>3. CASE \E w \in P!Workers : P!Worker(w)
    BY <2>1, <2>3 DEF P!Worker, P!Reader, P!Fetch, P!ReadDone, P!ReadFails, P!Emit, P!EmitAbort,
       P!DropError, P!KeepError, P!Report, P!WorkerExit
  <2>4. CASE P!Reject \/ P!Launch \/ P!Setup \/ P!Drain \/ P!DrainEnd \/ P!Discard
             \/ P!DeliverFails \/ P!DeliverEnd
    BY <2>1, <2>4 DEF P!Reject, P!Launch, P!Setup, P!Drain, P!DrainEnd, P!Discard,
       P!DeliverFails, P!DeliverEnd
  <2>5. CASE P!ConsumeEnd \/ (\E s \in P!Sources : P!Collect(s)) \/ P!Verdict
             \/ P!Flush \/ P!FlushFails \/ P!FlushEnd
    BY <2>1, <2>5 DEF P!ConsumeEnd, P!Collect, P!Verdict, P!Flush, P!FlushFails, P!FlushEnd
  <2> QED BY <1>3, <2>2, <2>3, <2>4, <2>5 DEF Elsewhere
<1> QED BY <1>1, <1>2, <1>3

LEMMA LinkStep == SearchInv /\ [Next]_vars => LinkInv'
<1> SUFFICES ASSUME SearchInv, [Next]_vars PROVE LinkInv'
  OBVIOUS
<1>1. Asked /\ Given /\ Noticed /\ Chosen
  BY DEF SearchInv, LinkInv
<1>2. ASSUME UNCHANGED <<query, opt, handled, picked, correlatorVars>>, procErr => procErr'
      PROVE  LinkInv'
  <2>1. UNCHANGED <<query, opt, handled, picked, seen, printed>>
    BY <1>2 DEF correlatorVars
  <2>2. \A e : Arrival(e)' = Arrival(e) /\ Within(e)' = Within(e) /\ Matched(e)' = Matched(e)
    BY <2>1 DEF Arrival, Within, Matched
  <2>3. Asked' /\ Given'
    BY <1>1, <2>1, <2>2 DEF Asked, Given
  <2>4. Noticed' /\ Chosen'
    BY <1>1, <1>2, <2>1, <2>2 DEF Noticed, Chosen
  <2> QED BY <2>3, <2>4 DEF LinkInv
<1>3. ASSUME P!Receive \/ P!MatchFails, query' = query
      PROVE  /\ Entry \in Events /\ Entry \notin handled /\ handled' = handled \cup {Entry}
             /\ ~procErr /\ UNCHANGED opt /\ Asked'
             /\ \A e : Arrival(e)' = Arrival(e) /\ Within(e)' = Within(e) /\ Matched(e)' = Matched(e)
  <2>1. Entry \in Events /\ Entry \notin handled /\ handled' = handled \cup {Entry} /\ ~procErr
        /\ UNCHANGED opt
    BY <1>3, EntryFact DEF SearchInv
  <2> QED BY <1>1, <1>3, <2>1 DEF Asked, Arrival, Within, Matched
<1>4. CASE OutOfRange
  <2>1. /\ P!Receive /\ UNCHANGED <<query, seen, printed, picked>> /\ ~Within(Entry)
    BY <1>4 DEF OutOfRange, P!OutOfRange, correlatorVars, Within
  <2>2. Asked' /\ Given'
    BY <1>1, <1>3, <2>1 DEF Given
  <2>3. Noticed' /\ Chosen'
    BY <1>1, <1>3, <2>1 DEF Noticed, Chosen
  <2> QED BY <2>2, <2>3 DEF LinkInv
<1>5. CASE MatchFails
  <2>1. /\ P!MatchFails /\ UNCHANGED <<query, seen, printed, picked>> /\ Matched(Entry) = "error"
        /\ procErr'
    BY <1>5 DEF MatchFails, P!MatchFails, correlatorVars
  <2>2. Asked' /\ Given'
    BY <1>1, <1>3, <2>1 DEF Given
  <2>3. Noticed' /\ Chosen'
    BY <1>1, <1>3, <2>1 DEF Noticed, Chosen
  <2> QED BY <2>2, <2>3 DEF LinkInv
<1>6. CASE SelectMatch
  <2>1. /\ P!Receive /\ UNCHANGED <<query, procErr>> /\ Within(Entry) /\ Matched(Entry) # "error"
        /\ ~opt.correlate /\ seen' = << >> /\ printed' = printed
        /\ picked' = picked \cup IF Matched(Entry) = "yes" THEN {Entry} ELSE {}
    BY <1>6, MatchedFact DEF SelectMatch, Eligible, Within
  <2>2. Asked' /\ Given'
    BY <1>3, <2>1 DEF Given
  <2>3. Noticed'
    BY <1>1, <1>3, <2>1 DEF Noticed
  <2>4. picked = {e \in handled : Within(e) /\ Matched(e) = "yes"}
    BY <1>1, <2>1 DEF Chosen
  <2>5. picked' = {e \in handled' : Within(e) /\ Matched(e) = "yes"}
    BY <1>3, <2>1, <2>4
  <2>6. Chosen'
    BY <1>3, <2>1, <2>5 DEF Chosen
  <2> QED BY <2>2, <2>3, <2>6 DEF LinkInv
<1>7. CASE SelectLinked
  <2>1. /\ P!Receive /\ UNCHANGED <<query, procErr>> /\ Matched(Entry) # "error" /\ opt.correlate
        /\ Given' /\ picked' = {seen'[i].id : i \in printed'}
    BY <1>7, LinkedFact DEF SelectLinked, Eligible
  <2>2. Noticed'
    BY <1>1, <1>3, <2>1 DEF Noticed
  <2>3. Chosen'
    BY <1>3, <2>1 DEF Chosen
  <2> QED BY <1>3, <2>1, <2>2, <2>3 DEF LinkInv
<1>8. CASE Elsewhere \/ (\E e \in Events : Deliver(e)) \/ UNCHANGED vars
  BY <1>2, <1>8, ElsewhereFact
<1> QED BY <1>4, <1>5, <1>6, <1>7, <1>8 DEF Next

LEMMA SearchInit == Init => SearchInv
<1> SUFFICES ASSUME Init PROVE SearchInv
  OBVIOUS
<1>1. PP!PoolInv /\ PP!FlowInv /\ PP!LedgerInv
  <2>1. PP!Init
    BY SameInit DEF Init
  <2> QED BY <2>1, PipelineConstants, PP!PoolInit, PP!FlowInit, PP!LedgerInit
<1>2. CP!Inv
  <2>1. CP!Init
    BY DEF Init, C!Init, CP!Init
  <2> QED BY <2>1, CorrelatorConstants, CP!InvInit
<1>3. seen = << >> /\ printed = {} /\ handled = {} /\ picked = {}
  BY DEF Init, C!Init, P!Init
<1>4. LinkInv
  BY <1>3 DEF Init, LinkInv, Asked, Given, Noticed, Chosen
<1> QED BY <1>1, <1>2, <1>4 DEF SearchInv

LEMMA SearchStep == SearchInv /\ [Next]_vars => SearchInv'
<1> SUFFICES ASSUME SearchInv, [Next]_vars PROVE SearchInv'
  OBVIOUS
<1>1. [PP!Next]_PP!vars
  BY StepImplements, SameSteps
<1>2. PP!PoolInv /\ PP!FlowInv /\ PP!LedgerInv /\ CP!Inv
  BY DEF SearchInv
<1>3. PP!PoolInv'
  BY <1>1, <1>2, PipelineConstants, PP!PoolStep
<1>4. PP!FlowInv'
  BY <1>1, <1>2, PipelineConstants, PP!FlowStep
<1>5. PP!LedgerInv'
  BY <1>1, <1>2, PipelineConstants, PP!LedgerStep
<1>6. CP!Inv'
  BY <1>2, CorrelatorStep, CorrelatorConstants, CP!InvStep
<1>7. LinkInv'
  BY LinkStep
<1> QED BY <1>3, <1>4, <1>5, <1>6, <1>7 DEF SearchInv

(* The invariants of Pipeline and of the Correlator hold of a search, with *)
(* what ties them together.                                                *)
THEOREM SearchCorrect == Spec => []SearchInv
<1>1. Init => SearchInv
  BY SearchInit
<1>2. SearchInv /\ [Next]_vars => SearchInv'
  BY SearchStep
<1> QED BY <1>1, <1>2, PTL DEF Spec

(* A search with its query and its correlator is one of the searches       *)
(* Pipeline allows, so what is proved of Pipeline holds of it.             *)
THEOREM SearchImplementsPipeline == Spec => ImplementsPipeline
<1>1. Init => P!Init
  BY DEF Init
<1>2. SearchInv /\ [Next]_vars => [P!Next]_P!vars
  BY StepImplements
<1> QED BY <1>1, <1>2, SearchCorrect, PTL DEF Spec, ImplementsPipeline, P!Spec

(* README.md 75-77, main.go 188-319: with its query and its correlator a   *)
(* search keeps the promise of SearchContract, as Pipeline does.           *)
THEOREM SearchKeepsContract == Spec => P!KeepsContract
<1> USE DEF P!Contract!vars, PP!Contract!vars
<1>1. /\ \A s : PP!Contract!Range(s) = P!Contract!Range(s)
      /\ \A e, f : PP!Precedes(e, f) <=> P!Precedes(e, f)
      /\ PP!Sources = P!Sources /\ PP!Contract!Records = P!Contract!Records
  BY DEF PP!Contract!Range, P!Contract!Range, PP!Precedes, P!Precedes, PP!Sources, P!Sources,
         PP!Contract!Records, P!Contract!Records
<1>2. PP!Sent = P!Sent /\ PP!Sent' = P!Sent'
  BY DEF PP!Sent, P!Sent, PP!Events, P!Events, PP!Sources, P!Sources
<1>3. PP!Contract!Init => P!Contract!Init
  BY <1>1, <1>2 DEF PP!Contract!Init, P!Contract!Init
<1>4. [PP!Contract!Next]_PP!Contract!vars => [P!Contract!Next]_P!Contract!vars
  BY <1>1, <1>2 DEF PP!Contract!Next, P!Contract!Next, PP!Contract!Running, P!Contract!Running,
     PP!Contract!ReadEntry, P!Contract!ReadEntry, PP!Contract!EndSource, P!Contract!EndSource,
     PP!Contract!Take, P!Contract!Take, PP!Contract!Write, P!Contract!Write,
     PP!Contract!Break, P!Contract!Break, PP!Contract!Succeed, P!Contract!Succeed,
     PP!Contract!Fail, P!Contract!Fail
<1>5. Init => PP!Contract!Init
  BY SameInit, PipelineConstants, PP!ContractInit DEF Init
<1>6. SearchInv /\ SearchInv' /\ [Next]_vars => [PP!Contract!Next]_PP!Contract!vars
  BY StepImplements, SameSteps, PipelineConstants, PP!ContractStep DEF SearchInv
<1> QED
  BY <1>3, <1>4, <1>5, <1>6, SearchCorrect, PTL DEF Spec, P!KeepsContract, P!Contract!Spec

(* search.go 102-160, called from main.go 279: what the correlator returns *)
(* to main in a search is what DirectLinks promises of the entries main    *)
(* gave it.                                                                *)
THEOREM SearchKeepsPromise == Spec => C!KeepsPromise
<1>1. Init => C!Promise!Init
  BY DEF Init, C!Init, C!Promise!Init
<1>2. SearchInv /\ SearchInv' /\ [Next]_vars => [C!Promise!Next]_<<seen, batch>>
  <2> SUFFICES ASSUME SearchInv, SearchInv', [Next]_vars, ~UNCHANGED <<seen, batch>>
               PROVE  C!Promise!Next
    OBVIOUS
  <2>1. PICK a \in Arrivals : CP!Add(a)
    BY CorrelatorStep DEF CP!Next, CP!vars
  <2>2. CP!Promise!Arrive(a)
    <3>1. CP!Inv /\ CP!Inv'
      BY DEF SearchInv
    <3> QED BY <2>1, <3>1, CorrelatorConstants, CP!AddImplements
  <2>3. \A s : CP!Promise!Reported(s) = C!Promise!Reported(s)
    BY SameTypes, SameLink DEF CP!Promise!Reported, C!Promise!Reported
  <2>4. C!Promise!Arrive(a)
    BY <2>2, <2>3 DEF CP!Promise!Arrive, C!Promise!Arrive, CP!Promise!Range, C!Promise!Range
  <2> QED BY <2>1, <2>4 DEF C!Promise!Next
<1> QED BY <1>1, <1>2, SearchCorrect, PTL DEF Spec, C!KeepsPromise, C!Promise!Spec
--------------------------------------------------------------------------------
(* What lies within the bounds, in the words of PrintsTheAnswer.           *)
LEMMA CandidatesFact ==
  ASSUME Asked
  PROVE  /\ Candidates = {e \in P!Sent : Within(e)}
         /\ \A e \in Candidates : Matched(e) \in {"yes", "no", "error"}
<1>1. query.since \in Nat /\ query.until \in Nat
  BY SearchAssumption DEF Asked
<1>2. P!Sent \subseteq Events
  BY DEF P!Sent, P!Events, P!Sources, Events
<1>3. ASSUME NEW e \in Events
      PROVE  Within(e) <=> /\ query.since # 0 => Content[e].time >= query.since
                           /\ query.until # 0 => Content[e].time # 0
                                                 /\ Content[e].time <= query.until
  <2>1. Content[e].time \in Nat
    BY SearchAssumption
  <2> QED BY <1>1, <2>1 DEF Within, InRange, Unknown
<1>4. Candidates = {e \in P!Sent : Within(e)}
  BY <1>2, <1>3 DEF Candidates
<1>5. ASSUME NEW e \in Events PROVE Matched(e) \in {"yes", "no", "error"}
  BY SearchAssumption DEF Matched, Match
<1> QED BY <1>2, <1>4, <1>5

(* A finite set holds at least as many entries as were given, each once.   *)
LEMMA GivenFact ==
  ASSUME CP!Inv, Given, NEW S, IsFiniteSet(S), \A i \in DOMAIN seen : seen[i].id \in S
  PROVE  Len(seen) <= Cardinality(S) /\ Cardinality(S) \in Nat
<1>1. Len(seen) \in Nat /\ DOMAIN seen = 1..Len(seen)
  <2>1. seen \in Seq(Arrivals)
    BY DEF CP!Inv, CP!TypeOK
  <2> QED BY <2>1, LenProperties
<1> DEFINE f == [i \in 1..Len(seen) |-> seen[i].id]
<1>2. f \in Injection(1..Len(seen), S)
  BY <1>1 DEF Given, Injection, IsInjective
<1> HIDE DEF f
<1>3. Cardinality(1..Len(seen)) <= Cardinality(S)
  BY <1>2, FS_Injection
<1>4. Cardinality(1..Len(seen)) = Len(seen)
  BY <1>1, FS_Interval
<1> QED BY <1>3, <1>4, FS_CardinalityType

LEMMA EventsFinite == IsFiniteSet(Events)
<1>1. N \in Int /\ MaxEvents \in Int /\ 1 \in Int
  BY PipelineConstants DEF PP!PipelineAssumption
<1>2. IsFiniteSet(1..N) /\ IsFiniteSet(1..MaxEvents)
  BY <1>1, FS_Interval
<1> QED BY <1>2, FS_Product DEF Events

(* What a correlating search has returned, once all was read.              *)
LEMMA LinkedAnswer ==
  ASSUME CP!Inv, Given, Chosen, opt.correlate,
         Candidates = {e \in handled : Within(e)},
         \A e \in Candidates : Matched(e) # "error"
  PROVE  /\ Matches \subseteq picked /\ picked \subseteq Answer
         /\ Cardinality(Candidates) <= C!Cap + 1 => picked = Answer
<1>1. /\ picked = {seen[i].id : i \in printed}
      /\ printed = CP!Promise!Reported(seen)
      /\ DOMAIN seen = 1..Len(seen) /\ Len(seen) \in Nat
  <2>1. seen \in Seq(Arrivals)
    BY DEF CP!Inv, CP!TypeOK
  <2>2. printed = CP!Promise!Reported(seen)
    BY DEF CP!Inv, CP!SelectedExactly
  <2> QED BY <2>1, <2>2, LenProperties DEF Chosen
<1>2. ASSUME NEW i \in DOMAIN seen
      PROVE  /\ seen[i] = Arrival(seen[i].id) /\ seen[i].id \in Candidates
             /\ seen[i].match <=> seen[i].id \in Matches
  <2>1. seen[i] = Arrival(seen[i].id) /\ seen[i].id \in Candidates
    BY DEF Given
  <2>2. seen[i].match <=> Matched(seen[i].id) = "yes"
    <3> DEFINE e == seen[i].id
    <3>1. Arrival(e).match = (Matched(e) = "yes")
      BY DEF Arrival
    <3> QED BY <2>1, <3>1, Zenon
  <2> QED BY <2>1, <2>2 DEF Matches
<1>3. \A e \in Candidates : \E i \in DOMAIN seen : seen[i].id = e
  BY DEF Given
<1>4. printed = {i \in DOMAIN seen :
                   \/ seen[i].match
                   \/ \E j \in DOMAIN seen :
                        /\ i # j /\ seen[j].match /\ i - j <= C!Cap /\ j - i <= C!Cap
                        /\ C!Link(seen[i], seen[j])}
  BY <1>1, SameTypes, SameLink DEF CP!Promise!Reported
<1>5. Matches \subseteq picked
  <2> SUFFICES ASSUME NEW e \in Matches PROVE e \in picked
    OBVIOUS
  <2>1. PICK i \in DOMAIN seen : seen[i].id = e
    BY <1>3 DEF Matches
  <2>2. i \in printed
    BY <1>2, <1>4, <2>1
  <2> QED BY <1>1, <2>1, <2>2
<1>6. picked \subseteq Answer
  <2> SUFFICES ASSUME NEW i \in printed, seen[i].id \notin Matches PROVE seen[i].id \in Answer
    BY <1>1 DEF Answer
  <2>1. i \in DOMAIN seen
    BY <1>4
  <2>2. PICK j \in DOMAIN seen : i # j /\ seen[j].match /\ C!Link(seen[i], seen[j])
    BY <1>2, <1>4, <2>1
  <2>3. seen[j].id \in Matches /\ seen[i].id \in Candidates /\ seen[i].id # seen[j].id
    BY <1>2, <2>1, <2>2 DEF Given
  <2>4. C!Link(Arrival(seen[i].id), Arrival(seen[j].id))
    BY <1>2, <2>1, <2>2
  <2> QED BY <2>3, <2>4 DEF Answer, Linked
<1>7. ASSUME Cardinality(Candidates) <= C!Cap + 1 PROVE Answer \subseteq picked
  <2> SUFFICES ASSUME NEW e \in Candidates, NEW g \in Matches, Linked(e, g) PROVE e \in picked
    BY <1>5 DEF Answer
  <2>1. PICK i \in DOMAIN seen : seen[i].id = e
    BY <1>3
  <2>2. PICK j \in DOMAIN seen : seen[j].id = g
    BY <1>3 DEF Matches
  <2>3. i # j /\ seen[j].match /\ C!Link(seen[i], seen[j])
    BY <1>2, <2>1, <2>2 DEF Linked
  <2>4. Len(seen) <= C!Cap + 1
    <3>1. IsFiniteSet(Candidates)
      <4>1. Candidates \subseteq Events
        BY DEF Candidates, P!Sent, P!Events, P!Sources, Events
      <4> QED BY <4>1, EventsFinite, FS_Subset
    <3>2. Len(seen) <= Cardinality(Candidates) /\ Cardinality(Candidates) \in Nat
      BY <1>2, <3>1, GivenFact
    <3>3. C!Cap \in Nat
      BY CorrelatorConstants DEF C!Cap, CP!CorrelatorAssumption
    <3> QED BY <1>1, <1>7, <3>2, <3>3
  <2>5. i - j <= C!Cap /\ j - i <= C!Cap
    <3>1. C!Cap \in Nat
      BY CorrelatorConstants DEF C!Cap, CP!CorrelatorAssumption
    <3>2. i \in 1..Len(seen) /\ j \in 1..Len(seen) /\ Len(seen) \in Nat
      BY <1>1
    <3> QED BY <2>4, <3>1, <3>2
  <2>6. i \in printed
    BY <1>4, <2>3, <2>5
  <2> QED BY <1>1, <2>1, <2>6
<1> QED BY <1>5, <1>6, <1>7

(* A search that reports success has written the matches within the bounds *)
(* and, of the entries within the bounds, those directly linked to a match *)
(* and no other; and every one of those when the correlator never forgot   *)
(* one: whatever the interleaving of the sources.                          *)
THEOREM PrintedIsTheAnswer == Spec => []PrintsTheAnswer
<1>1. SearchInv => PrintsTheAnswer
  <2> SUFFICES ASSUME SearchInv, mpc = "returned", failures = {}
               PROVE  /\ Matches \subseteq Range(out) /\ Range(out) \subseteq Answer
                      /\ Cardinality(Candidates) <= C!Cap + 1 => Range(out) = Answer
    BY DEF PrintsTheAnswer
  <2>1. CP!Inv /\ Asked /\ Given /\ Noticed /\ Chosen
    BY DEF SearchInv, LinkInv
  <2>2. ~procErr /\ handled = P!Sent /\ Range(out) = picked
    BY SameTypes DEF SearchInv, PP!FlowInv, PP!Remembered, PP!Complete
  <2>3. /\ Candidates = {e \in handled : Within(e)}
        /\ \A e \in Candidates : Matched(e) \in {"yes", "no", "error"}
    BY <2>1, <2>2, CandidatesFact
  <2>4. \A e \in Candidates : Matched(e) # "error"
    BY <2>1, <2>2, <2>3 DEF Noticed
  <2>5. CASE opt.correlate
    BY <2>1, <2>2, <2>3, <2>4, <2>5, LinkedAnswer
  <2>6. CASE ~opt.correlate
    BY <2>1, <2>2, <2>3, <2>6 DEF Chosen, Answer, Matches
  <2> QED BY <2>5, <2>6
<1> QED BY <1>1, SearchCorrect, PTL
================================================================================
