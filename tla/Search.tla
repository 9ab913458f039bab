--------------------------------- MODULE Search --------------------------------
(***************************************************************************)
(* A whole search: the goroutines of Pipeline with the query that decides  *)
(* on each entry and the Correlator that main hands the entries to.  What  *)
(* Pipeline leaves open is decided here: Search implements Pipeline, so    *)
(* what holds of Pipeline holds of it, and what a search prints can be     *)
(* compared with what its sources hold.                                    *)
(***************************************************************************)
EXTENDS Integers, Sequences, FiniteSets, Functions, Query

CONSTANTS
  N, MaxEvents, EntryCap, MaxResults,        \* as in Pipeline
  Limit, Window, Tokens, Groups, Loopback,   \* as in Correlator
  Content,   \* what each entry <<source, position>> says
  Searches   \* the searches explored: flags and a query

Events == (1..N) \X (1..MaxEvents)

VARIABLES
  query,     \* the query of this search
  opt, mpc, cancelled, feed, jobsClosed, wpc, job, status, sent, entries, closer,
  errs, selected, results, out, procErr, failures, handled, picked,   \* of Pipeline
  seen, items, index, printed, batch                                  \* of Correlator

correlatorVars == <<seen, items, index, printed, batch>>
vars == <<query, opt, mpc, cancelled, feed, jobsClosed, wpc, job, status, sent, entries,
          closer, errs, selected, results, out, procErr, failures, handled, picked,
          correlatorVars>>

Matched(e) == Match(query, Content[e])

(* What the correlator gets of an entry. *)
Arrival(e) ==
  [id |-> e, time |-> Content[e].time, tokens |-> Content[e].tokens,
   fields |-> Content[e].fields, match |-> Matched(e) = "yes"]

Arrivals ==
  UNION {{[id |-> e, time |-> Content[e].time, tokens |-> Content[e].tokens,
           fields |-> Content[e].fields, match |-> m] : m \in BOOLEAN} : e \in Events}

C == INSTANCE Correlator WITH Entries <- Arrivals, MaxArrivals <- Cardinality(Events)

(* Pipeline's context: what the correlator was given and has not returned. *)
Held == {seen[i].id : i \in DOMAIN seen \ printed}

P == INSTANCE Pipeline WITH
       Stamp   <- [e \in Events |-> Content[e].stamp],
       Options <- {s.opt : s \in Searches},
       context <- Held

(* The constants are what Pipeline and the Correlator assume of them. *)
ASSUME SearchAssumption ==
  /\ P!PipelineAssumption /\ C!CorrelatorAssumption
  /\ \A s \in Searches : s.query.since \in Nat /\ s.query.until \in Nat
  /\ \A e \in Events : Content[e].time \in Nat
                       /\ {Content[e].regex, Content[e].script} \subseteq {"yes", "no", "error"}

Init ==
  /\ \E s \in Searches : opt = s.opt /\ query = s.query
  /\ C!Init /\ P!Init
--------------------------------------------------------------------------------
Entry == Head(entries)

(* Here and below a definition named Mutant... is a plausible bug in the    *)
(* definition that follows it: no specification uses it; replacing the      *)
(* definition by it must violate a property.                                *)
MutantOutOfRange ==
  /\ P!Receive /\ ~InRange(query, Content[Entry].time)
  /\ C!Add(Arrival(Entry))
  /\ UNCHANGED <<query, mpc, cancelled, selected, procErr, picked>>

(* An entry outside the bounds is dropped before the correlator sees it. *)
OutOfRange ==
  /\ UNCHANGED <<query, correlatorVars>>
  /\ P!OutOfRange /\ ~InRange(query, Content[Entry].time)

MatchFails ==
  /\ UNCHANGED <<query, correlatorVars>>
  /\ P!MatchFails /\ InRange(query, Content[Entry].time) /\ Matched(Entry) = "error"

Eligible ==
  /\ P!Receive
  /\ InRange(query, Content[Entry].time) /\ Matched(Entry) # "error"
  /\ mpc' = "deliver"
  /\ UNCHANGED <<query, procErr>>

SelectMatch ==
  /\ Eligible /\ ~opt.correlate
  /\ selected' = IF Matched(Entry) = "yes" THEN {Entry} ELSE {}
  /\ picked' = picked \cup selected'
  /\ UNCHANGED correlatorVars

SelectLinked ==
  /\ Eligible /\ opt.correlate
  /\ C!Add(Arrival(Entry))
  /\ selected' = {seen'[b[1]].id : b \in Range(batch')}
  /\ picked' = picked \cup selected'

(* The loop delivers what Add returned in the order of its result. *)
InTurn(e) ==
  opt.correlate =>
    \E b \in DOMAIN batch :
      /\ seen[batch[b][1]].id = e
      /\ \A a \in DOMAIN batch : a < b => seen[batch[a][1]].id \notin selected

Deliver(e) ==
  /\ UNCHANGED <<query, correlatorVars>>
  /\ P!DeliverSorted(e) \/ P!DeliverPrinted(e)
  /\ InTurn(e)

(* Everything else run() does, and the other goroutines. *)
Elsewhere ==
  /\ UNCHANGED <<query, correlatorVars>>
  /\ \/ P!Signal \/ P!Feeder \/ P!Closer \/ P!Terminated
     \/ \E w \in P!Workers : P!Worker(w)
     \/ P!Reject \/ P!Launch \/ P!Setup \/ P!Drain \/ P!DrainEnd
     \/ P!Discard \/ P!DeliverFails \/ P!DeliverEnd
     \/ P!ConsumeEnd \/ (\E s \in P!Sources : P!Collect(s)) \/ P!Verdict
     \/ P!Flush \/ P!FlushFails \/ P!FlushEnd

Next ==
  \/ OutOfRange \/ MatchFails \/ SelectMatch \/ SelectLinked
  \/ \E e \in Events : Deliver(e)
  \/ Elsewhere

Spec == Init /\ [][Next]_vars
--------------------------------------------------------------------------------
(* main.go 263-297 and search.go 102-160: a search with its query and its  *)
(* correlator is one of the searches Pipeline allows: the correlator       *)
(* returns only what it was given, never returns it again, and never sees  *)
(* an entry outside the bounds.                                            *)
ImplementsPipeline == P!Spec

(* What was read and lies within the bounds. *)
Candidates ==
  {e \in P!Sent :
     /\ query.since # 0 => Content[e].time >= query.since
     /\ query.until # 0 => Content[e].time # 0 /\ Content[e].time <= query.until}

Matches == {e \in Candidates : Matched(e) = "yes"}

Linked(e, f) == e # f /\ C!Link(Arrival(e), Arrival(f))

Answer ==
  Matches \cup (IF opt.correlate
                THEN {e \in Candidates : \E f \in Matches : Linked(e, f)} ELSE {})

(* README.md 55-77: whatever the interleaving of the sources, a successful *)
(* search has written the matches within the bounds and, of the entries    *)
(* within the bounds, only those directly linked to a match: all of them   *)
(* when no more than the retained arrivals and the entry at hand lie       *)
(* within the bounds.                                                      *)
PrintsTheAnswer ==
  mpc = "returned" /\ failures = {} =>
    /\ Matches \subseteq Range(out) /\ Range(out) \subseteq Answer
    /\ Cardinality(Candidates) <= C!Cap + 1 => Range(out) = Answer
================================================================================
