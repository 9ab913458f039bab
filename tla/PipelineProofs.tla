---------------------------- MODULE PipelineProofs ----------------------------
(***************************************************************************)
(* The safety invariants of Pipeline, proved for every number of sources,  *)
(* every bound and every set of flags, and that it implements the abstract *)
(* SearchContract.  The inductive invariant has three layers, each proved  *)
(* from those before it: PoolInv, the types and who holds which source and *)
(* which channel is still open; FlowInv, where each entry and each failure *)
(* is on its way from a source to the verdict; LedgerInv, in which order   *)
(* the entries pass and that none passes twice.                            *)
(* OutputInOrder, what the user sees of that order, rests on all three.    *)
(***************************************************************************)
EXTENDS Pipeline, SequenceTheorems, FiniteSetTheorems, TLAPS

(* Taking the first element of a queue. *)
LEMMA ReceiveFact ==
  ASSUME NEW S, NEW q \in Seq(S), q # << >>
  PROVE  /\ Head(q) \in S /\ Tail(q) \in Seq(S) /\ Len(Tail(q)) = Len(q) - 1
         /\ Range(q) = {Head(q)} \cup Range(Tail(q))
<1>1. Len(q) \in Nat \ {0}
  BY EmptySeq
<1>2. /\ Head(q) \in S /\ Tail(q) \in Seq(S) /\ Len(Tail(q)) = Len(q) - 1
      /\ Head(q) = q[1] /\ \A i \in 1..(Len(q) - 1) : Tail(q)[i] = q[i + 1]
  BY <1>1, HeadTailProperties
<1>3. Range(q) = {q[i] : i \in 1..Len(q)} /\ Range(Tail(q)) = {Tail(q)[i] : i \in 1..Len(Tail(q))}
  BY <1>2, RangeEquality
<1>4. Range(q) \subseteq {Head(q)} \cup Range(Tail(q))
  <2> SUFFICES ASSUME NEW i \in 1..Len(q), q[i] # Head(q)
               PROVE  q[i] \in Range(Tail(q))
    BY <1>3
  <2>1. i - 1 \in 1..(Len(q) - 1) /\ Tail(q)[i - 1] = q[i]
    BY <1>1, <1>2
  <2> QED BY <2>1, <1>2, <1>3
<1>5. {Head(q)} \cup Range(Tail(q)) \subseteq Range(q)
  BY <1>1, <1>2, <1>3
<1> QED BY <1>2, <1>4, <1>5

(* Adding an element to a queue. *)
LEMMA SendFact ==
  ASSUME NEW S, NEW q \in Seq(S), NEW e \in S
  PROVE  /\ Append(q, e) \in Seq(S) /\ Len(Append(q, e)) = Len(q) + 1
         /\ Range(Append(q, e)) = Range(q) \cup {e}
<1>1. /\ Append(q, e) \in Seq(S) /\ Len(Append(q, e)) = Len(q) + 1
      /\ \A i \in 1..Len(q) : Append(q, e)[i] = q[i]
      /\ Append(q, e)[Len(q) + 1] = e
  BY AppendProperties
<1>2. Range(q) = {q[i] : i \in 1..Len(q)}
      /\ Range(Append(q, e)) = {Append(q, e)[i] : i \in 1..(Len(q) + 1)}
  BY <1>1, RangeEquality
<1>3. Len(q) \in Nat
  BY LenProperties
<1> QED BY <1>1, <1>2, <1>3
--------------------------------------------------------------------------------
Busy == {"read", "emit", "failed", "report"}

(* The life of the goroutines. *)
Lifetimes ==
  /\ mpc = "start" => ~launched
  /\ ~launched => mpc = "start" \/ (mpc = "returned" /\ failures = {<<"usage", 0>>})
  /\ ~launched => \A w \in Workers : wpc[w] = "absent"
  /\ launched => wpc[1] # "absent"
  /\ \A w \in Workers : wpc[w] = "exited" => jobsClosed
  /\ jobsClosed => feed > N \/ cancelled
  /\ entriesClosed => AllExited
  /\ launched /\ mpc \in {"collect", "flush", "returned"} => entriesClosed

(* A source is in the hands of one worker at most, and of one as long as   *)
(* its status is "reading".                                                *)
Assignment ==
  /\ \A w \in Workers : wpc[w] \in Busy <=> job[w] # 0
  /\ \A w \in Workers : job[w] # 0 => status[job[w]] = "reading"
  /\ \A w \in Workers : wpc[w] = "emit" => sent[job[w]] < MaxEvents
  /\ \A v, w \in Workers : job[v] = job[w] /\ v # w => job[v] = 0
  /\ \A s \in Sources : status[s] = "reading" => \E w \in Workers : job[w] = s
  /\ \A s \in Sources : s < feed <=> status[s] # "queued"
  /\ \A s \in Sources : status[s] = "aborted" => cancelled
  /\ \A s \in errs : status[s] = "failed"

PoolInv == TypeOK /\ Lifetimes /\ Assignment

(* An entry sent is in the channel until main has filtered it. *)
InFlight ==
  /\ handled \subseteq Sent
  /\ Range(entries) \subseteq Sent
  /\ ~procErr /\ mpc \notin {"drain", "returned"} => Sent \subseteq handled \cup Range(entries)
  /\ mpc \in {"collect", "flush"} => entries = << >>

(* An entry selected is on its way to the output until it is written. *)
OnItsWay ==
  /\ mpc # "deliver" => selected = {}
  /\ ~opt.sorted => results = << >>
  /\ opt.sorted /\ mpc \notin {"flush", "returned"} => out = << >>
  /\ opt.sorted => Range(out) \subseteq Range(results)
  /\ ~procErr => picked = selected \cup Range(results) \cup Range(out)

(* A failure is remembered until the verdict. *)
Remembered ==
  /\ procErr /\ mpc \in {"collect", "flush", "returned"} => failures # {}
  /\ \A s \in Sources : status[s] = "failed" =>
       \/ s \in errs
       \/ mpc \in {"collect", "flush", "returned"} /\ <<"source", s>> \in failures
       \/ mpc = "returned" /\ <<"usage", 0>> \in failures
  /\ mpc \in {"flush", "returned"} /\ <<"usage", 0>> \notin failures => errs = {}
  /\ mpc = "flush" => failures = {} /\ opt.sorted

(* What the verdict rests on. *)
Complete ==
  mpc \in {"flush", "returned"} /\ failures = {} =>
    /\ \A s \in Sources : status[s] = "done"
    /\ handled = Sent
    /\ mpc = "returned" => Range(out) = picked

FlowInv == InFlight /\ OnItsWay /\ Remembered /\ Complete
--------------------------------------------------------------------------------
(* The entry a worker emits is one its source holds. *)
LEMMA CurrentFact ==
  ASSUME PoolInv, NEW w \in Workers, wpc[w] = "emit"
  PROVE  Current(w) \in Events /\ job[w] \in Sources /\ sent[job[w]] + 1 \in 1..MaxEvents
<1>1. job[w] \in Sources
  BY PipelineAssumption DEF PoolInv, TypeOK, Assignment, Busy, Sources, Workers
<1>2. sent[job[w]] < MaxEvents /\ sent[job[w]] \in 0..MaxEvents
  BY <1>1 DEF PoolInv, TypeOK, Assignment
<1>3. sent[job[w]] + 1 \in 1..MaxEvents
  BY <1>2, PipelineAssumption
<1> QED BY <1>1, <1>3 DEF Current, Events

LEMMA PoolInit == Init => PoolInv
<1> SUFFICES ASSUME Init PROVE PoolInv
  OBVIOUS
<1>1. TypeOK
  <2>1. entries \in Seq(Events) /\ Len(entries) <= EntryCap
        /\ results \in Seq(Events) /\ out \in Seq(Events)
    BY PipelineAssumption, EmptySeq DEF Init
  <2>2. /\ wpc \in [Workers -> WorkerStates] /\ job \in [Workers -> 0..N]
        /\ status \in [Sources -> Statuses] /\ sent \in [Sources -> 0..MaxEvents]
    BY PipelineAssumption DEF Init, WorkerStates, Statuses
  <2> QED
    <3>1. opt \in OptionSpace /\ feed \in 1..(N + 1)
      BY PipelineAssumption DEF Init
    <3>2. closer \in {"off", "wait", "errs", "done"} /\ mpc \in MainStates
          /\ cancelled \in BOOLEAN /\ jobsClosed \in BOOLEAN /\ procErr \in BOOLEAN
      BY DEF Init, MainStates
    <3>3. /\ errs = {} /\ context = {} /\ selected = {} /\ failures = {} /\ handled = {}
          /\ picked = {}
      BY DEF Init
    <3> QED BY <2>1, <2>2, <3>1, <3>2, <3>3 DEF TypeOK
<1>2. Lifetimes
  BY DEF Init, Lifetimes, launched, entriesClosed
<1>3. Assignment
  BY PipelineAssumption DEF Init, Assignment, Busy, Sources, Workers
<1> QED BY <1>1, <1>2, <1>3 DEF PoolInv

(* What a worker holds. *)
LEMMA HeldFact ==
  ASSUME PoolInv, NEW w \in Workers, wpc[w] \in Busy
  PROVE  job[w] \in Sources /\ job[w] # 0 /\ status[job[w]] = "reading"
<1>1. job[w] # 0
  BY DEF PoolInv, Assignment
<1>2. status[job[w]] = "reading"
  BY <1>1 DEF PoolInv, Assignment
<1>3. job[w] \in 0..N /\ N \in Nat
  BY PipelineAssumption DEF PoolInv, TypeOK
<1> QED BY <1>1, <1>2, <1>3 DEF Sources

(* A worker that gives its source back leaves the assignment consistent.   *)
LEMMA ReleaseFact ==
  ASSUME PoolInv, NEW w \in Workers, wpc[w] \in Busy,
         NEW st \in {"done", "failed", "aborted"},
         wpc' = [wpc EXCEPT ![w] = "idle"], job' = [job EXCEPT ![w] = 0],
         status' = [status EXCEPT ![job[w]] = st],
         feed' = feed, sent' = sent, cancelled' = cancelled, errs' \subseteq Sources,
         st = "aborted" => cancelled,
         \A s \in errs' : s \in errs \/ (s = job[w] /\ st = "failed")
  PROVE  Assignment'
<1> USE PipelineAssumption DEF Workers, Sources
<1>1. /\ wpc \in [Workers -> WorkerStates] /\ job \in [Workers -> 0..N]
      /\ status \in [Sources -> Statuses] /\ feed \in 1..(N + 1) /\ errs \subseteq Sources
  BY DEF PoolInv, TypeOK
<1>2. job[w] \in Sources /\ job[w] # 0 /\ status[job[w]] = "reading"
  BY HeldFact
<1>3. \A v \in Workers : v # w => job'[v] = job[v] /\ wpc'[v] = wpc[v] /\ job[v] # job[w]
  BY <1>1, <1>2 DEF PoolInv, Assignment
<1>4. job'[w] = 0 /\ wpc'[w] = "idle"
  BY <1>1
<1>5. \A s \in Sources : s # job[w] => status'[s] = status[s]
  BY <1>1
<1>6. status'[job[w]] = st
  BY <1>1, <1>2
<1>7. \A v \in Workers : wpc'[v] \in Busy <=> job'[v] # 0
  BY <1>3, <1>4 DEF PoolInv, Assignment, Busy
<1>8. \A v \in Workers : job'[v] # 0 => status'[job'[v]] = "reading"
  BY <1>1, <1>3, <1>4, <1>5 DEF PoolInv, Assignment
<1>9. \A v \in Workers : wpc'[v] = "emit" => sent'[job'[v]] < MaxEvents
  BY <1>3, <1>4 DEF PoolInv, Assignment
<1>10. \A u, v \in Workers : job'[u] = job'[v] /\ u # v => job'[u] = 0
  BY <1>3, <1>4 DEF PoolInv, Assignment
<1>11. \A s \in Sources : status'[s] = "reading" => \E v \in Workers : job'[v] = s
  BY <1>3, <1>5, <1>6 DEF PoolInv, Assignment
<1>12. \A s \in Sources : s < feed <=> status'[s] # "queued"
  BY <1>2, <1>5, <1>6 DEF PoolInv, Assignment
<1>13. \A s \in Sources : status'[s] = "aborted" => cancelled
  BY <1>5, <1>6 DEF PoolInv, Assignment
<1>14. \A s \in errs' : status'[s] = "failed"
  BY <1>2, <1>5, <1>6 DEF PoolInv, Assignment
<1> QED
  BY <1>7, <1>8, <1>9, <1>10, <1>11, <1>12, <1>13, <1>14 DEF Assignment

LEMMA PoolStep == PoolInv /\ [Next]_vars => PoolInv'
<1> SUFFICES ASSUME PoolInv, [Next]_vars PROVE PoolInv'
  OBVIOUS
<1> USE PipelineAssumption
<1>1. CASE Reject
  <2>1. TypeOK'
    BY <1>1 DEF Reject, mainVars, workerVars, history, PoolInv, TypeOK, MainStates, WorkerStates, Statuses, Failures
  <2>2. Lifetimes'
    BY <1>1 DEF Reject, mainVars, workerVars, history, PoolInv, Lifetimes, launched, entriesClosed, AllExited
  <2>3. Assignment'
    BY <1>1 DEF Reject, mainVars, workerVars, history, PoolInv, Assignment, Busy
  <2> QED BY <2>1, <2>2, <2>3 DEF PoolInv
<1>2. CASE Setup
  <2>1. TypeOK'
    BY <1>2 DEF Setup, mainVars, workerVars, history, PoolInv, TypeOK, MainStates, WorkerStates, Statuses, Failures
  <2>2. Lifetimes'
    BY <1>2 DEF Setup, mainVars, workerVars, history, PoolInv, Lifetimes, launched, entriesClosed, AllExited
  <2>3. Assignment'
    BY <1>2 DEF Setup, mainVars, workerVars, history, PoolInv, Assignment, Busy
  <2> QED BY <2>1, <2>2, <2>3 DEF PoolInv
<1>3. CASE Drain
  <2>1. TypeOK'
    BY <1>3, ReceiveFact DEF Drain, mainVars, workerVars, history, PoolInv, TypeOK, MainStates, WorkerStates, Statuses, Failures
  <2>2. Lifetimes'
    BY <1>3 DEF Drain, mainVars, workerVars, history, PoolInv, Lifetimes, launched, entriesClosed, AllExited
  <2>3. Assignment'
    BY <1>3 DEF Drain, mainVars, workerVars, history, PoolInv, Assignment, Busy
  <2> QED BY <2>1, <2>2, <2>3 DEF PoolInv
<1>4. CASE DrainEnd
  <2>1. TypeOK'
    BY <1>4 DEF DrainEnd, mainVars, workerVars, history, PoolInv, TypeOK, MainStates, WorkerStates, Statuses, Failures
  <2>2. Lifetimes'
    BY <1>4 DEF DrainEnd, mainVars, workerVars, history, PoolInv, Lifetimes, launched, entriesClosed, AllExited
  <2>3. Assignment'
    BY <1>4 DEF DrainEnd, mainVars, workerVars, history, PoolInv, Assignment, Busy
  <2> QED BY <2>1, <2>2, <2>3 DEF PoolInv
<1>5. CASE Discard
  <2>1. TypeOK'
    BY <1>5, ReceiveFact DEF Discard, mainVars, workerVars, history, PoolInv, TypeOK, MainStates, WorkerStates, Statuses, Failures
  <2>2. Lifetimes'
    BY <1>5 DEF Discard, mainVars, workerVars, history, PoolInv, Lifetimes, launched, entriesClosed, AllExited
  <2>3. Assignment'
    BY <1>5 DEF Discard, mainVars, workerVars, history, PoolInv, Assignment, Busy
  <2> QED BY <2>1, <2>2, <2>3 DEF PoolInv
<1>6. CASE OutOfRange
  <2>1. TypeOK'
    BY <1>6, ReceiveFact DEF OutOfRange, Receive, mainVars, workerVars, history, PoolInv, TypeOK, MainStates, WorkerStates, Statuses, Failures
  <2>2. Lifetimes'
    BY <1>6 DEF OutOfRange, Receive, mainVars, workerVars, history, PoolInv, Lifetimes, launched, entriesClosed, AllExited
  <2>3. Assignment'
    BY <1>6 DEF OutOfRange, Receive, mainVars, workerVars, history, PoolInv, Assignment, Busy
  <2> QED BY <2>1, <2>2, <2>3 DEF PoolInv
<1>7. CASE MatchFails
  <2>1. TypeOK'
    <3>1. entries' \in Seq(Events) /\ Len(entries') <= EntryCap /\ Head(entries) \in Events
      BY <1>7, ReceiveFact DEF MatchFails, PoolInv, TypeOK
    <3> QED BY <1>7, <3>1 DEF MatchFails, mainVars, workerVars, history, PoolInv, TypeOK, MainStates, WorkerStates, Statuses, Failures
  <2>2. Lifetimes'
    BY <1>7 DEF MatchFails, mainVars, workerVars, history, PoolInv, Lifetimes, launched, entriesClosed, AllExited
  <2>3. Assignment'
    BY <1>7 DEF MatchFails, mainVars, workerVars, history, PoolInv, Assignment, Busy
  <2> QED BY <2>1, <2>2, <2>3 DEF PoolInv
<1>8. CASE Select
  <2>1. TypeOK'
    BY <1>8, ReceiveFact DEF Select, Unreturned, Receive, mainVars, workerVars, history, PoolInv, TypeOK, MainStates, WorkerStates, Statuses, Failures
  <2>2. Lifetimes'
    BY <1>8 DEF Select, Unreturned, Receive, mainVars, workerVars, history, PoolInv, Lifetimes, launched, entriesClosed, AllExited
  <2>3. Assignment'
    BY <1>8 DEF Select, Unreturned, Receive, mainVars, workerVars, history, PoolInv, Assignment, Busy
  <2> QED BY <2>1, <2>2, <2>3 DEF PoolInv
<1>9. CASE DeliverFails
  <2>1. TypeOK'
    BY <1>9 DEF DeliverFails, mainVars, workerVars, history, PoolInv, TypeOK, MainStates, WorkerStates, Statuses, Failures
  <2>2. Lifetimes'
    BY <1>9 DEF DeliverFails, mainVars, workerVars, history, PoolInv, Lifetimes, launched, entriesClosed, AllExited
  <2>3. Assignment'
    BY <1>9 DEF DeliverFails, mainVars, workerVars, history, PoolInv, Assignment, Busy
  <2> QED BY <2>1, <2>2, <2>3 DEF PoolInv
<1>10. CASE DeliverEnd
  <2>1. TypeOK'
    BY <1>10 DEF DeliverEnd, mainVars, workerVars, history, PoolInv, TypeOK, MainStates, WorkerStates, Statuses, Failures
  <2>2. Lifetimes'
    BY <1>10 DEF DeliverEnd, mainVars, workerVars, history, PoolInv, Lifetimes, launched, entriesClosed, AllExited
  <2>3. Assignment'
    BY <1>10 DEF DeliverEnd, mainVars, workerVars, history, PoolInv, Assignment, Busy
  <2> QED BY <2>1, <2>2, <2>3 DEF PoolInv
<1>11. CASE ConsumeEnd
  <2>1. TypeOK'
    BY <1>11 DEF ConsumeEnd, mainVars, workerVars, history, PoolInv, TypeOK, MainStates, WorkerStates, Statuses, Failures
  <2>2. Lifetimes'
    BY <1>11 DEF ConsumeEnd, mainVars, workerVars, history, PoolInv, Lifetimes, launched, entriesClosed, AllExited
  <2>3. Assignment'
    BY <1>11 DEF ConsumeEnd, mainVars, workerVars, history, PoolInv, Assignment, Busy
  <2> QED BY <2>1, <2>2, <2>3 DEF PoolInv
<1>12. CASE Verdict
  <2>1. TypeOK'
    BY <1>12 DEF Verdict, Interrupted, mainVars, workerVars, history, PoolInv, TypeOK, MainStates, WorkerStates, Statuses, Failures
  <2>2. Lifetimes'
    BY <1>12 DEF Verdict, Interrupted, mainVars, workerVars, history, PoolInv, Lifetimes, launched, entriesClosed, AllExited
  <2>3. Assignment'
    BY <1>12 DEF Verdict, Interrupted, mainVars, workerVars, history, PoolInv, Assignment, Busy
  <2> QED BY <2>1, <2>2, <2>3 DEF PoolInv
<1>13. CASE Flush
  <2>1. TypeOK'
    <3>1. \A k \in Unprinted : results[k] \in Events
      BY ElementOfSeq, LenProperties DEF PoolInv, TypeOK, Unprinted
    <3> QED BY <1>13, <3>1, SendFact DEF Flush, mainVars, workerVars, history, PoolInv, TypeOK, MainStates
  <2>2. Lifetimes'
    BY <1>13 DEF Flush, mainVars, workerVars, history, PoolInv, Lifetimes, launched, entriesClosed, AllExited
  <2>3. Assignment'
    BY <1>13 DEF Flush, mainVars, workerVars, history, PoolInv, Assignment, Busy
  <2> QED BY <2>1, <2>2, <2>3 DEF PoolInv
<1>14. CASE FlushFails
  <2>1. TypeOK'
    BY <1>14 DEF FlushFails, mainVars, workerVars, history, PoolInv, TypeOK, MainStates, WorkerStates, Statuses, Failures
  <2>2. Lifetimes'
    BY <1>14 DEF FlushFails, mainVars, workerVars, history, PoolInv, Lifetimes, launched, entriesClosed, AllExited
  <2>3. Assignment'
    BY <1>14 DEF FlushFails, mainVars, workerVars, history, PoolInv, Assignment, Busy
  <2> QED BY <2>1, <2>2, <2>3 DEF PoolInv
<1>15. CASE FlushEnd
  <2>1. TypeOK'
    BY <1>15 DEF FlushEnd, mainVars, workerVars, history, PoolInv, TypeOK, MainStates, WorkerStates, Statuses, Failures
  <2>2. Lifetimes'
    BY <1>15 DEF FlushEnd, mainVars, workerVars, history, PoolInv, Lifetimes, launched, entriesClosed, AllExited
  <2>3. Assignment'
    BY <1>15 DEF FlushEnd, mainVars, workerVars, history, PoolInv, Assignment, Busy
  <2> QED BY <2>1, <2>2, <2>3 DEF PoolInv
<1>16. CASE Launch
  <2>1. TypeOK'
    BY <1>16 DEF Launch, mainVars, workerVars, history, PoolInv, TypeOK, MainStates, WorkerStates
  <2>2. /\ ~launched /\ launched' /\ mpc' = "setup" /\ closer' = "wait"
        /\ \A w \in Workers : wpc[w] = "absent" /\ wpc'[w] \in {"idle", "absent"}
    BY <1>16 DEF Launch, PoolInv, Lifetimes, launched
  <2>3. 1 \in Workers /\ wpc'[1] = "idle"
    BY <1>16 DEF Launch, Valid, Pool, Workers, PoolInv, TypeOK, OptionSpace
  <2>4. Lifetimes'
    BY <1>16, <2>2, <2>3 DEF Launch, PoolInv, Lifetimes, entriesClosed
  <2>5. Assignment'
    BY <1>16, <2>2 DEF Launch, mainVars, workerVars, history, PoolInv, Assignment, Busy
  <2> QED BY <2>1, <2>4, <2>5 DEF PoolInv
<1>17. CASE Signal
  <2>1. TypeOK'
    BY <1>17 DEF Signal, mainVars, workerVars, history, PoolInv, TypeOK, MainStates, WorkerStates, Statuses, Failures
  <2>2. Lifetimes'
    BY <1>17 DEF Signal, mainVars, workerVars, history, PoolInv, Lifetimes, launched, entriesClosed, AllExited
  <2>3. Assignment'
    BY <1>17 DEF Signal, mainVars, workerVars, history, PoolInv, Assignment, Busy
  <2> QED BY <2>1, <2>2, <2>3 DEF PoolInv
<1>18. CASE FeederEnd
  <2>1. TypeOK'
    BY <1>18 DEF FeederEnd, mainVars, workerVars, history, PoolInv, TypeOK, MainStates, WorkerStates, Statuses, Failures
  <2>2. Lifetimes'
    BY <1>18 DEF FeederEnd, mainVars, workerVars, history, PoolInv, Lifetimes, launched, entriesClosed, AllExited
  <2>3. Assignment'
    BY <1>18 DEF FeederEnd, mainVars, workerVars, history, PoolInv, Assignment, Busy
  <2> QED BY <2>1, <2>2, <2>3 DEF PoolInv
<1>19. CASE CloseEntries
  <2>1. TypeOK'
    BY <1>19 DEF CloseEntries, mainVars, workerVars, history, PoolInv, TypeOK, MainStates, WorkerStates, Statuses, Failures
  <2>2. Lifetimes'
    BY <1>19 DEF CloseEntries, mainVars, workerVars, history, PoolInv, Lifetimes, launched, entriesClosed, AllExited
  <2>3. Assignment'
    BY <1>19 DEF CloseEntries, mainVars, workerVars, history, PoolInv, Assignment, Busy
  <2> QED BY <2>1, <2>2, <2>3 DEF PoolInv
<1>20. CASE CloseErrs
  <2>1. TypeOK'
    BY <1>20 DEF CloseErrs, mainVars, workerVars, history, PoolInv, TypeOK, MainStates, WorkerStates, Statuses, Failures
  <2>2. Lifetimes'
    BY <1>20 DEF CloseErrs, mainVars, workerVars, history, PoolInv, Lifetimes, launched, entriesClosed, AllExited
  <2>3. Assignment'
    BY <1>20 DEF CloseErrs, mainVars, workerVars, history, PoolInv, Assignment, Busy
  <2> QED BY <2>1, <2>2, <2>3 DEF PoolInv
<1>21. ASSUME NEW e \in Events, DeliverSorted(e) PROVE PoolInv'
  <2>1. TypeOK'
    BY <1>21, SendFact DEF DeliverSorted, mainVars, workerVars, history, PoolInv, TypeOK, MainStates, WorkerStates, Statuses, Failures
  <2>2. Lifetimes'
    BY <1>21 DEF DeliverSorted, mainVars, workerVars, history, PoolInv, Lifetimes, launched, entriesClosed, AllExited
  <2>3. Assignment'
    BY <1>21 DEF DeliverSorted, mainVars, workerVars, history, PoolInv, Assignment, Busy
  <2> QED BY <2>1, <2>2, <2>3 DEF PoolInv
<1>22. ASSUME NEW e \in Events, DeliverPrinted(e) PROVE PoolInv'
  <2>1. TypeOK'
    BY <1>22, SendFact DEF DeliverPrinted, mainVars, workerVars, history, PoolInv, TypeOK, MainStates, WorkerStates, Statuses, Failures
  <2>2. Lifetimes'
    BY <1>22 DEF DeliverPrinted, mainVars, workerVars, history, PoolInv, Lifetimes, launched, entriesClosed, AllExited
  <2>3. Assignment'
    BY <1>22 DEF DeliverPrinted, mainVars, workerVars, history, PoolInv, Assignment, Busy
  <2> QED BY <2>1, <2>2, <2>3 DEF PoolInv
<1>23. ASSUME NEW s \in Sources, Collect(s) PROVE PoolInv'
  <2>1. TypeOK'
    BY <1>23 DEF Collect, mainVars, workerVars, history, PoolInv, TypeOK, MainStates, WorkerStates, Statuses, Failures
  <2>2. Lifetimes'
    BY <1>23 DEF Collect, mainVars, workerVars, history, PoolInv, Lifetimes, launched, entriesClosed, AllExited
  <2>3. Assignment'
    BY <1>23 DEF Collect, mainVars, workerVars, history, PoolInv, Assignment, Busy
  <2> QED BY <2>1, <2>2, <2>3 DEF PoolInv
<1>24. ASSUME NEW w \in Workers, Feed(w) PROVE PoolInv'
  <2>0. /\ feed \in Sources /\ status[feed] = "queued" /\ feed' = feed + 1
        /\ \A v \in Workers : job[v] # feed
    <3>1. feed \in Sources /\ feed' = feed + 1
      BY <1>24 DEF Feed, PoolInv, TypeOK, Sources
    <3>2. status[feed] = "queued"
      BY <3>1 DEF PoolInv, Assignment, Sources
    <3>3. \A v \in Workers : job[v] # feed
      BY <3>1, <3>2 DEF PoolInv, Assignment, Sources
    <3> QED BY <3>1, <3>2, <3>3
  <2>1. TypeOK'
    <3>1. feed' \in 1..(N + 1) /\ feed \in 0..N
      BY <2>0 DEF Sources
    <3>2. /\ wpc' \in [Workers -> WorkerStates] /\ job' \in [Workers -> 0..N]
          /\ status' \in [Sources -> Statuses]
      BY <1>24, <2>0, <3>1 DEF Feed, PoolInv, TypeOK, WorkerStates, Statuses
    <3> QED BY <1>24, <3>1, <3>2 DEF Feed, mainVars, history, PoolInv, TypeOK
  <2>2. Lifetimes'
    BY <1>24 DEF Feed, mainVars, history, PoolInv, Lifetimes, launched, entriesClosed, AllExited
  <2>3. /\ \A v \in Workers : v # w => job'[v] = job[v] /\ wpc'[v] = wpc[v]
        /\ job'[w] = feed /\ wpc'[w] = "read" /\ job[w] = 0
        /\ \A s \in Sources : s # feed => status'[s] = status[s]
        /\ status'[feed] = "reading"
    <3>1. /\ wpc \in [Workers -> WorkerStates] /\ job \in [Workers -> 0..N]
          /\ status \in [Sources -> Statuses]
      BY DEF PoolInv, TypeOK
    <3>2. wpc[w] = "idle" /\ (wpc[w] \in Busy <=> job[w] # 0)
      BY <1>24 DEF Feed, PoolInv, Assignment
    <3> QED BY <1>24, <2>0, <3>1, <3>2 DEF Feed, Busy
  <2>4. Assignment'
    <3>0. \A u, v \in Workers : job[u] = job[v] /\ u # v => job[u] = 0
      BY DEF PoolInv, Assignment
    <3> USE <2>0, <2>3 DEF PoolInv, Assignment
    <3>1. \A v \in Workers : wpc'[v] \in Busy <=> job'[v] # 0
      BY DEF Busy, Sources
    <3>2. \A v \in Workers : job'[v] # 0 => status'[job'[v]] = "reading"
      BY DEF TypeOK, Sources
    <3>3. \A v \in Workers : wpc'[v] = "emit" => sent'[job'[v]] < MaxEvents
      BY <1>24 DEF Feed
    <3>4. ASSUME NEW u \in Workers, NEW v \in Workers, job'[u] = job'[v], u # v
          PROVE  job'[u] = 0
      <4>1. u # w /\ v # w
        BY <3>4
      <4>2. job'[u] = job[u] /\ job'[v] = job[v]
        BY <4>1
      <4>3. job[u] = 0
        <5> HIDE DEF PoolInv, Assignment
        <5> QED BY <3>0, <3>4, <4>2
      <4> QED BY <4>2, <4>3
    <3>5. ASSUME NEW s \in Sources, status'[s] = "reading"
          PROVE  \E v \in Workers : job'[v] = s
      <4>1. CASE s = feed
        BY <4>1
      <4>2. CASE s # feed
        <5>1. PICK v \in Workers : job[v] = s
          BY <3>5, <4>2
        <5>2. v # w
          BY <5>1 DEF Sources
        <5> QED BY <5>1, <5>2
      <4> QED BY <4>1, <4>2
    <3>6. \A s \in Sources : s < feed' <=> status'[s] # "queued"
      BY DEF Sources
    <3>7. \A s \in Sources : status'[s] = "aborted" => cancelled'
      BY <1>24 DEF Feed
    <3>8. \A s \in errs' : status'[s] = "failed"
      BY <1>24 DEF Feed, TypeOK
    <3> QED BY <3>1, <3>2, <3>3, <3>4, <3>5, <3>6, <3>7, <3>8
  <2> QED BY <2>1, <2>2, <2>4 DEF PoolInv
<1>25. ASSUME NEW w \in Workers, Fetch(w) PROVE PoolInv'
  <2>1. TypeOK'
    BY <1>25 DEF Fetch, mainVars, history, PoolInv, TypeOK, WorkerStates
  <2>2. Lifetimes'
    BY <1>25 DEF Fetch, mainVars, history, PoolInv, Lifetimes, launched, entriesClosed, AllExited
  <2>3. /\ wpc'[w] = "emit" /\ wpc[w] = "read"
        /\ \A v \in Workers : v # w => wpc'[v] = wpc[v]
        /\ UNCHANGED <<job, status, sent, feed, errs, cancelled>>
    BY <1>25 DEF Fetch, PoolInv, TypeOK
  <2>4. \A v \in Workers : wpc'[v] = "emit" => sent'[job'[v]] < MaxEvents
    BY <1>25, <2>3 DEF Fetch, PoolInv, Assignment
  <2>5. \A v \in Workers : wpc'[v] \in Busy <=> job'[v] # 0
    BY <2>3 DEF PoolInv, Assignment, Busy
  <2>6. Assignment'
    BY <2>3, <2>4, <2>5 DEF PoolInv, Assignment
  <2> QED BY <2>1, <2>2, <2>6 DEF PoolInv
<1>26. ASSUME NEW w \in Workers, Emit(w) PROVE PoolInv'
  <2>0. /\ job[w] \in Sources /\ Current(w) \in Events /\ sent[job[w]] + 1 \in 1..MaxEvents
    BY <1>26, CurrentFact DEF Emit
  <2>1. TypeOK'
    <3>1. entries' \in Seq(Events) /\ Len(entries') <= EntryCap
      BY <1>26, <2>0, SendFact, LenProperties DEF Emit, PoolInv, TypeOK
    <3>2. sent' \in [Sources -> 0..MaxEvents] /\ wpc' \in [Workers -> WorkerStates]
      BY <1>26, <2>0 DEF Emit, PoolInv, TypeOK, WorkerStates
    <3> QED BY <1>26, <3>1, <3>2 DEF Emit, mainVars, history, PoolInv, TypeOK
  <2>2. Lifetimes'
    BY <1>26 DEF Emit, mainVars, history, PoolInv, Lifetimes, launched, entriesClosed, AllExited
  <2>3. \A v \in Workers : v # w => /\ wpc'[v] = wpc[v]
                                    /\ job[v] # 0 => sent'[job[v]] = sent[job[v]]
    BY <1>26, <2>0 DEF Emit, PoolInv, TypeOK, Assignment, Busy, Sources
  <2>4. wpc'[w] = "read" /\ job' = job /\ status' = status
    BY <1>26 DEF Emit, PoolInv, TypeOK
  <2>5. \A v \in Workers : wpc'[v] = "emit" => sent'[job'[v]] < MaxEvents
    <3> SUFFICES ASSUME NEW v \in Workers, wpc'[v] = "emit"
                 PROVE  sent'[job'[v]] < MaxEvents
      OBVIOUS
    <3>1. v # w /\ wpc[v] = "emit"
      BY <2>3, <2>4
    <3>2. job[v] # 0 /\ sent[job[v]] < MaxEvents
      BY <3>1 DEF PoolInv, Assignment, Busy
    <3> QED BY <2>3, <2>4, <3>1, <3>2
  <2>6. \A v \in Workers : wpc'[v] \in Busy <=> job'[v] # 0
    BY <1>26, <2>3, <2>4 DEF Emit, PoolInv, Assignment, Busy
  <2>7. Assignment'
    BY <1>26, <2>4, <2>5, <2>6 DEF Emit, PoolInv, Assignment
  <2> QED BY <2>1, <2>2, <2>7 DEF PoolInv
<1>27. ASSUME NEW w \in Workers, EmitAbort(w) PROVE PoolInv'
  <2>1. TypeOK'
    BY <1>27 DEF EmitAbort, mainVars, workerVars, history, PoolInv, TypeOK, MainStates, WorkerStates, Statuses, Failures, Sources, Workers
  <2>2. Lifetimes'
    BY <1>27 DEF EmitAbort, mainVars, workerVars, history, PoolInv, Lifetimes, launched, entriesClosed, AllExited
  <2>3. Assignment'
    BY <1>27 DEF EmitAbort, mainVars, workerVars, history, PoolInv, Assignment, Busy, TypeOK, Sources, Workers
  <2> QED BY <2>1, <2>2, <2>3 DEF PoolInv
<1>28. ASSUME NEW w \in Workers, ReadDone(w) PROVE PoolInv'
  <2>1. TypeOK'
    <3>1. job[w] \in Sources
      BY <1>28, HeldFact DEF ReadDone, Busy
    <3>2. /\ wpc' \in [Workers -> WorkerStates] /\ job' \in [Workers -> 0..N]
          /\ status' \in [Sources -> Statuses]
      <4>1. /\ wpc \in [Workers -> WorkerStates] /\ job \in [Workers -> 0..N]
            /\ status \in [Sources -> Statuses] /\ 0 \in 0..N
        BY PipelineAssumption DEF PoolInv, TypeOK
      <4> QED BY <1>28, <3>1, <4>1 DEF ReadDone, WorkerStates, Statuses
    <3> QED BY <1>28, <3>2 DEF ReadDone, mainVars, history, PoolInv, TypeOK
  <2>2. Lifetimes'
    BY <1>28 DEF ReadDone, mainVars, history, PoolInv, Lifetimes, launched, entriesClosed, AllExited
  <2>3. Assignment'
    <3>1. PICK st \in {"done", "failed", "aborted"} : st = "done"
      OBVIOUS
    <3>2. errs' \subseteq Sources
      BY <2>1 DEF TypeOK
    <3> QED BY <1>28, <3>1, <3>2, ReleaseFact DEF ReadDone, Busy, mainVars
  <2> QED BY <2>1, <2>2, <2>3 DEF PoolInv
<1>29. ASSUME NEW w \in Workers, ReadFails(w) PROVE PoolInv'
  <2>1. TypeOK'
    BY <1>29 DEF ReadFails, mainVars, workerVars, history, PoolInv, TypeOK, MainStates, WorkerStates, Statuses, Failures, Sources, Workers
  <2>2. Lifetimes'
    BY <1>29 DEF ReadFails, mainVars, workerVars, history, PoolInv, Lifetimes, launched, entriesClosed, AllExited
  <2>3. Assignment'
    <3>1. /\ \A v \in Workers : v # w => wpc'[v] = wpc[v]
          /\ wpc[w] \in Busy /\ wpc'[w] \in Busy /\ wpc'[w] # "emit"
      <4>1. wpc \in [Workers -> WorkerStates]
        BY DEF PoolInv, TypeOK
      <4> QED BY <1>29, <4>1 DEF ReadFails, Busy
    <3>2. \A v \in Workers : (wpc'[v] \in Busy <=> wpc[v] \in Busy) /\ (wpc'[v] = "emit" => wpc[v] = "emit")
      BY <3>1
    <3> QED BY <1>29, <3>2 DEF ReadFails, PoolInv, Assignment
  <2> QED BY <2>1, <2>2, <2>3 DEF PoolInv
<1>30. ASSUME NEW w \in Workers, DropError(w) PROVE PoolInv'
  <2>1. TypeOK'
    <3>1. job[w] \in Sources
      BY <1>30, HeldFact DEF DropError, Busy
    <3>2. /\ wpc' \in [Workers -> WorkerStates] /\ job' \in [Workers -> 0..N]
          /\ status' \in [Sources -> Statuses]
      <4>1. /\ wpc \in [Workers -> WorkerStates] /\ job \in [Workers -> 0..N]
            /\ status \in [Sources -> Statuses] /\ 0 \in 0..N
        BY PipelineAssumption DEF PoolInv, TypeOK
      <4> QED BY <1>30, <3>1, <4>1 DEF DropError, WorkerStates, Statuses
    <3> QED BY <1>30, <3>2 DEF DropError, mainVars, history, PoolInv, TypeOK
  <2>2. Lifetimes'
    BY <1>30 DEF DropError, mainVars, history, PoolInv, Lifetimes, launched, entriesClosed, AllExited
  <2>3. Assignment'
    <3>1. PICK st \in {"done", "failed", "aborted"} : st = "aborted"
      OBVIOUS
    <3>2. errs' \subseteq Sources
      BY <2>1 DEF TypeOK
    <3> QED BY <1>30, <3>1, <3>2, ReleaseFact DEF DropError, Busy, mainVars
  <2> QED BY <2>1, <2>2, <2>3 DEF PoolInv
<1>31. ASSUME NEW w \in Workers, KeepError(w) PROVE PoolInv'
  <2>1. TypeOK'
    BY <1>31 DEF KeepError, mainVars, workerVars, history, PoolInv, TypeOK, MainStates, WorkerStates, Statuses, Failures, Sources, Workers
  <2>2. Lifetimes'
    BY <1>31 DEF KeepError, mainVars, workerVars, history, PoolInv, Lifetimes, launched, entriesClosed, AllExited
  <2>3. Assignment'
    <3>1. /\ \A v \in Workers : v # w => wpc'[v] = wpc[v]
          /\ wpc[w] \in Busy /\ wpc'[w] \in Busy /\ wpc'[w] # "emit"
      <4>1. wpc \in [Workers -> WorkerStates]
        BY DEF PoolInv, TypeOK
      <4> QED BY <1>31, <4>1 DEF KeepError, Busy
    <3>2. \A v \in Workers : (wpc'[v] \in Busy <=> wpc[v] \in Busy) /\ (wpc'[v] = "emit" => wpc[v] = "emit")
      BY <3>1
    <3> QED BY <1>31, <3>2 DEF KeepError, PoolInv, Assignment
  <2> QED BY <2>1, <2>2, <2>3 DEF PoolInv
<1>32. ASSUME NEW w \in Workers, Report(w) PROVE PoolInv'
  <2>1. TypeOK'
    <3>1. job[w] \in Sources
      BY <1>32, HeldFact DEF Report, Busy
    <3>2. /\ wpc' \in [Workers -> WorkerStates] /\ job' \in [Workers -> 0..N]
          /\ status' \in [Sources -> Statuses] /\ errs' \subseteq Sources
      BY <1>32, <3>1 DEF Report, PoolInv, TypeOK, WorkerStates, Statuses
    <3> QED BY <1>32, <3>2 DEF Report, mainVars, history, PoolInv, TypeOK
  <2>2. Lifetimes'
    BY <1>32 DEF Report, mainVars, history, PoolInv, Lifetimes, launched, entriesClosed, AllExited
  <2>3. Assignment'
    <3>1. PICK st \in {"done", "failed", "aborted"} : st = "failed"
      OBVIOUS
    <3>2. errs' \subseteq Sources
      BY <2>1 DEF TypeOK
    <3> QED BY <1>32, <3>1, <3>2, ReleaseFact DEF Report, Busy, mainVars
  <2> QED BY <2>1, <2>2, <2>3 DEF PoolInv
<1>33. ASSUME NEW w \in Workers, WorkerExit(w) PROVE PoolInv'
  <2>1. TypeOK'
    BY <1>33 DEF WorkerExit, mainVars, history, PoolInv, TypeOK, WorkerStates
  <2>2. Lifetimes'
    BY <1>33 DEF WorkerExit, mainVars, history, PoolInv, Lifetimes, launched, entriesClosed, AllExited
  <2>3. /\ wpc'[w] = "exited" /\ wpc[w] = "idle"
        /\ \A v \in Workers : v # w => wpc'[v] = wpc[v]
        /\ UNCHANGED <<job, status, sent, feed, errs, cancelled>>
    BY <1>33 DEF WorkerExit, PoolInv, TypeOK
  <2>4. \A v \in Workers : wpc'[v] = "emit" => sent'[job'[v]] < MaxEvents
    BY <1>33, <2>3 DEF WorkerExit, PoolInv, Assignment
  <2>5. \A v \in Workers : wpc'[v] \in Busy <=> job'[v] # 0
    BY <2>3 DEF PoolInv, Assignment, Busy
  <2>6. Assignment'
    BY <2>3, <2>4, <2>5 DEF PoolInv, Assignment
  <2> QED BY <2>1, <2>2, <2>6 DEF PoolInv
<1>34. CASE UNCHANGED vars
  BY <1>34 DEF vars, mainVars, workerVars, history, PoolInv, Lifetimes, launched, entriesClosed, AllExited, TypeOK, PoolInv, Assignment, Busy
<1> QED BY <1>1, <1>2, <1>3, <1>4, <1>5, <1>6, <1>7, <1>8, <1>9, <1>10, <1>11, <1>12, <1>13, <1>14, <1>15, <1>16, <1>17, <1>18, <1>19, <1>20, <1>21, <1>22, <1>23, <1>24, <1>25, <1>26, <1>27, <1>28, <1>29, <1>30, <1>31, <1>32, <1>33, <1>34 DEF Next, Feeder, Closer, Main, Worker, Reader, Terminated, Quiescent

(* The pool and the channels behave in every reachable state. *)
THEOREM PoolCorrect == Spec => []PoolInv
<1>1. Init => PoolInv
  BY PoolInit
<1>2. PoolInv /\ [Next]_vars => PoolInv'
  BY PoolStep
<1> QED BY <1>1, <1>2, PTL DEF Spec

(* Every variable keeps its type, the channel entries its capacity. *)
THEOREM TypeCorrect == Spec => []TypeOK
<1>1. PoolInv => TypeOK
  BY DEF PoolInv
<1> QED BY <1>1, PoolCorrect, PTL

(* No worker sends on a closed channel: neither the emit nor the report of *)
(* a worker can panic, whatever the interleaving with the closer.          *)
THEOREM NeverSendsAfterClose == Spec => []NoSendAfterClose
<1>1. PoolInv => NoSendAfterClose
  BY DEF PoolInv, Lifetimes, NoSendAfterClose, AllExited, entriesClosed, errsClosed
<1> QED BY <1>1, PoolCorrect, PTL

(* run() returns only after its feeder and workers have ended. *)
THEOREM LeavesNoGoroutine == Spec => []NoGoroutineLeft
<1>1. PoolInv => NoGoroutineLeft
  <2> SUFFICES ASSUME PoolInv, mpc = "returned", launched
               PROVE  jobsClosed /\ AllExited /\ entriesClosed
    BY DEF NoGoroutineLeft
  <2>1. entriesClosed /\ AllExited
    BY DEF PoolInv, Lifetimes
  <2>2. wpc[1] = "exited"
    BY <2>1, PipelineAssumption DEF PoolInv, Lifetimes, AllExited, Workers
  <2> QED BY <2>1, <2>2, PipelineAssumption DEF PoolInv, Lifetimes, Workers
<1> QED BY <1>1, PoolCorrect, PTL

(* A channel with a slot for every source has a free one for the worker    *)
(* that reports, since its own source cannot be in the channel yet.        *)
THEOREM ErrsIsLargeEnough == Spec => []ReportNeverBlocks
<1>1. PoolInv => ReportNeverBlocks
  <2> SUFFICES ASSUME PoolInv, NEW w \in Workers, wpc[w] = "report"
               PROVE  Cardinality(errs) < ErrCap /\ job[w] \notin errs
    BY DEF ReportNeverBlocks
  <2>1. job[w] \in Sources /\ job[w] \notin errs
    BY HeldFact DEF PoolInv, Assignment, Busy
  <2>2. errs \subseteq Sources \ {job[w]}
    BY <2>1 DEF PoolInv, TypeOK
  <2>3. IsFiniteSet(Sources) /\ Cardinality(Sources) = N
    BY PipelineAssumption, FS_Interval DEF Sources
  <2>4. IsFiniteSet(Sources \ {job[w]}) /\ Cardinality(Sources \ {job[w]}) = N - 1
    BY <2>1, <2>3, FS_RemoveElement
  <2>5. Cardinality(errs) <= N - 1 /\ Cardinality(errs) \in Nat
    BY <2>2, <2>4, FS_Subset, FS_CardinalityType
  <2> QED BY <2>1, <2>5, PipelineAssumption DEF ErrCap
<1> QED BY <1>1, PoolCorrect, PTL
--------------------------------------------------------------------------------
(* While a worker lives, main is still consuming. *)
LEMMA LivingWorker ==
  ASSUME PoolInv, NEW w \in Workers, wpc[w] \notin {"absent", "exited"}
  PROVE  mpc \in {"setup", "drain", "consume", "deliver"}
BY DEF PoolInv, TypeOK, MainStates, Lifetimes, AllExited

(* Sending an entry adds just that entry to Sent. *)
LEMMA SentGrows ==
  ASSUME PoolInv, NEW w \in Workers, Emit(w)
  PROVE  Sent' = Sent \cup {Current(w)}
<1>1. /\ job[w] \in Sources /\ Current(w) \in Events /\ sent[job[w]] + 1 \in 1..MaxEvents
  BY CurrentFact DEF Emit
<1>2. /\ \A s \in Sources : s # job[w] => sent'[s] = sent[s]
      /\ sent'[job[w]] = sent[job[w]] + 1
      /\ \A s \in Sources : sent[s] \in Nat
  BY <1>1, PipelineAssumption DEF Emit, PoolInv, TypeOK
<1>3. ASSUME NEW e \in Events PROVE e \in Sent' <=> e \in Sent \cup {Current(w)}
  <2>1. e = <<e[1], e[2]>> /\ e[1] \in Sources /\ e[2] \in Nat
    BY PipelineAssumption DEF Events
  <2>2. e = Current(w) <=> e[1] = job[w] /\ e[2] = sent[job[w]] + 1
    BY <2>1 DEF Current
  <2>3. e[2] <= sent'[e[1]] <=> e[2] <= sent[e[1]] \/ e = Current(w)
    BY <1>1, <1>2, <2>1, <2>2
  <2> QED BY <2>3 DEF Sent
<1> QED BY <1>1, <1>3 DEF Sent

LEMMA FlowInit == Init => FlowInv
<1> SUFFICES ASSUME Init PROVE FlowInv
  OBVIOUS
<1>1. Range(entries) = {} /\ Range(results) = {} /\ Range(out) = {}
  BY DEF Init, Range
<1>2. Sent = {}
  BY PipelineAssumption DEF Init, Sent, Events
<1> QED
  BY <1>1, <1>2 DEF Init, FlowInv, InFlight, OnItsWay, Remembered, Complete

LEMMA FlowStep == PoolInv /\ FlowInv /\ [Next]_vars => FlowInv'
<1> SUFFICES ASSUME PoolInv, FlowInv, [Next]_vars PROVE FlowInv'
  OBVIOUS
<1> USE PipelineAssumption
<1>1. CASE Reject
  <2>1. InFlight'
    BY <1>1 DEF Reject, PoolInv, TypeOK, mainVars, workerVars, history, FlowInv, InFlight, Sent
  <2>2. OnItsWay'
    BY <1>1 DEF Reject, PoolInv, TypeOK, mainVars, workerVars, history, FlowInv, OnItsWay
  <2>3. Remembered'
    BY <1>1 DEF Reject, PoolInv, TypeOK, mainVars, workerVars, history, FlowInv, Remembered
  <2>4. Complete'
    BY <1>1 DEF Reject, PoolInv, TypeOK, mainVars, workerVars, history, FlowInv, Complete, Sent
  <2> QED BY <2>1, <2>2, <2>3, <2>4 DEF FlowInv
<1>2. CASE Launch
  <2>1. InFlight'
    BY <1>2 DEF Launch, PoolInv, TypeOK, mainVars, workerVars, history, FlowInv, InFlight, Sent
  <2>2. OnItsWay'
    BY <1>2 DEF Launch, PoolInv, TypeOK, mainVars, workerVars, history, FlowInv, OnItsWay
  <2>3. Remembered'
    BY <1>2 DEF Launch, PoolInv, TypeOK, mainVars, workerVars, history, FlowInv, Remembered
  <2>4. Complete'
    BY <1>2 DEF Launch, PoolInv, TypeOK, mainVars, workerVars, history, FlowInv, Complete, Sent
  <2> QED BY <2>1, <2>2, <2>3, <2>4 DEF FlowInv
<1>3. CASE Signal
  <2>1. InFlight'
    BY <1>3 DEF Signal, PoolInv, TypeOK, mainVars, workerVars, history, FlowInv, InFlight, Sent
  <2>2. OnItsWay'
    BY <1>3 DEF Signal, PoolInv, TypeOK, mainVars, workerVars, history, FlowInv, OnItsWay
  <2>3. Remembered'
    BY <1>3 DEF Signal, PoolInv, TypeOK, mainVars, workerVars, history, FlowInv, Remembered
  <2>4. Complete'
    BY <1>3 DEF Signal, PoolInv, TypeOK, mainVars, workerVars, history, FlowInv, Complete, Sent
  <2> QED BY <2>1, <2>2, <2>3, <2>4 DEF FlowInv
<1>4. CASE Setup
  <2>1. InFlight'
    BY <1>4 DEF Setup, PoolInv, TypeOK, mainVars, workerVars, history, FlowInv, InFlight, Sent
  <2>2. OnItsWay'
    BY <1>4 DEF Setup, PoolInv, TypeOK, mainVars, workerVars, history, FlowInv, OnItsWay
  <2>3. Remembered'
    BY <1>4 DEF Setup, PoolInv, TypeOK, mainVars, workerVars, history, FlowInv, Remembered
  <2>4. Complete'
    BY <1>4 DEF Setup, PoolInv, TypeOK, mainVars, workerVars, history, FlowInv, Complete, Sent
  <2> QED BY <2>1, <2>2, <2>3, <2>4 DEF FlowInv
<1>5. CASE Drain
  <2>1. InFlight'
    BY <1>5, ReceiveFact DEF Drain, PoolInv, TypeOK, mainVars, workerVars, history, FlowInv, InFlight, Sent
  <2>2. OnItsWay'
    BY <1>5, ReceiveFact DEF Drain, PoolInv, TypeOK, mainVars, workerVars, history, FlowInv, OnItsWay
  <2>3. Remembered'
    BY <1>5, ReceiveFact DEF Drain, PoolInv, TypeOK, mainVars, workerVars, history, FlowInv, Remembered
  <2>4. Complete'
    BY <1>5, ReceiveFact DEF Drain, PoolInv, TypeOK, mainVars, workerVars, history, FlowInv, Complete, Sent
  <2> QED BY <2>1, <2>2, <2>3, <2>4 DEF FlowInv
<1>6. CASE DrainEnd
  <2>1. InFlight'
    BY <1>6 DEF DrainEnd, PoolInv, TypeOK, mainVars, workerVars, history, FlowInv, InFlight, Sent
  <2>2. OnItsWay'
    BY <1>6 DEF DrainEnd, PoolInv, TypeOK, mainVars, workerVars, history, FlowInv, OnItsWay
  <2>3. Remembered'
    BY <1>6 DEF DrainEnd, PoolInv, TypeOK, mainVars, workerVars, history, FlowInv, Remembered
  <2>4. Complete'
    BY <1>6 DEF DrainEnd, PoolInv, TypeOK, mainVars, workerVars, history, FlowInv, Complete, Sent
  <2> QED BY <2>1, <2>2, <2>3, <2>4 DEF FlowInv
<1>7. CASE Discard
  <2>1. InFlight'
    BY <1>7, ReceiveFact DEF Discard, PoolInv, TypeOK, mainVars, workerVars, history, FlowInv, InFlight, Sent
  <2>2. OnItsWay'
    BY <1>7, ReceiveFact DEF Discard, PoolInv, TypeOK, mainVars, workerVars, history, FlowInv, OnItsWay
  <2>3. Remembered'
    BY <1>7, ReceiveFact DEF Discard, PoolInv, TypeOK, mainVars, workerVars, history, FlowInv, Remembered
  <2>4. Complete'
    BY <1>7, ReceiveFact DEF Discard, PoolInv, TypeOK, mainVars, workerVars, history, FlowInv, Complete, Sent
  <2> QED BY <2>1, <2>2, <2>3, <2>4 DEF FlowInv
<1>8. CASE OutOfRange
  <2>1. InFlight'
    BY <1>8, ReceiveFact DEF OutOfRange, Receive, PoolInv, TypeOK, mainVars, workerVars, history, FlowInv, InFlight, Sent
  <2>2. OnItsWay'
    BY <1>8, ReceiveFact DEF OutOfRange, Receive, PoolInv, TypeOK, mainVars, workerVars, history, FlowInv, OnItsWay
  <2>3. Remembered'
    BY <1>8, ReceiveFact DEF OutOfRange, Receive, PoolInv, TypeOK, mainVars, workerVars, history, FlowInv, Remembered
  <2>4. Complete'
    BY <1>8, ReceiveFact DEF OutOfRange, Receive, PoolInv, TypeOK, mainVars, workerVars, history, FlowInv, Complete, Sent
  <2> QED BY <2>1, <2>2, <2>3, <2>4 DEF FlowInv
<1>9. CASE MatchFails
  <2>1. InFlight'
    BY <1>9, ReceiveFact DEF MatchFails, PoolInv, TypeOK, mainVars, workerVars, history, FlowInv, InFlight, Sent
  <2>2. OnItsWay'
    BY <1>9, ReceiveFact DEF MatchFails, PoolInv, TypeOK, mainVars, workerVars, history, FlowInv, OnItsWay
  <2>3. Remembered'
    BY <1>9, ReceiveFact DEF MatchFails, PoolInv, TypeOK, mainVars, workerVars, history, FlowInv, Remembered
  <2>4. Complete'
    BY <1>9, ReceiveFact DEF MatchFails, PoolInv, TypeOK, mainVars, workerVars, history, FlowInv, Complete, Sent
  <2> QED BY <2>1, <2>2, <2>3, <2>4 DEF FlowInv
<1>10. CASE Select
  <2>1. InFlight'
    BY <1>10, ReceiveFact DEF Select, Unreturned, Receive, PoolInv, TypeOK, mainVars, workerVars, history, FlowInv, InFlight, Sent
  <2>2. OnItsWay'
    BY <1>10, ReceiveFact DEF Select, Unreturned, Receive, PoolInv, TypeOK, mainVars, workerVars, history, FlowInv, OnItsWay
  <2>3. Remembered'
    BY <1>10, ReceiveFact DEF Select, Unreturned, Receive, PoolInv, TypeOK, mainVars, workerVars, history, FlowInv, Remembered
  <2>4. Complete'
    BY <1>10, ReceiveFact DEF Select, Unreturned, Receive, PoolInv, TypeOK, mainVars, workerVars, history, FlowInv, Complete, Sent
  <2> QED BY <2>1, <2>2, <2>3, <2>4 DEF FlowInv
<1>11. CASE DeliverFails
  <2>1. InFlight'
    BY <1>11 DEF DeliverFails, PoolInv, TypeOK, mainVars, workerVars, history, FlowInv, InFlight, Sent
  <2>2. OnItsWay'
    BY <1>11 DEF DeliverFails, PoolInv, TypeOK, mainVars, workerVars, history, FlowInv, OnItsWay
  <2>3. Remembered'
    BY <1>11 DEF DeliverFails, PoolInv, TypeOK, mainVars, workerVars, history, FlowInv, Remembered
  <2>4. Complete'
    BY <1>11 DEF DeliverFails, PoolInv, TypeOK, mainVars, workerVars, history, FlowInv, Complete, Sent
  <2> QED BY <2>1, <2>2, <2>3, <2>4 DEF FlowInv
<1>12. CASE DeliverEnd
  <2>1. InFlight'
    BY <1>12 DEF DeliverEnd, PoolInv, TypeOK, mainVars, workerVars, history, FlowInv, InFlight, Sent
  <2>2. OnItsWay'
    BY <1>12 DEF DeliverEnd, PoolInv, TypeOK, mainVars, workerVars, history, FlowInv, OnItsWay
  <2>3. Remembered'
    BY <1>12 DEF DeliverEnd, PoolInv, TypeOK, mainVars, workerVars, history, FlowInv, Remembered
  <2>4. Complete'
    BY <1>12 DEF DeliverEnd, PoolInv, TypeOK, mainVars, workerVars, history, FlowInv, Complete, Sent
  <2> QED BY <2>1, <2>2, <2>3, <2>4 DEF FlowInv
<1>13. CASE ConsumeEnd
  <2>1. InFlight'
    BY <1>13 DEF ConsumeEnd, PoolInv, TypeOK, mainVars, workerVars, history, FlowInv, InFlight, Sent
  <2>2. OnItsWay'
    BY <1>13 DEF ConsumeEnd, PoolInv, TypeOK, mainVars, workerVars, history, FlowInv, OnItsWay
  <2>3. Remembered'
    BY <1>13 DEF ConsumeEnd, PoolInv, TypeOK, mainVars, workerVars, history, FlowInv, Remembered
  <2>4. Complete'
    BY <1>13 DEF ConsumeEnd, PoolInv, TypeOK, mainVars, workerVars, history, FlowInv, Complete, Sent
  <2> QED BY <2>1, <2>2, <2>3, <2>4 DEF FlowInv
<1>14. CASE Verdict
  <2>1. InFlight'
    BY <1>14 DEF Verdict, Interrupted, PoolInv, TypeOK, mainVars, workerVars, history, FlowInv, InFlight, Sent
  <2>2. OnItsWay'
    BY <1>14 DEF Verdict, Interrupted, PoolInv, TypeOK, mainVars, workerVars, history, FlowInv, OnItsWay
  <2>3. Remembered'
    BY <1>14 DEF Verdict, Interrupted, PoolInv, TypeOK, mainVars, workerVars, history, FlowInv, Remembered
  <2>4. Complete'
    <3> SUFFICES ASSUME failures' = {}
                 PROVE  /\ \A s \in Sources : status[s] = "done"
                        /\ handled = Sent
                        /\ mpc' = "returned" => Range(out) = picked
      BY <1>14 DEF Verdict, Interrupted, workerVars, history, Complete, Sent
    <3>1. mpc = "collect" /\ failures = {} /\ errs = {} /\ ~cancelled
      BY <1>14 DEF Verdict, Interrupted, FlowInv, Remembered
    <3>2. ~procErr
      BY <3>1 DEF FlowInv, Remembered
    <3>3. launched /\ jobsClosed /\ AllExited /\ feed = N + 1
      <4>1. launched /\ AllExited
        BY <3>1 DEF PoolInv, Lifetimes
      <4>2. jobsClosed
        BY <4>1 DEF PoolInv, Lifetimes, AllExited, Workers
      <4> QED BY <3>1, <4>1, <4>2 DEF PoolInv, Lifetimes, TypeOK
    <3>4. ASSUME NEW s \in Sources PROVE status[s] = "done"
      <4>1. status[s] # "queued"
        BY <3>3 DEF PoolInv, Assignment, Sources
      <4>2. status[s] # "reading"
        BY <3>3 DEF PoolInv, Assignment, Busy, AllExited, Sources
      <4>3. status[s] # "aborted" /\ status[s] # "failed"
        BY <3>1 DEF PoolInv, Assignment, FlowInv, Remembered
      <4> QED BY <4>1, <4>2, <4>3 DEF PoolInv, TypeOK, Statuses
    <3>5. handled = Sent
      <4>1. Range(entries) = {}
        BY <3>1 DEF FlowInv, InFlight, Range
      <4> QED BY <3>1, <3>2, <4>1 DEF FlowInv, InFlight
    <3>6. ASSUME mpc' = "returned" PROVE Range(out) = picked
      <4>1. ~opt.sorted
        BY <1>14, <3>6 DEF Verdict, Interrupted
      <4>2. selected = {} /\ Range(results) = {}
        BY <3>1, <4>1 DEF FlowInv, OnItsWay, Range
      <4> QED BY <3>2, <4>2 DEF FlowInv, OnItsWay
    <3> QED BY <3>4, <3>5, <3>6
  <2> QED BY <2>1, <2>2, <2>3, <2>4 DEF FlowInv
<1>15. CASE Flush
  <2>1. InFlight'
    BY <1>15, SendFact DEF Flush, PoolInv, TypeOK, mainVars, workerVars, history, FlowInv, InFlight, Sent
  <2>2. OnItsWay'
    <3>1. PICK k \in Unprinted : out' = Append(out, results[k])
      BY <1>15 DEF Flush
    <3>2. results[k] \in Events /\ results[k] \in Range(results)
      BY ElementOfSeq, LenProperties DEF PoolInv, TypeOK, Unprinted, Range
    <3>3. Range(out') = Range(out) \cup {results[k]}
      BY <3>1, <3>2, SendFact DEF PoolInv, TypeOK
    <3> QED
      BY <1>15, <3>2, <3>3
      DEF Flush, workerVars, history, FlowInv, OnItsWay, Remembered
  <2>3. Remembered'
    BY <1>15, SendFact DEF Flush, PoolInv, TypeOK, mainVars, workerVars, history, FlowInv, Remembered
  <2>4. Complete'
    BY <1>15, SendFact DEF Flush, PoolInv, TypeOK, mainVars, workerVars, history, FlowInv, Complete, Sent
  <2> QED BY <2>1, <2>2, <2>3, <2>4 DEF FlowInv
<1>16. CASE FlushFails
  <2>1. InFlight'
    BY <1>16 DEF FlushFails, PoolInv, TypeOK, mainVars, workerVars, history, FlowInv, InFlight, Sent
  <2>2. OnItsWay'
    BY <1>16 DEF FlushFails, PoolInv, TypeOK, mainVars, workerVars, history, FlowInv, OnItsWay
  <2>3. Remembered'
    BY <1>16 DEF FlushFails, PoolInv, TypeOK, mainVars, workerVars, history, FlowInv, Remembered
  <2>4. Complete'
    BY <1>16 DEF FlushFails, PoolInv, TypeOK, mainVars, workerVars, history, FlowInv, Complete, Sent
  <2> QED BY <2>1, <2>2, <2>3, <2>4 DEF FlowInv
<1>17. CASE FlushEnd
  <2>1. InFlight'
    BY <1>17 DEF FlushEnd, PoolInv, TypeOK, mainVars, workerVars, history, FlowInv, InFlight, Sent
  <2>2. OnItsWay'
    BY <1>17 DEF FlushEnd, PoolInv, TypeOK, mainVars, workerVars, history, FlowInv, OnItsWay
  <2>3. Remembered'
    BY <1>17 DEF FlushEnd, PoolInv, TypeOK, mainVars, workerVars, history, FlowInv, Remembered
  <2>4. Complete'
    <3>1. mpc = "flush" /\ failures = {} /\ opt.sorted /\ ~procErr /\ selected = {}
      BY <1>17 DEF FlushEnd, FlowInv, Remembered, OnItsWay
    <3>2. Range(results) \subseteq Range(out)
      BY <1>17 DEF FlushEnd, Unprinted, Range
    <3>3. Range(out) = picked
      BY <3>1, <3>2 DEF FlowInv, OnItsWay
    <3> QED
      BY <1>17, <3>1, <3>3 DEF FlushEnd, workerVars, history, FlowInv, Complete, Sent
  <2> QED BY <2>1, <2>2, <2>3, <2>4 DEF FlowInv
<1>18. CASE FeederEnd
  <2>1. InFlight'
    BY <1>18 DEF FeederEnd, PoolInv, TypeOK, mainVars, workerVars, history, FlowInv, InFlight, Sent
  <2>2. OnItsWay'
    BY <1>18 DEF FeederEnd, PoolInv, TypeOK, mainVars, workerVars, history, FlowInv, OnItsWay
  <2>3. Remembered'
    BY <1>18 DEF FeederEnd, PoolInv, TypeOK, mainVars, workerVars, history, FlowInv, Remembered
  <2>4. Complete'
    BY <1>18 DEF FeederEnd, PoolInv, TypeOK, mainVars, workerVars, history, FlowInv, Complete, Sent
  <2> QED BY <2>1, <2>2, <2>3, <2>4 DEF FlowInv
<1>19. CASE CloseEntries
  <2>1. InFlight'
    BY <1>19 DEF CloseEntries, PoolInv, TypeOK, mainVars, workerVars, history, FlowInv, InFlight, Sent
  <2>2. OnItsWay'
    BY <1>19 DEF CloseEntries, PoolInv, TypeOK, mainVars, workerVars, history, FlowInv, OnItsWay
  <2>3. Remembered'
    BY <1>19 DEF CloseEntries, PoolInv, TypeOK, mainVars, workerVars, history, FlowInv, Remembered
  <2>4. Complete'
    BY <1>19 DEF CloseEntries, PoolInv, TypeOK, mainVars, workerVars, history, FlowInv, Complete, Sent
  <2> QED BY <2>1, <2>2, <2>3, <2>4 DEF FlowInv
<1>20. CASE CloseErrs
  <2>1. InFlight'
    BY <1>20 DEF CloseErrs, PoolInv, TypeOK, mainVars, workerVars, history, FlowInv, InFlight, Sent
  <2>2. OnItsWay'
    BY <1>20 DEF CloseErrs, PoolInv, TypeOK, mainVars, workerVars, history, FlowInv, OnItsWay
  <2>3. Remembered'
    BY <1>20 DEF CloseErrs, PoolInv, TypeOK, mainVars, workerVars, history, FlowInv, Remembered
  <2>4. Complete'
    BY <1>20 DEF CloseErrs, PoolInv, TypeOK, mainVars, workerVars, history, FlowInv, Complete, Sent
  <2> QED BY <2>1, <2>2, <2>3, <2>4 DEF FlowInv
<1>21. ASSUME NEW e \in Events, DeliverSorted(e) PROVE FlowInv'
  <2>1. InFlight'
    BY <1>21, SendFact DEF DeliverSorted, PoolInv, TypeOK, mainVars, workerVars, history, FlowInv, InFlight, Sent
  <2>2. OnItsWay'
    BY <1>21, SendFact DEF DeliverSorted, PoolInv, TypeOK, mainVars, workerVars, history, FlowInv, OnItsWay
  <2>3. Remembered'
    BY <1>21, SendFact DEF DeliverSorted, PoolInv, TypeOK, mainVars, workerVars, history, FlowInv, Remembered
  <2>4. Complete'
    BY <1>21, SendFact DEF DeliverSorted, PoolInv, TypeOK, mainVars, workerVars, history, FlowInv, Complete, Sent
  <2> QED BY <2>1, <2>2, <2>3, <2>4 DEF FlowInv
<1>22. ASSUME NEW e \in Events, DeliverPrinted(e) PROVE FlowInv'
  <2>1. InFlight'
    BY <1>22, SendFact DEF DeliverPrinted, PoolInv, TypeOK, mainVars, workerVars, history, FlowInv, InFlight, Sent
  <2>2. OnItsWay'
    BY <1>22, SendFact DEF DeliverPrinted, PoolInv, TypeOK, mainVars, workerVars, history, FlowInv, OnItsWay
  <2>3. Remembered'
    BY <1>22, SendFact DEF DeliverPrinted, PoolInv, TypeOK, mainVars, workerVars, history, FlowInv, Remembered
  <2>4. Complete'
    BY <1>22, SendFact DEF DeliverPrinted, PoolInv, TypeOK, mainVars, workerVars, history, FlowInv, Complete, Sent
  <2> QED BY <2>1, <2>2, <2>3, <2>4 DEF FlowInv
<1>23. ASSUME NEW s \in Sources, Collect(s) PROVE FlowInv'
  <2>1. InFlight'
    BY <1>23 DEF Collect, mainVars, workerVars, history, FlowInv, InFlight, Sent
  <2>2. OnItsWay'
    BY <1>23 DEF Collect, mainVars, workerVars, history, FlowInv, OnItsWay
  <2>3. Remembered'
    BY <1>23 DEF Collect, mainVars, workerVars, history, FlowInv, Remembered
  <2>4. Complete'
    BY <1>23 DEF Collect, mainVars, workerVars, history, FlowInv, Complete, Sent
  <2> QED BY <2>1, <2>2, <2>3, <2>4 DEF FlowInv
<1>24. ASSUME NEW w \in Workers, Feed(w) PROVE FlowInv'
  <2>1. InFlight'
    BY <1>24, LivingWorker DEF Feed, PoolInv, TypeOK, mainVars, workerVars, history, FlowInv, InFlight, Sent
  <2>2. OnItsWay'
    BY <1>24, LivingWorker DEF Feed, PoolInv, TypeOK, mainVars, workerVars, history, FlowInv, OnItsWay
  <2>3. Remembered'
    BY <1>24, LivingWorker DEF Feed, PoolInv, TypeOK, mainVars, workerVars, history, FlowInv, Remembered
  <2>4. Complete'
    BY <1>24, LivingWorker DEF Feed, PoolInv, TypeOK, mainVars, workerVars, history, FlowInv, Complete, Sent
  <2> QED BY <2>1, <2>2, <2>3, <2>4 DEF FlowInv
<1>25. ASSUME NEW w \in Workers, Fetch(w) PROVE FlowInv'
  <2>1. InFlight'
    BY <1>25, LivingWorker DEF Fetch, PoolInv, TypeOK, mainVars, workerVars, history, FlowInv, InFlight, Sent
  <2>2. OnItsWay'
    BY <1>25, LivingWorker DEF Fetch, PoolInv, TypeOK, mainVars, workerVars, history, FlowInv, OnItsWay
  <2>3. Remembered'
    BY <1>25, LivingWorker DEF Fetch, PoolInv, TypeOK, mainVars, workerVars, history, FlowInv, Remembered
  <2>4. Complete'
    BY <1>25, LivingWorker DEF Fetch, PoolInv, TypeOK, mainVars, workerVars, history, FlowInv, Complete, Sent
  <2> QED BY <2>1, <2>2, <2>3, <2>4 DEF FlowInv
<1>26. ASSUME NEW w \in Workers, Emit(w) PROVE FlowInv'
  <2>1. InFlight'
    <3>1. Current(w) \in Events /\ Sent' = Sent \cup {Current(w)}
      BY <1>26, CurrentFact, SentGrows DEF Emit
    <3>2. Range(entries') = Range(entries) \cup {Current(w)}
      BY <1>26, <3>1, SendFact DEF Emit, PoolInv, TypeOK
    <3>3. mpc \notin {"collect", "flush"}
      BY <1>26, LivingWorker DEF Emit
    <3> QED
      BY <1>26, <3>1, <3>2, <3>3 DEF Emit, mainVars, history, FlowInv, InFlight
  <2>2. OnItsWay'
    BY <1>26, LivingWorker, SentGrows, SendFact, CurrentFact DEF Emit, PoolInv, TypeOK, mainVars, workerVars, history, FlowInv, OnItsWay
  <2>3. Remembered'
    BY <1>26, LivingWorker, SentGrows, SendFact, CurrentFact DEF Emit, PoolInv, TypeOK, mainVars, workerVars, history, FlowInv, Remembered
  <2>4. Complete'
    BY <1>26, LivingWorker, SentGrows, SendFact, CurrentFact DEF Emit, PoolInv, TypeOK, mainVars, workerVars, history, FlowInv, Complete, Sent
  <2> QED BY <2>1, <2>2, <2>3, <2>4 DEF FlowInv
<1>27. ASSUME NEW w \in Workers, EmitAbort(w) PROVE FlowInv'
  <2>1. InFlight'
    BY <1>27, LivingWorker DEF EmitAbort, PoolInv, TypeOK, mainVars, workerVars, history, FlowInv, InFlight, Sent
  <2>2. OnItsWay'
    BY <1>27, LivingWorker DEF EmitAbort, PoolInv, TypeOK, mainVars, workerVars, history, FlowInv, OnItsWay
  <2>3. Remembered'
    BY <1>27, LivingWorker DEF EmitAbort, PoolInv, TypeOK, mainVars, workerVars, history, FlowInv, Remembered
  <2>4. Complete'
    BY <1>27, LivingWorker DEF EmitAbort, PoolInv, TypeOK, mainVars, workerVars, history, FlowInv, Complete, Sent
  <2> QED BY <2>1, <2>2, <2>3, <2>4 DEF FlowInv
<1>28. ASSUME NEW w \in Workers, ReadDone(w) PROVE FlowInv'
  <2>1. InFlight'
    BY <1>28, LivingWorker, HeldFact DEF ReadDone, PoolInv, TypeOK, mainVars, workerVars, history, FlowInv, InFlight, Sent
  <2>2. OnItsWay'
    BY <1>28, LivingWorker, HeldFact DEF ReadDone, PoolInv, TypeOK, mainVars, workerVars, history, FlowInv, OnItsWay
  <2>3. Remembered'
    BY <1>28, LivingWorker, HeldFact DEF ReadDone, PoolInv, TypeOK, mainVars, workerVars, history, FlowInv, Remembered
  <2>4. Complete'
    BY <1>28, LivingWorker, HeldFact DEF ReadDone, PoolInv, TypeOK, mainVars, workerVars, history, FlowInv, Complete, Sent
  <2> QED BY <2>1, <2>2, <2>3, <2>4 DEF FlowInv
<1>29. ASSUME NEW w \in Workers, ReadFails(w) PROVE FlowInv'
  <2>1. InFlight'
    BY <1>29, LivingWorker DEF ReadFails, PoolInv, TypeOK, mainVars, workerVars, history, FlowInv, InFlight, Sent
  <2>2. OnItsWay'
    BY <1>29, LivingWorker DEF ReadFails, PoolInv, TypeOK, mainVars, workerVars, history, FlowInv, OnItsWay
  <2>3. Remembered'
    BY <1>29, LivingWorker DEF ReadFails, PoolInv, TypeOK, mainVars, workerVars, history, FlowInv, Remembered
  <2>4. Complete'
    BY <1>29, LivingWorker DEF ReadFails, PoolInv, TypeOK, mainVars, workerVars, history, FlowInv, Complete, Sent
  <2> QED BY <2>1, <2>2, <2>3, <2>4 DEF FlowInv
<1>30. ASSUME NEW w \in Workers, DropError(w) PROVE FlowInv'
  <2>1. InFlight'
    BY <1>30, LivingWorker, HeldFact DEF DropError, PoolInv, TypeOK, mainVars, workerVars, history, FlowInv, InFlight, Sent
  <2>2. OnItsWay'
    BY <1>30, LivingWorker, HeldFact DEF DropError, PoolInv, TypeOK, mainVars, workerVars, history, FlowInv, OnItsWay
  <2>3. Remembered'
    BY <1>30, LivingWorker, HeldFact DEF DropError, PoolInv, TypeOK, mainVars, workerVars, history, FlowInv, Remembered
  <2>4. Complete'
    BY <1>30, LivingWorker, HeldFact DEF DropError, PoolInv, TypeOK, mainVars, workerVars, history, FlowInv, Complete, Sent
  <2> QED BY <2>1, <2>2, <2>3, <2>4 DEF FlowInv
<1>31. ASSUME NEW w \in Workers, KeepError(w) PROVE FlowInv'
  <2>1. InFlight'
    BY <1>31, LivingWorker DEF KeepError, PoolInv, TypeOK, mainVars, workerVars, history, FlowInv, InFlight, Sent
  <2>2. OnItsWay'
    BY <1>31, LivingWorker DEF KeepError, PoolInv, TypeOK, mainVars, workerVars, history, FlowInv, OnItsWay
  <2>3. Remembered'
    BY <1>31, LivingWorker DEF KeepError, PoolInv, TypeOK, mainVars, workerVars, history, FlowInv, Remembered
  <2>4. Complete'
    BY <1>31, LivingWorker DEF KeepError, PoolInv, TypeOK, mainVars, workerVars, history, FlowInv, Complete, Sent
  <2> QED BY <2>1, <2>2, <2>3, <2>4 DEF FlowInv
<1>32. ASSUME NEW w \in Workers, Report(w) PROVE FlowInv'
  <2>1. InFlight'
    BY <1>32, LivingWorker, HeldFact DEF Report, PoolInv, TypeOK, mainVars, workerVars, history, FlowInv, InFlight, Sent
  <2>2. OnItsWay'
    BY <1>32, LivingWorker, HeldFact DEF Report, PoolInv, TypeOK, mainVars, workerVars, history, FlowInv, OnItsWay
  <2>3. Remembered'
    BY <1>32, LivingWorker, HeldFact DEF Report, PoolInv, TypeOK, mainVars, workerVars, history, FlowInv, Remembered
  <2>4. Complete'
    BY <1>32, LivingWorker, HeldFact DEF Report, PoolInv, TypeOK, mainVars, workerVars, history, FlowInv, Complete, Sent
  <2> QED BY <2>1, <2>2, <2>3, <2>4 DEF FlowInv
<1>33. ASSUME NEW w \in Workers, WorkerExit(w) PROVE FlowInv'
  <2>1. InFlight'
    BY <1>33, LivingWorker DEF WorkerExit, PoolInv, TypeOK, mainVars, workerVars, history, FlowInv, InFlight, Sent
  <2>2. OnItsWay'
    BY <1>33, LivingWorker DEF WorkerExit, PoolInv, TypeOK, mainVars, workerVars, history, FlowInv, OnItsWay
  <2>3. Remembered'
    BY <1>33, LivingWorker DEF WorkerExit, PoolInv, TypeOK, mainVars, workerVars, history, FlowInv, Remembered
  <2>4. Complete'
    BY <1>33, LivingWorker DEF WorkerExit, PoolInv, TypeOK, mainVars, workerVars, history, FlowInv, Complete, Sent
  <2> QED BY <2>1, <2>2, <2>3, <2>4 DEF FlowInv
<1>34. CASE UNCHANGED vars
  BY <1>34 DEF vars, mainVars, workerVars, history, FlowInv, InFlight, OnItsWay, Remembered,
              Complete, Sent
<1> QED
  BY <1>1, <1>2, <1>3, <1>4, <1>5, <1>6, <1>7, <1>8, <1>9, <1>10, <1>11, <1>12, <1>13, <1>14, <1>15, <1>16, <1>17, <1>18, <1>19, <1>20, <1>21, <1>22, <1>23, <1>24, <1>25, <1>26, <1>27, <1>28, <1>29, <1>30, <1>31, <1>32, <1>33, <1>34
  DEF Next, Feeder, Closer, Main, Worker, Reader, Terminated, Quiescent

(* Every entry and every failure is accounted for in every reachable state.*)
THEOREM FlowCorrect == Spec => []FlowInv
<1>1. Init => FlowInv
  BY FlowInit
<1>2. PoolInv /\ FlowInv /\ [Next]_vars => FlowInv'
  BY FlowStep
<1> QED BY <1>1, <1>2, PoolCorrect, PTL DEF Spec

(* A search that reports success has lost nothing: every source read to    *)
(* its end, every entry filtered, every selected entry written.            *)
THEOREM SuccessIsNeverPartial == Spec => []SuccessIsComplete
<1>1. FlowInv => SuccessIsComplete
  BY DEF FlowInv, Complete, SuccessIsComplete
<1> QED BY <1>1, FlowCorrect, PTL

(* No failure of a source is lost between the worker and the verdict. *)
THEOREM NoFailureIsLost == Spec => []SourceFailureReported
<1>1. FlowInv => SourceFailureReported
  BY DEF FlowInv, Remembered, SourceFailureReported
<1> QED BY <1>1, FlowCorrect, PTL
--------------------------------------------------------------------------------
(***************************************************************************)
(* sort.SliceStable is only specified for a strict weak ordering.  The     *)
(* four facts below say that the comparison is one, for every instant,     *)
(* name and line: unknown timestamps, the case a comparison function most  *)
(* easily gets wrong, included.                                            *)
(***************************************************************************)

(* No entry is ahead of itself, and no two entries are ahead of each other. *)
THEOREM BeforeAsymmetric ==
  ASSUME NEW a \in Stamps, NEW b \in Stamps, Before(a, b)
  PROVE  ~Before(b, a)
BY DEF Stamps, Before

(* The comparison is transitive. *)
THEOREM BeforeTransitive ==
  ASSUME NEW a \in Stamps, NEW b \in Stamps, NEW c \in Stamps,
         Before(a, b), Before(b, c)
  PROVE  Before(a, c)
BY DEF Stamps, Before

(* Only entries that agree on all three fields are tied, so being tied is  *)
(* an equivalence and the order is total up to it.                         *)
THEOREM TiedIsEqual ==
  ASSUME NEW a \in Stamps, NEW b \in Stamps
  PROVE  Tied(a, b) <=> a = b
<1>1. (a.time = b.time /\ a.source = b.source /\ a.line = b.line) <=> a = b
  BY DEF Stamps
<1>2. a.time \in Nat /\ a.source \in Nat /\ a.line \in Nat
      /\ b.time \in Nat /\ b.source \in Nat /\ b.line \in Nat
  BY DEF Stamps
<1>3. Tied(a, b) <=> (a.time = b.time /\ a.source = b.source /\ a.line = b.line)
  BY <1>2 DEF Tied, Before
<1> QED BY <1>1, <1>3

(* A known instant always precedes an unknown one. *)
THEOREM KnownFirst ==
  ASSUME NEW a \in Stamps, NEW b \in Stamps, a.time # 0, b.time = 0
  PROVE  Before(a, b)
BY DEF Stamps, Before
--------------------------------------------------------------------------------
(***************************************************************************)
(* Pipeline implements SearchContract.  What the contract forbids, to take *)
(* up, choose or write an entry twice or out of its source's order, needs a*)
(* third layer of the invariant: LedgerInv, in which order the entries     *)
(* pass from the channel through the correlator to the output.             *)
(***************************************************************************)

(* Nothing has failed as long as main goes on. *)
Unbroken ==
  /\ mpc \notin {"collect", "flush", "returned"} => failures = {}
  /\ mpc = "deliver" => ~procErr

(* The channel holds each source's entries in their order, none of them    *)
(* taken up, and all of them behind those that are.                        *)
InOrder ==
  /\ \A i, j \in DOMAIN entries :
       i < j /\ entries[i][1] = entries[j][1] => entries[i][2] < entries[j][2]
  /\ \A f \in handled : \A g \in Range(entries) : f[1] = g[1] => f[2] < g[2]

(* An entry is chosen at most once, after it was taken up, and delivered   *)
(* at most once; without correlation it is the latest one taken up.        *)
OnceOnly ==
  /\ context \subseteq handled \ picked
  /\ picked \subseteq handled
  /\ selected \subseteq picked \ (Range(results) \cup Range(out))
  /\ ~opt.correlate => \A e \in selected : \A f \in handled : f[1] = e[1] => f[2] <= e[2]

LedgerInv == Unbroken /\ InOrder /\ OnceOnly

(* Which steps change what the ledger is about.                            *)
LEMMA LedgerSteps ==
  ASSUME [Next]_vars
  PROVE  \/ \E w \in Workers : Emit(w)
         \/ Drain \/ Discard \/ OutOfRange \/ MatchFails \/ Select
         \/ (\E e \in Events : DeliverSorted(e) \/ DeliverPrinted(e)) \/ DeliverFails \/ Flush
         \/ UNCHANGED <<entries, handled, context, picked, selected, results, out>>
<1> USE DEF mainVars, workerVars, history
<1>1. CASE Reject \/ Launch \/ Setup \/ DrainEnd \/ DeliverEnd \/ ConsumeEnd
           \/ (\E s \in Sources : Collect(s)) \/ Verdict \/ FlushFails \/ FlushEnd
  BY <1>1 DEF Reject, Launch, Setup, DrainEnd, DeliverEnd, ConsumeEnd, Collect, Verdict,
              FlushFails, FlushEnd
<1>2. CASE Signal \/ Feeder \/ Closer \/ Terminated \/ UNCHANGED vars
  BY <1>2 DEF Signal, Feeder, Feed, FeederEnd, Closer, CloseEntries, CloseErrs, Terminated, vars
<1>3. ASSUME NEW w \in Workers, Worker(w), ~Emit(w)
      PROVE  UNCHANGED <<entries, handled, context, picked, selected, results, out>>
  BY <1>3 DEF Worker, Reader, Fetch, ReadDone, ReadFails, EmitAbort, DropError, KeepError,
              Report, WorkerExit
<1> QED BY <1>1, <1>2, <1>3 DEF Next, Main

(* main takes the first entry of the channel.                              *)
LEMMA TakenInOrder ==
  ASSUME PoolInv, InOrder, entries # << >>, entries' = Tail(entries),
         handled' = handled \/ handled' = handled \cup {Head(entries)}
  PROVE  InOrder'
<1>1. /\ entries \in Seq(Events) /\ Len(entries) \in Nat \ {0}
      /\ DOMAIN entries = 1..Len(entries) /\ Head(entries) = entries[1]
  BY EmptySeq, LenProperties DEF PoolInv, TypeOK
<1>2. /\ DOMAIN entries' = 1..(Len(entries) - 1)
      /\ \A i \in 1..(Len(entries) - 1) : entries'[i] = entries[i + 1]
  BY <1>1, HeadTailProperties, LenProperties
<1>3. \A i, j \in DOMAIN entries' :
        i < j /\ entries'[i][1] = entries'[j][1] => entries'[i][2] < entries'[j][2]
  <2> TAKE i, j \in DOMAIN entries'
  <2>1. i + 1 \in DOMAIN entries /\ j + 1 \in DOMAIN entries /\ (i < j => i + 1 < j + 1)
    BY <1>1, <1>2
  <2> QED BY <1>2, <2>1 DEF InOrder
<1>4. ASSUME NEW g \in Range(entries')
      PROVE  /\ g \in Range(entries)
             /\ Head(entries)[1] = g[1] => Head(entries)[2] < g[2]
  <2>1. PICK j \in DOMAIN entries' : g = entries'[j]
    BY DEF Range
  <2>2. j + 1 \in DOMAIN entries /\ 1 \in DOMAIN entries /\ 1 < j + 1 /\ g = entries[j + 1]
    BY <1>1, <1>2, <2>1
  <2> QED BY <1>1, <2>2 DEF InOrder, Range
<1> QED BY <1>3, <1>4 DEF InOrder

(* A worker sends the next entry of its source.                            *)
LEMMA SentInOrder ==
  ASSUME PoolInv, InFlight, InOrder, NEW w \in Workers, Emit(w)
  PROVE  InOrder'
<1> DEFINE c == Current(w)
<1>1. /\ entries \in Seq(Events) /\ Len(entries) \in Nat /\ DOMAIN entries = 1..Len(entries)
      /\ c \in Events /\ entries' = Append(entries, c) /\ handled' = handled
  BY CurrentFact, LenProperties DEF PoolInv, TypeOK, Emit, history
<1>2. ASSUME NEW e \in Sent, e[1] = c[1] PROVE e[2] < c[2]
  <2>1. job[w] \in Sources /\ sent[job[w]] \in Nat
    BY CurrentFact, PipelineAssumption DEF PoolInv, TypeOK, Emit
  <2>2. e[2] \in Nat /\ e[2] <= sent[job[w]]
    BY <1>2, PipelineAssumption DEF Sent, Events, Current
  <2> QED BY <2>1, <2>2 DEF Current
<1> HIDE DEF c
<1>3. /\ DOMAIN entries' = 1..(Len(entries) + 1)
      /\ \A i \in 1..Len(entries) : entries'[i] = entries[i]
      /\ entries'[Len(entries) + 1] = c
      /\ Range(entries') = Range(entries) \cup {c}
  BY <1>1, SendFact, AppendProperties, LenProperties
<1>4. \A i \in 1..Len(entries) : entries[i] \in Sent
  BY <1>1 DEF InFlight, Range
<1>5. \A i, j \in DOMAIN entries' :
        i < j /\ entries'[i][1] = entries'[j][1] => entries'[i][2] < entries'[j][2]
  <2> TAKE i, j \in DOMAIN entries'
  <2> HAVE i < j /\ entries'[i][1] = entries'[j][1]
  <2>1. i \in 1..Len(entries)
    BY <1>1, <1>3
  <2>2. CASE j \in 1..Len(entries)
    BY <1>1, <1>3, <2>1, <2>2 DEF InOrder
  <2>3. CASE j = Len(entries) + 1
    BY <1>2, <1>3, <1>4, <2>1, <2>3
  <2> QED BY <1>1, <1>3, <2>2, <2>3
<1>6. \A f \in handled' : \A g \in Range(entries') : f[1] = g[1] => f[2] < g[2]
  BY <1>1, <1>2, <1>3 DEF InOrder, InFlight
<1> QED BY <1>5, <1>6 DEF InOrder

LEMMA LedgerInit == Init => LedgerInv
<1> SUFFICES ASSUME Init PROVE LedgerInv
  OBVIOUS
<1>1. Range(entries) = {} /\ DOMAIN entries = {}
  BY DEF Init, Range
<1> QED BY <1>1 DEF Init, LedgerInv, Unbroken, InOrder, OnceOnly

LEMMA LedgerStep == PoolInv /\ FlowInv /\ LedgerInv /\ [Next]_vars => LedgerInv'
<1> SUFFICES ASSUME PoolInv, FlowInv, LedgerInv, [Next]_vars PROVE LedgerInv'
  OBVIOUS
<1> USE DEF mainVars, workerVars, history
<1>1. Unbroken'
  <2>1. Unbroken
    BY DEF LedgerInv
  <2>2. CASE Reject \/ Launch \/ Setup \/ Drain \/ DrainEnd \/ Discard \/ DeliverEnd
             \/ ConsumeEnd \/ (\E s \in Sources : Collect(s)) \/ Verdict
    BY <2>1, <2>2 DEF Unbroken, Reject, Launch, Setup, Drain, DrainEnd, Discard, DeliverEnd,
                      ConsumeEnd, Collect, Verdict
  <2>3. CASE OutOfRange \/ MatchFails \/ Select
             \/ (\E e \in Events : DeliverSorted(e) \/ DeliverPrinted(e)) \/ DeliverFails
    BY <2>1, <2>3 DEF Unbroken, OutOfRange, Receive, MatchFails, Select, DeliverSorted,
                      DeliverPrinted, DeliverFails
  <2>4. CASE Flush \/ FlushFails \/ FlushEnd
    BY <2>1, <2>4 DEF Unbroken, Flush, FlushFails, FlushEnd
  <2>5. CASE Signal \/ Feeder \/ Closer \/ Terminated \/ UNCHANGED vars
    BY <2>1, <2>5 DEF Unbroken, Signal, Feeder, Feed, FeederEnd, Closer, CloseEntries,
                      CloseErrs, Terminated, vars
  <2>6. ASSUME NEW w \in Workers, Worker(w) PROVE Unbroken'
    BY <2>1, <2>6 DEF Unbroken, Worker, Reader, Fetch, ReadDone, ReadFails, Emit, EmitAbort,
                      DropError, KeepError, Report, WorkerExit
  <2> QED BY <2>2, <2>3, <2>4, <2>5, <2>6 DEF Next, Main
<1>2. InOrder'
  <2>1. InOrder /\ InFlight
    BY DEF LedgerInv, FlowInv
  <2>2. CASE \E w \in Workers : Emit(w)
    BY <2>1, <2>2, SentInOrder
  <2>3. CASE Drain \/ Discard \/ OutOfRange \/ MatchFails \/ Select
    BY <2>1, <2>3, TakenInOrder DEF Drain, Discard, OutOfRange, Receive, MatchFails, Select
  <2>4. CASE UNCHANGED <<entries, handled>>
    BY <2>1, <2>4 DEF InOrder
  <2>5. (\E e \in Events : DeliverSorted(e) \/ DeliverPrinted(e)) \/ DeliverFails \/ Flush
          => UNCHANGED <<entries, handled>>
    BY DEF DeliverSorted, DeliverPrinted, DeliverFails, Flush
  <2> QED BY <2>2, <2>3, <2>4, <2>5, LedgerSteps
<1>3. OnceOnly'
  <2>1. OnceOnly /\ InOrder /\ OnItsWay
    BY DEF LedgerInv, FlowInv
  <2>2. CASE OutOfRange \/ MatchFails
    <3>1. selected = {}
      BY <2>1, <2>2 DEF OnItsWay, OutOfRange, Receive, MatchFails
    <3> QED BY <2>1, <2>2, <3>1 DEF OnceOnly, OutOfRange, Receive, MatchFails
  <2>3. CASE Select
    <3> DEFINE e == Head(entries)
               held == IF opt.correlate THEN context \cup {e} ELSE {e}
    <3>1. PICK S \in SUBSET held :
            /\ selected' = S /\ picked' = picked \cup S
            /\ context' = IF opt.correlate THEN Unreturned(held, S) ELSE {}
      BY <2>3 DEF Select
    <3>2. /\ handled' = handled \cup {e} /\ e \in Range(entries) /\ e[2] \in Nat
          /\ UNCHANGED <<opt, results, out>> /\ ~procErr
      <4>1. e \in Events /\ e \in Range(entries)
        BY <2>3, ReceiveFact DEF Select, Receive, PoolInv, TypeOK
      <4> QED BY <2>3, <4>1, PipelineAssumption DEF Select, Receive, Events
    <3>3. e \notin handled /\ \A f \in handled : f[1] = e[1] => f[2] < e[2]
      BY <2>1, <3>2 DEF InOrder
    <3>4. Range(results) \cup Range(out) \subseteq picked
      BY <2>1, <3>2 DEF OnItsWay
    <3>5. handled \subseteq Events
      BY DEF PoolInv, TypeOK
    <3> HIDE DEF e
    <3>6. context' \subseteq handled' \ picked' /\ picked' \subseteq handled'
      BY <2>1, <3>1, <3>2, <3>3 DEF OnceOnly, Unreturned
    <3>7. selected' \subseteq picked' \ (Range(results') \cup Range(out'))
      BY <2>1, <3>1, <3>2, <3>3, <3>4 DEF OnceOnly
    <3>8. ASSUME ~opt.correlate, NEW g \in selected', NEW f \in handled', f[1] = g[1]
          PROVE  f[2] <= g[2]
      <4>1. g = e
        BY <3>1, <3>8
      <4>2. CASE f = e
        BY <3>2, <4>1, <4>2
      <4>3. CASE f \in handled
        <5>1. f[2] \in Nat /\ f[2] < e[2]
          BY <3>3, <3>5, <3>8, <4>1, <4>3, PipelineAssumption DEF Events
        <5> QED BY <3>2, <4>1, <5>1
      <4> QED BY <3>2, <4>2, <4>3
    <3> QED BY <3>2, <3>6, <3>7, <3>8 DEF OnceOnly
  <2>4. ASSUME NEW e \in Events, DeliverSorted(e) \/ DeliverPrinted(e) PROVE OnceOnly'
    <3>1. results \in Seq(Events) /\ out \in Seq(Events)
      BY DEF PoolInv, TypeOK
    <3>2. DeliverSorted(e) => Range(results') = Range(results) \cup {e} /\ Range(out') = Range(out)
      <4> HAVE DeliverSorted(e)
      <4>1. results' = Append(results, e) /\ out' = out
        BY DEF DeliverSorted
      <4> QED BY <4>1, <3>1, SendFact
    <3>3. DeliverPrinted(e) => Range(results') = Range(results) /\ Range(out') = Range(out) \cup {e}
      <4> HAVE DeliverPrinted(e)
      <4>1. out' = Append(out, e) /\ results' = results
        BY DEF DeliverPrinted
      <4> QED BY <4>1, <3>1, SendFact
    <3>4. \/ Range(results') = Range(results) \cup {e} /\ Range(out') = Range(out)
          \/ Range(results') = Range(results) /\ Range(out') = Range(out) \cup {e}
      BY <2>4, <3>2, <3>3
    <3>5. selected' = selected \ {e} /\ UNCHANGED <<opt, context, handled, picked>>
      BY <2>4 DEF DeliverSorted, DeliverPrinted
    <3> QED BY <2>1, <3>4, <3>5 DEF OnceOnly
  <2>5. CASE Flush
    <3>1. selected = {} /\ UNCHANGED <<opt, context, handled, picked, selected>>
      BY <2>1, <2>5 DEF OnItsWay, Flush
    <3> QED BY <2>1, <3>1 DEF OnceOnly
  <2>6. CASE DeliverFails
    BY <2>1, <2>6 DEF OnceOnly, DeliverFails
  <2>7. ASSUME UNCHANGED <<handled, context, picked, selected, results, out>>
        PROVE  OnceOnly'
    <3>1. opt' = opt
      BY DEF Next, Main, Feeder, Closer, Worker, Reader, Terminated, vars,
             Reject, Launch, Setup, Drain, DrainEnd, Discard, OutOfRange, Receive, MatchFails,
             Select, DeliverSorted, DeliverPrinted, DeliverFails, DeliverEnd, ConsumeEnd,
             Collect, Verdict, Flush, FlushFails, FlushEnd, Signal, Feed, FeederEnd,
             CloseEntries, CloseErrs, Fetch, ReadDone, ReadFails, Emit, EmitAbort, DropError,
             KeepError, Report, WorkerExit
    <3> QED BY <2>1, <2>7, <3>1 DEF OnceOnly
  <2>8. (\E w \in Workers : Emit(w)) \/ Drain \/ Discard
          => UNCHANGED <<handled, context, picked, selected, results, out>>
    BY DEF Emit, Drain, Discard
  <2> QED BY <2>2, <2>3, <2>4, <2>5, <2>6, <2>7, <2>8, LedgerSteps
<1> QED BY <1>1, <1>2, <1>3 DEF LedgerInv

(* No entry is taken up, chosen or delivered twice or out of order.        *)
THEOREM LedgerCorrect == Spec => []LedgerInv
<1>1. Init => LedgerInv
  BY LedgerInit
<1>2. PoolInv /\ FlowInv /\ LedgerInv /\ [Next]_vars => LedgerInv'
  BY LedgerStep
<1> QED BY <1>1, <1>2, PoolCorrect, FlowCorrect, PTL DEF Spec
--------------------------------------------------------------------------------
(***************************************************************************)
(* What the user sees of the output, in one state rather than step by      *)
(* step: nothing is written twice, -sort is a stable sort whatever the     *)
(* order in which the workers filled the buffer, and without -sort and     *)
(* correlation a source's entries come in its order.                       *)
(***************************************************************************)

(* In a stable sort the result at position k comes before the one at l. *)
StablyBefore(k, l) ==
  LET a == Stamp[results[k]]
      b == Stamp[results[l]]
  IN Before(a, b) \/ (Tied(a, b) /\ k < l)

NothingTwice == IsInjective(results) /\ IsInjective(out)

(* Each entry written comes before all that were not written by then, so   *)
(* that the output is the beginning of the stable sort of the buffer.      *)
StablySorted ==
  opt.sorted =>
    \A i \in DOMAIN out : \A k, l \in DOMAIN results :
      out[i] = results[k] /\ (\A h \in 1..i : out[h] # results[l]) => StablyBefore(k, l)

SourceOrder ==
  ~opt.sorted /\ ~opt.correlate =>
    \A i, j \in DOMAIN out : i < j /\ out[i][1] = out[j][1] => out[i][2] < out[j][2]

OutputInOrder == NothingTwice /\ StablySorted /\ SourceOrder

(* Without correlation the entry being printed is its source's latest.     *)
LEMMA PrintedIsLatest ==
  ASSUME PoolInv, FlowInv, LedgerInv, NEW e \in selected, ~procErr, ~opt.correlate,
         NEW f \in Range(out), f[1] = e[1]
  PROVE  f[2] < e[2]
<1>1. f \in handled /\ f \in Events /\ e \in Events /\ f # e
  BY DEF PoolInv, TypeOK, FlowInv, OnItsWay, LedgerInv, OnceOnly
<1>2. f[2] <= e[2]
  BY <1>1 DEF LedgerInv, OnceOnly
<1>3. f[2] # e[2] /\ f[2] \in Nat /\ e[2] \in Nat
  BY <1>1, PipelineAssumption DEF Events
<1> QED BY <1>2, <1>3

(* Appending a new element leaves a sequence without repetitions so.       *)
LEMMA AppendDistinct ==
  ASSUME NEW q \in Seq(Events), IsInjective(q), NEW e \in Events, e \notin Range(q)
  PROVE  IsInjective(Append(q, e))
<1> DEFINE p == Append(q, e)
           n == Len(q) + 1
<1>1. /\ DOMAIN q = 1..Len(q) /\ Len(q) \in Nat /\ DOMAIN p = 1..n
      /\ p[n] = e /\ \A i \in DOMAIN q : p[i] = q[i]
  BY AppendProperties, LenProperties
<1>2. \A i \in DOMAIN p : i \in DOMAIN q \/ i = n
  BY <1>1
<1>3. \A i \in DOMAIN q : q[i] # e
  BY DEF Range
<1> HIDE DEF p, n
<1>4. \A i, j \in DOMAIN p : p[i] = p[j] => i = j
  BY <1>1, <1>2, <1>3 DEF IsInjective
<1> QED BY <1>4 DEF IsInjective, p

LEMMA OutputInit == Init => OutputInOrder
BY DEF Init, OutputInOrder, NothingTwice, StablySorted, SourceOrder, IsInjective

(* The flush writes a result that belongs before all that are left.        *)
LEMMA FlushIsSorted ==
  ASSUME PoolInv, FlowInv, OutputInOrder, Flush
  PROVE  OutputInOrder'
<1>1. PICK k \in Unprinted : NextSorted(k) /\ out' = Append(out, results[k])
  BY DEF Flush
<1> DEFINE e == results[k]
           n == Len(out) + 1
<1>2. opt' = opt /\ results' = results /\ opt.sorted
  BY DEF Flush, FlowInv, Remembered
<1>3. /\ k \in DOMAIN results /\ e \in Events /\ e \notin Range(out)
      /\ out \in Seq(Events) /\ results \in Seq(Events)
  BY DEF Unprinted, PoolInv, TypeOK
<1>4. /\ DOMAIN out = 1..Len(out) /\ Len(out) \in Nat /\ DOMAIN out' = 1..n
      /\ out'[n] = e /\ \A i \in DOMAIN out : out'[i] = out[i]
  BY <1>1, <1>3, AppendProperties, LenProperties
<1>5. IsInjective(results) /\ IsInjective(out) /\ StablySorted
  BY DEF OutputInOrder, NothingTwice
<1>6. NothingTwice'
  <2>1. IsInjective(Append(out, e))
    BY <1>3, <1>5, AppendDistinct
  <2> QED BY <1>1, <1>2, <1>5, <2>1 DEF NothingTwice
<1>7. \A l, m : StablyBefore(l, m)' = StablyBefore(l, m)
  BY <1>2 DEF StablyBefore
<1>8. ASSUME opt.sorted, NEW i \in DOMAIN out', NEW l \in DOMAIN results, NEW m \in DOMAIN results,
             out'[i] = results[l], \A h \in 1..i : out'[h] # results[m]
      PROVE  StablyBefore(l, m)
  <2>1. CASE i \in DOMAIN out
    <3>1. \A h \in 1..i : h \in DOMAIN out /\ out[h] = out'[h]
      BY <1>4, <2>1
    <3>2. out[i] = results[l] /\ \A h \in 1..i : out[h] # results[m]
      BY <1>4, <1>8, <2>1, <3>1
    <3> QED BY <1>5, <1>8, <2>1, <3>2 DEF StablySorted
  <2>2. CASE i = n
    <3>1. l = k
      BY <1>3, <1>4, <1>5, <1>8, <2>2 DEF IsInjective
    <3>2. m \in Unprinted \ {k}
      <4>1. \A h \in DOMAIN out : h \in 1..i /\ out[h] # results[m]
        <5>1. \A h \in DOMAIN out : h \in 1..i
          BY <1>4, <2>2
        <5> QED BY <1>4, <1>8, <5>1
      <4>2. n \in 1..i
        BY <1>4, <2>2
      <4>3. results[m] # e
        BY <1>4, <1>8, <4>2
      <4> QED BY <1>8, <4>1, <4>3 DEF Unprinted, Range
    <3> QED BY <1>1, <3>1, <3>2 DEF NextSorted, StablyBefore
  <2>3. i \in DOMAIN out \/ i = n
    BY <1>4
  <2> QED BY <2>1, <2>2, <2>3
<1>9. StablySorted'
  BY <1>2, <1>7, <1>8 DEF StablySorted
<1>10. SourceOrder'
  BY <1>2 DEF SourceOrder
<1> QED BY <1>6, <1>9, <1>10 DEF OutputInOrder

LEMMA OutputStep == PoolInv /\ FlowInv /\ LedgerInv /\ OutputInOrder /\ [Next]_vars => OutputInOrder'
<1> SUFFICES ASSUME PoolInv, FlowInv, LedgerInv, OutputInOrder, [Next]_vars PROVE OutputInOrder'
  OBVIOUS
<1>1. opt' = opt
  BY DEF Next, Main, vars, Reject, Launch, Setup, Drain, DrainEnd, Discard, OutOfRange, Receive,
     MatchFails, Select, DeliverSorted, DeliverPrinted, DeliverFails, DeliverEnd, ConsumeEnd,
     Collect, Verdict, Flush, FlushFails, FlushEnd, Signal, Feeder, Feed, FeederEnd, Closer,
     CloseEntries, CloseErrs, Terminated, Worker, Reader, Fetch, ReadDone, ReadFails, Emit,
     EmitAbort, DropError, KeepError, Report, WorkerExit
<1>2. ASSUME UNCHANGED <<results, out>> PROVE OutputInOrder'
  BY <1>1, <1>2 DEF OutputInOrder, NothingTwice, StablySorted, SourceOrder, StablyBefore
<1>3. ASSUME NEW e \in Events, DeliverSorted(e) PROVE OutputInOrder'
  <2>1. /\ e \notin Range(results) /\ results \in Seq(Events) /\ results' = Append(results, e)
        /\ opt.sorted /\ out = << >> /\ out' = << >>
    BY <1>3 DEF DeliverSorted, LedgerInv, OnceOnly, FlowInv, OnItsWay, PoolInv, TypeOK
  <2>2. IsInjective(results')
    <3>1. IsInjective(results)
      BY DEF OutputInOrder, NothingTwice
    <3> QED BY <2>1, <3>1, AppendDistinct
  <2>3. IsInjective(out') /\ DOMAIN out' = {}
    BY <2>1 DEF IsInjective
  <2> QED BY <1>1, <2>1, <2>2, <2>3 DEF OutputInOrder, NothingTwice, StablySorted, SourceOrder
<1>4. ASSUME NEW e \in Events, DeliverPrinted(e) PROVE OutputInOrder'
  <2>1. /\ e \notin Range(out) /\ out \in Seq(Events) /\ out' = Append(out, e)
        /\ ~opt.sorted /\ results' = results /\ e \in selected /\ ~procErr
    BY <1>4 DEF DeliverPrinted, LedgerInv, OnceOnly, Unbroken, PoolInv, TypeOK
  <2>2. NothingTwice'
    <3>1. IsInjective(results) /\ IsInjective(out)
      BY DEF OutputInOrder, NothingTwice
    <3>2. IsInjective(out')
      BY <2>1, <3>1, AppendDistinct
    <3> QED BY <2>1, <3>1, <3>2 DEF NothingTwice
  <2>3. SourceOrder'
    <3>1. /\ DOMAIN out = 1..Len(out) /\ Len(out) \in Nat /\ DOMAIN out' = 1..(Len(out) + 1)
          /\ out'[Len(out) + 1] = e /\ \A i \in DOMAIN out : out'[i] = out[i]
      BY <2>1, AppendProperties, LenProperties
    <3>2. ASSUME ~opt.correlate, NEW i \in DOMAIN out', NEW j \in DOMAIN out',
                 i < j, out'[i][1] = out'[j][1]
          PROVE  out'[i][2] < out'[j][2]
      <4>1. i \in DOMAIN out
        BY <3>1, <3>2
      <4>2. CASE j \in DOMAIN out
        BY <2>1, <3>1, <3>2, <4>1, <4>2 DEF OutputInOrder, SourceOrder
      <4>3. CASE j = Len(out) + 1
        <5>1. out[i] \in Range(out) /\ out[i][1] = e[1]
          BY <3>1, <3>2, <4>1, <4>3 DEF Range
        <5>2. out[i][2] < e[2]
          BY <2>1, <3>2, <5>1, PrintedIsLatest
        <5> QED BY <3>1, <4>1, <4>3, <5>2
      <4> QED BY <3>1, <4>2, <4>3
    <3> QED BY <1>1, <3>2 DEF SourceOrder
  <2>4. StablySorted'
    BY <1>1, <2>1 DEF StablySorted
  <2> QED BY <2>2, <2>3, <2>4 DEF OutputInOrder
<1>5. CASE \/ \E w \in Workers : Emit(w)
           \/ Drain \/ Discard \/ OutOfRange \/ MatchFails \/ Select \/ DeliverFails
  BY <1>2, <1>5 DEF Emit, Drain, Discard, OutOfRange, MatchFails, Select, Receive, DeliverFails,
                    mainVars
<1> QED BY <1>2, <1>3, <1>4, <1>5, LedgerSteps, FlushIsSorted

(* README.md 75-78, search.go 161-178: in every state the output holds no  *)
(* entry twice; with -sort it is the beginning of the stable sort of what  *)
(* was buffered, whatever the order in which the workers delivered it; and *)
(* with neither -sort nor correlation each source's entries are in order.  *)
THEOREM OutputIsInOrder == Spec => []OutputInOrder
<1>1. Init => OutputInOrder
  BY OutputInit
<1>2. PoolInv /\ FlowInv /\ LedgerInv /\ OutputInOrder /\ [Next]_vars => OutputInOrder'
  BY OutputStep
<1> QED BY <1>1, <1>2, PoolCorrect, FlowCorrect, LedgerCorrect, PTL DEF Spec
--------------------------------------------------------------------------------
(* What the contract sees of the pipeline. *)
Mode      == IF opt.sorted THEN "sorted" ELSE IF opt.correlate THEN "linked" ELSE "plain"
Ended     == {s \in Sources : status[s] = "done"}
Broken    == procErr \/ failures # {}
Judgement == IF mpc # "returned" THEN "none"
             ELSE IF failures = {} THEN "success" ELSE "failure"

LEMMA ContractInit == Init => Contract!Init
<1> SUFFICES ASSUME Init PROVE Contract!Init
  OBVIOUS
<1>1. Sent = {}
  BY PipelineAssumption DEF Init, Sent, Events
<1>2. {s \in Sources : status[s] = "done"} = {}
  BY DEF Init
<1> QED BY <1>1, <1>2 DEF Init, Contract!Init

(* The steps the contract does not see. *)
LEMMA Unseen ==
  ASSUME opt' = opt, sent' = sent, UNCHANGED <<handled, picked, out>>,
         Ended' = Ended, Broken' = Broken, Judgement' = Judgement
  PROVE  UNCHANGED Contract!vars
<1>1. Mode' = Mode /\ Sent' = Sent
  BY DEF Mode, Sent
<1> QED BY <1>1 DEF Contract!vars, Mode, Ended, Broken, Judgement

(* A worker emits an entry: it is read. *)
LEMMA EmitIsRead ==
  ASSUME PoolInv, LedgerInv, NEW w \in Workers, Emit(w)
  PROVE  Contract!ReadEntry(Current(w))
<1> DEFINE e == Current(w)
<1>1. e \in Events /\ e[1] = job[w] /\ e[2] = sent[job[w]] + 1
      /\ job[w] \in Sources /\ sent[job[w]] \in Nat
  BY CurrentFact, PipelineAssumption DEF Emit, Current, PoolInv, TypeOK
<1>2. Sent' = Sent \cup {e}
  BY SentGrows
<1>3. e \notin Sent
  BY <1>1 DEF Sent
<1>4. status[job[w]] = "reading"
  BY HeldFact DEF Emit, Busy
<1>5. \A p \in 1..MaxEvents : p < e[2] => <<e[1], p>> \in Sent
  <2> TAKE p \in 1..MaxEvents
  <2> HAVE p < e[2]
  <2>1. <<e[1], p>> \in Events /\ p <= sent[job[w]]
    BY <1>1, PipelineAssumption DEF Events
  <2> QED BY <1>1, <2>1 DEF Sent
<1>6. mpc # "returned" /\ mpc' = mpc
  BY LivingWorker DEF Emit, mainVars
<1>7. UNCHANGED <<opt, status, handled, picked, out, procErr, failures>>
  BY DEF Emit, mainVars, history
<1> HIDE DEF e
<1> QED
  <2>1. e \notin Sent /\ e[1] \notin Ended
    BY <1>1, <1>3, <1>4 DEF Ended
  <2> QED BY <1>2, <1>5, <1>6, <1>7, <2>1 DEF Contract!ReadEntry, Contract!Running, Ended, e

(* main takes the first entry of the channel, which chooses some of those  *)
(* taken so far.                                                           *)
LEMMA ReceiveIsTake ==
  ASSUME PoolInv, FlowInv, LedgerInv, Receive, mpc' # "returned", procErr' = procErr,
         picked \subseteq picked', picked' \subseteq handled'
  PROVE  Contract!Take(Head(entries))
<1> DEFINE e == Head(entries)
<1>1. e \in Events /\ e \in Range(entries) /\ e[2] \in Nat
  <2>1. e \in Events /\ e \in Range(entries)
    BY ReceiveFact DEF Receive, PoolInv, TypeOK
  <2> QED BY <2>1, PipelineAssumption DEF Events
<1>2. e \in Sent \ handled
  BY <1>1 DEF FlowInv, InFlight, LedgerInv, InOrder
<1>3. handled' = handled \cup {e} /\ UNCHANGED <<opt, status, sent, out, failures>>
      /\ mpc = "consume" /\ ~procErr
  BY DEF Receive, workerVars
<1>4. failures = {}
  BY <1>3 DEF LedgerInv, Unbroken
<1> HIDE DEF e
<1>5. Sent' = Sent
  BY <1>3 DEF Sent
<1> QED BY <1>2, <1>3, <1>4, <1>5 DEF Contract!Take, Contract!Running, e

(* A failure while main consumes. *)
LEMMA MatchFailsIsBreak ==
  ASSUME PoolInv, FlowInv, LedgerInv, MatchFails
  PROVE  Contract!Break
<1> DEFINE e == Head(entries)
<1>1. e \in Events /\ e \in Range(entries) /\ e[2] \in Nat
  <2>1. e \in Events /\ e \in Range(entries)
    BY ReceiveFact DEF MatchFails, PoolInv, TypeOK
  <2> QED BY <2>1, PipelineAssumption DEF Events
<1>2. e \in Sent \ handled
  BY <1>1 DEF FlowInv, InFlight, LedgerInv, InOrder
<1>3. handled' = handled \cup {e}
      /\ UNCHANGED <<opt, status, sent, out, failures, picked, mpc>>
      /\ mpc = "consume" /\ ~procErr /\ procErr'
  BY DEF MatchFails, workerVars
<1>4. failures = {}
  BY <1>3 DEF LedgerInv, Unbroken
<1> HIDE DEF e
<1>5. Sent' = Sent
  BY <1>3 DEF Sent
<1> QED BY <1>2, <1>3, <1>4, <1>5 DEF Contract!Break, Contract!Running

(* Without -sort a selected entry is written at once. *)
LEMMA PrintIsWrite ==
  ASSUME PoolInv, FlowInv, LedgerInv, NEW e \in Events, DeliverPrinted(e)
  PROVE  Contract!Write(e)
<1>1. /\ mpc = "deliver" /\ ~opt.sorted /\ ~procErr /\ failures = {}
      /\ out' = Append(out, e) /\ e \in picked \ Range(out)
      /\ UNCHANGED <<opt, mpc, status, sent, handled, picked, procErr, failures>>
  BY DEF DeliverPrinted, LedgerInv, Unbroken, OnceOnly, workerVars, history
<1>2. Sent' = Sent
  BY <1>1 DEF Sent
<1>3. ~opt.correlate => \A f \in Range(out) : f[1] = e[1] => f[2] < e[2]
  BY <1>1, PrintedIsLatest DEF DeliverPrinted
<1>4. \A s : Contract!Range(s) = Range(s)
  BY DEF Contract!Range, Range
<1> QED BY <1>1, <1>2, <1>3, <1>4 DEF Contract!Write, Contract!Running

(* The contract's order of the collation is the comparison of search.Sort. *)
LEMMA AheadIsBefore ==
  ASSUME NEW e \in Events, NEW f \in Events
  PROVE  Precedes(e, f) <=> Before(Stamp[e], Stamp[f])
<1>1. Stamp[e] \in Stamps /\ Stamp[f] \in Stamps
  BY PipelineAssumption
<1> QED BY <1>1 DEF Precedes, Before, Stamps

(* With -sort the entries are written at the end, each time one that no    *)
(* other is ahead of.                                                      *)
LEMMA FlushIsWrite ==
  ASSUME PoolInv, FlowInv, LedgerInv, Flush
  PROVE  \E e \in Events : Contract!Write(e)
<1>1. PICK k \in Unprinted : NextSorted(k) /\ out' = Append(out, results[k])
  BY DEF Flush
<1> DEFINE e == results[k]
<1>2. /\ mpc = "flush" /\ opt.sorted /\ ~procErr /\ failures = {} /\ selected = {}
      /\ \A s \in Sources : status[s] = "done"
      /\ handled = Sent /\ picked = Range(results) \cup Range(out)
      /\ UNCHANGED <<opt, mpc, status, sent, handled, picked, procErr, failures>>
  BY DEF Flush, FlowInv, Remembered, OnItsWay, Complete, workerVars, history
<1>3. e \in Range(results) \ Range(out) /\ e \in Events
  BY DEF Unprinted, Range, PoolInv, TypeOK
<1>4. ASSUME NEW f \in picked \ Range(out) PROVE ~Precedes(f, e)
  <2>1. PICK j \in Unprinted : f = results[j]
    BY <1>2, <1>4 DEF Unprinted, Range
  <2>2. f \in Events /\ Stamp[e] \in Stamps /\ Stamp[f] \in Stamps
    BY <1>3, <2>1, PipelineAssumption DEF Unprinted, Range, PoolInv, TypeOK
  <2>3. ~Before(Stamp[f], Stamp[e])
    <3>1. CASE j = k
      BY <2>1, <2>2, <3>1, BeforeAsymmetric
    <3>2. CASE j # k
      <4>1. Before(Stamp[e], Stamp[f]) \/ Tied(Stamp[e], Stamp[f])
        BY <1>1, <2>1, <3>2 DEF NextSorted
      <4> QED BY <2>2, <4>1, BeforeAsymmetric DEF Tied
    <3> QED BY <3>1, <3>2
  <2> QED BY <1>3, <2>2, <2>3, AheadIsBefore
<1> HIDE DEF e
<1>5. Sent' = Sent /\ \A s : Contract!Range(s) = Range(s)
  BY <1>2 DEF Sent, Contract!Range, Range
<1>6. out' = Append(out, e) /\ e \in picked
  BY <1>1, <1>2, <1>3 DEF e
<1> QED BY <1>2, <1>3, <1>4, <1>5, <1>6 DEF Contract!Write, Contract!Running

(* The ends of run(): a failure, or everything was written.                *)
LEMMA EndIsVerdict ==
  ASSUME FlowInv', mpc # "returned", mpc' = "returned", 
         procErr' = procErr, failures \subseteq failures',
         procErr => failures' # {},
         UNCHANGED <<opt, status, sent, handled, picked, out>>
  PROVE  Contract!Succeed \/ Contract!Fail
<1>1. Sent' = Sent /\ \A s : Contract!Range(s) = Range(s)
  BY DEF Sent, Contract!Range, Range
<1>2. CASE failures' # {}
  BY <1>1, <1>2 DEF Contract!Fail
<1>3. CASE failures' = {}
  <2>1. /\ failures = {} /\ ~procErr /\ handled = Sent /\ Range(out) = picked
        /\ \A s \in Sources : status[s] = "done"
    BY <1>1, <1>3 DEF FlowInv, Complete, Range
  <2> QED BY <1>1, <1>3, <2>1 DEF Contract!Succeed
<1> QED BY <1>2, <1>3

(* A worker's steps: an entry or the end of a source, or nothing visible.  *)
LEMMA WorkerImplements ==
  ASSUME PoolInv, FlowInv, LedgerInv, NEW w \in Workers, Worker(w)
  PROVE  [Contract!Next]_Contract!vars
<1> USE DEF mainVars, history
<1>1. CASE Emit(w)
  <2>1. Current(w) \in Events
    BY <1>1, CurrentFact DEF Emit
  <2> QED BY <1>1, <2>1, EmitIsRead DEF Contract!Next, Contract!Records, Events
<1>2. CASE ReadDone(w)
  <2>1. job[w] \in Sources /\ status' = [status EXCEPT ![job[w]] = "done"]
    BY <1>2, HeldFact DEF ReadDone, Busy
  <2>2. Ended' = Ended \cup {job[w]}
    BY <2>1 DEF Ended, PoolInv, TypeOK
  <2>3. /\ mpc # "returned"
        /\ UNCHANGED <<opt, mpc, sent, handled, picked, out, procErr, failures>>
    BY <1>2, LivingWorker DEF ReadDone
  <2>4. Sent' = Sent
    BY <2>3 DEF Sent
  <2>5. \E s \in Sources : Contract!EndSource(s)
    BY <2>1, <2>2, <2>3, <2>4 DEF Contract!EndSource, Contract!Running, Ended
  <2> QED BY <2>5 DEF Contract!Next
<1>3. CASE Fetch(w) \/ ReadFails(w) \/ EmitAbort(w) \/ DropError(w) \/ KeepError(w)
           \/ Report(w) \/ WorkerExit(w)
  <2>1. UNCHANGED <<opt, mpc, sent, handled, picked, out, procErr, failures>>
    BY <1>3 DEF Fetch, ReadFails, EmitAbort, DropError, KeepError, Report, WorkerExit
  <2>2. Ended' = Ended
    <3>1. CASE status' = status
      BY <3>1 DEF Ended
    <3>2. ASSUME NEW st \in {"aborted", "failed"}, wpc[w] \in Busy,
                 status' = [status EXCEPT ![job[w]] = st]
          PROVE  Ended' = Ended
      <4>1. job[w] \in Sources /\ status[job[w]] = "reading"
        BY <3>2, HeldFact
      <4> QED BY <3>2, <4>1 DEF Ended, PoolInv, TypeOK
    <3> QED
      BY <1>3, <3>1, <3>2 DEF Fetch, ReadFails, EmitAbort, DropError, KeepError, Report,
                              WorkerExit, Busy
  <2> QED BY <2>1, <2>2, Unseen DEF Broken, Judgement
<1> QED BY <1>1, <1>2, <1>3 DEF Worker, Reader

(* The steps of main. *)
LEMMA MainImplements ==
  ASSUME PoolInv, FlowInv, FlowInv', LedgerInv, LedgerInv', Main
  PROVE  [Contract!Next]_Contract!vars
<1> USE DEF mainVars, workerVars, history
<1>1. CASE Launch \/ Setup \/ Drain \/ Discard \/ DeliverEnd \/ ConsumeEnd
           \/ \E e \in Events : DeliverSorted(e)
  <2>1. UNCHANGED <<opt, status, sent, handled, picked, out, procErr>>
        /\ mpc # "returned" /\ mpc' # "returned"
    BY <1>1 DEF Launch, Setup, Drain, Discard, DeliverEnd, ConsumeEnd, DeliverSorted
  <2>2. Broken' = Broken
    BY <1>1, <2>1 DEF Launch, Setup, Drain, Discard, DeliverEnd, ConsumeEnd, DeliverSorted,
                      Broken, LedgerInv, Unbroken
  <2> QED BY <2>1, <2>2, Unseen DEF Ended, Judgement
<1>2. CASE Reject \/ DrainEnd \/ FlushFails \/ FlushEnd
  <2>1. /\ UNCHANGED <<opt, status, sent, handled, picked, out, procErr>>
        /\ mpc # "returned" /\ mpc' = "returned"
    BY <1>2 DEF Reject, DrainEnd, FlushFails, FlushEnd
  <2>2. failures \subseteq failures' /\ (procErr => failures' # {})
    BY <1>2 DEF Reject, DrainEnd, FlushFails, FlushEnd, LedgerInv, Unbroken, FlowInv, Remembered
  <2> QED BY <2>1, <2>2, EndIsVerdict DEF Contract!Next
<1>3. CASE OutOfRange \/ Select
  <2>1. Receive /\ mpc' # "returned" /\ procErr' = procErr /\ picked \subseteq picked'
    BY <1>3 DEF OutOfRange, Select, Receive
  <2>2. picked' \subseteq handled'
    BY DEF LedgerInv, OnceOnly
  <2>3. Head(entries) \in Events
    BY <2>1, ReceiveFact DEF Receive, PoolInv, TypeOK
  <2> QED BY <2>1, <2>2, <2>3, ReceiveIsTake DEF Contract!Next, Contract!Records, Events
<1>4. CASE MatchFails
  BY <1>4, MatchFailsIsBreak DEF Contract!Next
<1>5. ASSUME NEW e \in Events, DeliverPrinted(e) PROVE Contract!Next
  BY <1>5, PrintIsWrite DEF Contract!Next, Contract!Records, Events
<1>6. CASE DeliverFails
  <2>1. /\ UNCHANGED <<opt, status, sent, handled, picked, out, failures>>
        /\ mpc # "returned" /\ mpc' # "returned" /\ procErr'
    BY <1>6 DEF DeliverFails
  <2>2. Sent' = Sent
    BY <2>1 DEF Sent
  <2> QED BY <2>1, <2>2 DEF Contract!Next, Contract!Break, Contract!Running
<1>7. ASSUME NEW s \in Sources, Collect(s) PROVE Contract!Next
  <2>1. /\ UNCHANGED <<opt, status, sent, handled, picked, out, procErr>>
        /\ mpc # "returned" /\ mpc' # "returned" /\ failures' # {}
    BY <1>7 DEF Collect
  <2>2. Sent' = Sent
    BY <2>1 DEF Sent
  <2> QED BY <2>1, <2>2 DEF Contract!Next, Contract!Break, Contract!Running
<1>8. CASE Verdict
  <2>1. /\ UNCHANGED <<opt, status, sent, handled, picked, out, procErr>>
        /\ mpc = "collect" /\ mpc' \in {"flush", "returned"} /\ failures \subseteq failures'
    BY <1>8 DEF Verdict
  <2>2. procErr => failures # {}
    BY <2>1 DEF FlowInv, Remembered
  <2>3. CASE mpc' = "returned"
    <3>1. Contract!Succeed \/ Contract!Fail
      BY <2>1, <2>2, <2>3, EndIsVerdict
    <3> QED BY <3>1 DEF Contract!Next
  <2>4. CASE mpc' = "flush"
    <3>1. failures' = {} /\ failures = {} /\ ~procErr
      BY <2>1, <2>2, <2>4 DEF FlowInv, Remembered
    <3> QED BY <2>1, <2>4, <3>1, Unseen DEF Ended, Broken, Judgement
  <2> QED BY <2>1, <2>3, <2>4
<1>9. CASE Flush
  BY <1>9, FlushIsWrite DEF Contract!Next, Contract!Records, Events
<1> QED
  BY <1>1, <1>2, <1>3, <1>4, <1>5, <1>6, <1>7, <1>8, <1>9 DEF Main

LEMMA ContractStep ==
  PoolInv /\ FlowInv /\ FlowInv' /\ LedgerInv /\ LedgerInv' /\ [Next]_vars
    => [Contract!Next]_Contract!vars
<1> SUFFICES ASSUME PoolInv, FlowInv, FlowInv', LedgerInv, LedgerInv', [Next]_vars
             PROVE  [Contract!Next]_Contract!vars
  OBVIOUS
<1>1. CASE Signal \/ Feeder \/ Closer \/ Terminated \/ UNCHANGED vars
  <2> USE DEF mainVars, workerVars, history
  <2>1. UNCHANGED <<opt, mpc, sent, handled, picked, out, procErr, failures>>
    BY <1>1 DEF Signal, Feeder, Feed, FeederEnd, Closer, CloseEntries, CloseErrs,
                Terminated, vars
  <2>2. Ended' = Ended
    <3>1. CASE \E w \in Workers : Feed(w)
      <4>1. feed \in Sources /\ status[feed] = "queued"
            /\ status' = [status EXCEPT ![feed] = "reading"]
        BY <3>1, PipelineAssumption DEF Feed, PoolInv, TypeOK, Assignment, Sources, Statuses
      <4> QED BY <4>1 DEF Ended, PoolInv, TypeOK
    <3>2. CASE status' = status
      BY <3>2 DEF Ended
    <3> QED
      BY <1>1, <3>1, <3>2 DEF Signal, Feeder, FeederEnd, Closer, CloseEntries, CloseErrs,
                              Terminated, vars
  <2> QED BY <2>1, <2>2, Unseen DEF Broken, Judgement
<1> QED BY <1>1, WorkerImplements, MainImplements DEF Next

(* main.go 188-319: for every number of sources, every capacity, every     *)
(* flag, query and correlator, a search keeps the promise of               *)
(* SearchContract, whatever the interleaving of its goroutines.            *)
THEOREM PipelineImplementsContract == Spec => KeepsContract
<1>1. Init => Contract!Init
  BY ContractInit
<1>2. PoolInv /\ FlowInv /\ FlowInv' /\ LedgerInv /\ LedgerInv' /\ [Next]_vars
        => [Contract!Next]_Contract!vars
  BY ContractStep
<1> QED
  BY <1>1, <1>2, PoolCorrect, FlowCorrect, LedgerCorrect, PTL
  DEF Spec, KeepsContract, Contract!Spec
================================================================================
