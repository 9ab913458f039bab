------------------------------- MODULE Pipeline -------------------------------
(***************************************************************************)
(* One search: the body of run() in main.go.  A feeder hands the sources   *)
(* to a pool of workers over the unbuffered channel jobs; the workers read *)
(* them and emit entries into the bounded channel entries and failures     *)
(* into errs; a closer closes both when the workers are gone; the main     *)
(* goroutine filters, correlates, prints or collates.  A cancellation (a   *)
(* signal, or main giving up) can fall between any two steps.              *)
(*                                                                         *)
(* Entries are abstracted to <<source, position>>.  Whether an entry is in *)
(* range, matches, or links to another one is left open: every outcome is  *)
(* allowed, so what holds here holds for every query and every correlator. *)
(***************************************************************************)
EXTENDS Integers, Sequences, FiniteSets, Functions, Collate

CONSTANTS
  N,            \* number of sources, in the order of the list
  MaxEvents,    \* bound: entries one source holds
  EntryCap,     \* capacity of the channel entries (256 in the code)
  MaxResults,   \* -max-results
  Stamp,        \* what the collation order reads of each entry
  Options       \* the combinations of flags explored

Sources == 1..N
Workers == 1..N          \* never more of them than sources
Events  == Sources \X (1..MaxEvents)

OptionSpace ==
  [follow : BOOLEAN, sorted : BOOLEAN, correlate : BOOLEAN, badField : BOOLEAN,
   concurrency : Int,
   malformed : BOOLEAN]    \* any other argument, the script or a source is refused

ASSUME PipelineAssumption ==
  /\ N \in Nat \ {0} /\ MaxEvents \in Nat
  /\ EntryCap \in Nat \ {0} /\ MaxResults \in Nat \ {0}
  /\ Stamp \in [Events -> Stamps]
  /\ Options \subseteq OptionSpace

VARIABLES
  opt,        \* the flags of this search
  mpc,        \* where the main goroutine is
  cancelled,  \* ctx.Err() # nil
  feed,       \* index in the list of the next source the feeder offers
  jobsClosed, \* jobs is closed
  wpc,        \* where each worker is
  job,        \* the source a worker has in hand (0: none)
  status,     \* how far each source is
  sent,       \* entries of each source sent into the channel
  entries,    \* the channel
  closer,     \* where the closing goroutine is
  errs,       \* the sources whose error is in the channel errs
  context,    \* entries the correlator holds and has not returned
  selected,   \* entries still to deliver for the entry being processed
  results,    \* entries buffered by -sort
  out,        \* entries written
  procErr,    \* processingErr # nil
  failures,   \* the errors run() joins
  handled,    \* history: entries main has filtered
  picked      \* history: entries ever selected for output

mainVars   == <<mpc, context, selected, results, out, procErr, failures>>
workerVars == <<wpc, job, status, sent>>
history    == <<handled, picked>>
vars == <<opt, cancelled, feed, jobsClosed, closer, entries, errs,
          mainVars, workerVars, history>>

MainStates   == {"start", "setup", "drain", "consume", "deliver", "collect",
                 "flush", "returned"}
WorkerStates == {"absent", "idle", "read", "emit", "failed", "report", "exited"}
Statuses     == {"queued", "reading", "done", "failed", "aborted"}
Failures     == ({"source"} \X Sources)
                \cup ({"usage", "processing", "cancelled", "output"} \X {0})

(* Here and below a definition named Mutant... is a plausible bug in the    *)
(* definition that follows it: no specification uses it; replacing the      *)
(* definition by it must violate a property.                                *)
MutantErrCap == 1
ErrCap       == N                               \* capacity of errs

launched      == closer # "off"
entriesClosed == closer \in {"errs", "done"}
errsClosed    == closer = "done"
Pool          == {w \in Workers : w <= opt.concurrency}

MutantAllExited == \E w \in Workers : wpc[w] \in {"absent", "exited"}
AllExited       == \A w \in Workers : wpc[w] \in {"absent", "exited"}

Current(w) == <<job[w], sent[job[w]] + 1>>   \* the entry a worker emits

(* The searches run() accepts; asking for -help is not one. *)
MutantValid(o) == o.concurrency > 0 /\ ~(o.follow /\ o.sorted)
Valid(o) ==
  /\ ~o.malformed
  /\ o.concurrency > 0
  /\ ~(o.follow /\ o.sorted)
  /\ o.follow => N <= o.concurrency

Init ==
  /\ opt \in Options
  /\ mpc = "start" /\ cancelled = FALSE
  /\ feed = 1 /\ jobsClosed = FALSE
  /\ wpc = [w \in Workers |-> "absent"] /\ job = [w \in Workers |-> 0]
  /\ status = [s \in Sources |-> "queued"] /\ sent = [s \in Sources |-> 0]
  /\ entries = << >> /\ closer = "off" /\ errs = {}
  /\ context = {} /\ selected = {} /\ results = << >> /\ out = << >>
  /\ procErr = FALSE /\ failures = {}
  /\ handled = {} /\ picked = {}
--------------------------------------------------------------------------------
(* run() validates the flags; the deferred cancel comes after validation,  *)
(* so a usage error leaves nothing behind.                                 *)
Reject ==
  /\ mpc = "start" /\ ~Valid(opt)
  /\ mpc' = "returned" /\ failures' = {<<"usage", 0>>}
  /\ UNCHANGED <<opt, cancelled, feed, jobsClosed, closer, entries, errs, context,
                 selected, results, out, procErr, workerVars, history>>

(* The pool, the feeder and the closer are launched. *)
Launch ==
  /\ mpc = "start" /\ Valid(opt)
  /\ mpc' = "setup" /\ closer' = "wait"
  /\ wpc' = [w \in Workers |-> IF w \in Pool THEN "idle" ELSE "absent"]
  /\ UNCHANGED <<opt, cancelled, feed, jobsClosed, entries, errs, job, status, sent,
                 context, selected, results, out, procErr, failures, history>>

(* SIGINT or SIGTERM cancels the context, at any time. *)
Signal ==
  /\ ~cancelled /\ mpc # "returned"
  /\ cancelled' = TRUE
  /\ UNCHANGED <<opt, feed, jobsClosed, closer, entries, errs, mainVars, workerVars,
                 history>>
--------------------------------------------------------------------------------
(* The feeder and an idle worker meet on jobs.  The select may take this   *)
(* branch after a cancellation too.                                        *)
Feed(w) ==
  /\ wpc[w] = "idle" /\ ~jobsClosed /\ feed <= N
  /\ wpc' = [wpc EXCEPT ![w] = "read"]
  /\ job' = [job EXCEPT ![w] = feed]
  /\ status' = [status EXCEPT ![feed] = "reading"]
  /\ feed' = feed + 1
  /\ UNCHANGED <<opt, cancelled, jobsClosed, closer, entries, errs, sent, mainVars,
                 history>>

(* The list is exhausted or the context cancelled: jobs is closed. *)
FeederEnd ==
  /\ launched /\ ~jobsClosed
  /\ feed > N \/ cancelled
  /\ jobsClosed' = TRUE
  /\ UNCHANGED <<opt, cancelled, feed, closer, entries, errs, mainVars, workerVars,
                 history>>

WorkerExit(w) ==
  /\ wpc[w] = "idle" /\ jobsClosed
  /\ wpc' = [wpc EXCEPT ![w] = "exited"]
  /\ UNCHANGED <<opt, cancelled, feed, jobsClosed, closer, entries, errs, job, status,
                 sent, mainVars, history>>

(* sources.Read finds one more entry and calls emit. *)
Fetch(w) ==
  /\ wpc[w] = "read" /\ sent[job[w]] < MaxEvents
  /\ wpc' = [wpc EXCEPT ![w] = "emit"]
  /\ UNCHANGED <<opt, cancelled, feed, jobsClosed, closer, entries, errs, job, status,
                 sent, mainVars, history>>

(* The two branches of emit's select: either may be taken when both can.   *)
Emit(w) ==
  /\ wpc[w] = "emit" /\ Len(entries) < EntryCap
  /\ entries' = Append(entries, Current(w))
  /\ sent' = [sent EXCEPT ![job[w]] = @ + 1]
  /\ wpc' = [wpc EXCEPT ![w] = "read"]
  /\ UNCHANGED <<opt, cancelled, feed, jobsClosed, closer, errs, job, status, mainVars,
                 history>>

EmitAbort(w) ==
  /\ wpc[w] = "emit" /\ cancelled
  /\ wpc' = [wpc EXCEPT ![w] = "failed"]
  /\ UNCHANGED <<opt, cancelled, feed, jobsClosed, closer, entries, errs, job, status,
                 sent, mainVars, history>>

(* The source is exhausted: Read returns nil, cancelled or not. *)
ReadDone(w) ==
  /\ wpc[w] = "read"
  /\ wpc' = [wpc EXCEPT ![w] = "idle"]
  /\ status' = [status EXCEPT ![job[w]] = "done"]
  /\ job' = [job EXCEPT ![w] = 0]
  /\ UNCHANGED <<opt, cancelled, feed, jobsClosed, closer, entries, errs, sent, mainVars,
                 history>>

(* Read returns an error: of the source at any time, or of the context.    *)
ReadFails(w) ==
  /\ wpc[w] = "read"
  /\ wpc' = [wpc EXCEPT ![w] = "failed"]
  /\ UNCHANGED <<opt, cancelled, feed, jobsClosed, closer, entries, errs, job, status,
                 sent, mainVars, history>>

(* "e != nil && ctx.Err() == nil": an error seen after a cancellation is   *)
(* dropped.  Between this test and the send the context may be cancelled.  *)
DropError(w) ==
  /\ wpc[w] = "failed" /\ cancelled
  /\ wpc' = [wpc EXCEPT ![w] = "idle"]
  /\ status' = [status EXCEPT ![job[w]] = "aborted"]
  /\ job' = [job EXCEPT ![w] = 0]
  /\ UNCHANGED <<opt, cancelled, feed, jobsClosed, closer, entries, errs, sent, mainVars,
                 history>>

KeepError(w) ==
  /\ wpc[w] = "failed" /\ ~cancelled
  /\ wpc' = [wpc EXCEPT ![w] = "report"]
  /\ UNCHANGED <<opt, cancelled, feed, jobsClosed, closer, entries, errs, job, status,
                 sent, mainVars, history>>

Report(w) ==
  /\ wpc[w] = "report" /\ Cardinality(errs) < ErrCap
  /\ errs' = errs \cup {job[w]}
  /\ status' = [status EXCEPT ![job[w]] = "failed"]
  /\ wpc' = [wpc EXCEPT ![w] = "idle"]
  /\ job' = [job EXCEPT ![w] = 0]
  /\ UNCHANGED <<opt, cancelled, feed, jobsClosed, closer, entries, sent, mainVars,
                 history>>

(* wg.Wait returns once the pool is gone; then entries, then errs. *)
CloseEntries ==
  /\ closer = "wait" /\ AllExited
  /\ closer' = "errs"
  /\ UNCHANGED <<opt, cancelled, feed, jobsClosed, entries, errs, mainVars, workerVars,
                 history>>

CloseErrs ==
  /\ closer = "errs"
  /\ closer' = "done"
  /\ UNCHANGED <<opt, cancelled, feed, jobsClosed, entries, errs, mainVars, workerVars,
                 history>>
--------------------------------------------------------------------------------
(* -correlate-by is split after the goroutines are launched: an empty      *)
(* field cancels them and drains entries before run() returns.             *)
MutantSetupUncancelled ==
  /\ mpc = "setup"
  /\ mpc' = IF opt.badField THEN "drain" ELSE "consume"
  /\ UNCHANGED <<opt, cancelled, feed, jobsClosed, closer, entries, errs, context,
                 selected, results, out, procErr, failures, workerVars, history>>

MutantSetupUndrained ==
  /\ mpc = "setup"
  /\ mpc' = IF opt.badField THEN "returned" ELSE "consume"
  /\ cancelled' = (cancelled \/ opt.badField)
  /\ UNCHANGED <<opt, feed, jobsClosed, closer, entries, errs, context, selected, results,
                 out, procErr, failures, workerVars, history>>

Setup ==
  /\ mpc = "setup"
  /\ mpc' = IF opt.badField THEN "drain" ELSE "consume"
  /\ cancelled' = (cancelled \/ opt.badField)
  /\ UNCHANGED <<opt, feed, jobsClosed, closer, entries, errs, context, selected, results,
                 out, procErr, failures, workerVars, history>>

Drain ==
  /\ mpc = "drain" /\ entries # << >>
  /\ entries' = Tail(entries)
  /\ UNCHANGED <<opt, cancelled, feed, jobsClosed, closer, errs, mainVars, workerVars,
                 history>>

DrainEnd ==
  /\ mpc = "drain" /\ entries = << >> /\ entriesClosed
  /\ mpc' = "returned" /\ failures' = {<<"usage", 0>>}
  /\ UNCHANGED <<opt, cancelled, feed, jobsClosed, closer, entries, errs, context,
                 selected, results, out, procErr, workerVars, history>>

(* After a failure entries are received and discarded, so that the workers *)
(* can end.                                                                *)
Discard ==
  /\ mpc = "consume" /\ entries # << >> /\ procErr
  /\ entries' = Tail(entries)
  /\ UNCHANGED <<opt, cancelled, feed, jobsClosed, closer, errs, mainVars, workerVars,
                 history>>

Receive ==
  /\ mpc = "consume" /\ entries # << >> /\ ~procErr
  /\ entries' = Tail(entries)
  /\ handled' = handled \cup {Head(entries)}
  /\ UNCHANGED <<opt, cancelled, feed, jobsClosed, closer, errs, results, out, failures,
                 workerVars>>

(* Outside -since and -until: the correlator never sees it. *)
OutOfRange ==
  /\ Receive
  /\ UNCHANGED <<mpc, cancelled, context, selected, procErr, picked>>

(* The regular expression or the script fails on the entry. *)
MatchFails ==
  /\ mpc = "consume" /\ entries # << >> /\ ~procErr
  /\ entries' = Tail(entries)
  /\ handled' = handled \cup {Head(entries)}
  /\ procErr' = TRUE /\ cancelled' = TRUE
  /\ UNCHANGED <<opt, feed, jobsClosed, closer, errs, mpc, context, selected, results,
                 out, failures, workerVars, picked>>

(* What the correlator can still return once it has returned S. *)
Unreturned(held, S) == held \ S

(* Without correlation a matching entry is selected.  With it, Add retains *)
(* the entry and returns any part of what it holds and did not return yet. *)
Select ==
  /\ Receive
  /\ LET e == Head(entries)
         held == IF opt.correlate THEN context \cup {e} ELSE {e}
     IN \E S \in SUBSET held :
          /\ selected' = S
          /\ picked' = picked \cup S
          /\ context' = IF opt.correlate THEN Unreturned(held, S) ELSE {}
  /\ mpc' = "deliver"
  /\ UNCHANGED <<cancelled, procErr>>

(* The loop over selected: buffer, print, or give up on the rest. *)
DeliverSorted(e) ==
  /\ mpc = "deliver" /\ e \in selected /\ opt.sorted
  /\ Len(results) < MaxResults
  /\ results' = Append(results, e)
  /\ selected' = selected \ {e}
  /\ UNCHANGED <<opt, cancelled, feed, jobsClosed, closer, entries, errs, mpc, context,
                 out, procErr, failures, workerVars, history>>

DeliverPrinted(e) ==
  /\ mpc = "deliver" /\ e \in selected /\ ~opt.sorted
  /\ out' = Append(out, e)
  /\ selected' = selected \ {e}
  /\ UNCHANGED <<opt, cancelled, feed, jobsClosed, closer, entries, errs, mpc, context,
                 results, procErr, failures, workerVars, history>>

(* -max-results is exceeded, or the writer fails. *)
DeliverFails ==
  /\ mpc = "deliver" /\ selected # {}
  /\ opt.sorted => Len(results) >= MaxResults
  /\ procErr' = TRUE /\ cancelled' = TRUE
  /\ selected' = {} /\ mpc' = "consume"
  /\ UNCHANGED <<opt, feed, jobsClosed, closer, entries, errs, context, results, out,
                 failures, workerVars, history>>

DeliverEnd ==
  /\ mpc = "deliver" /\ selected = {}
  /\ mpc' = "consume"
  /\ UNCHANGED <<opt, cancelled, feed, jobsClosed, closer, entries, errs, context,
                 selected, results, out, procErr, failures, workerVars, history>>

ConsumeEnd ==
  /\ mpc = "consume" /\ entries = << >> /\ entriesClosed
  /\ mpc' = "collect"
  /\ failures' = IF procErr THEN {<<"processing", 0>>} ELSE {}
  /\ UNCHANGED <<opt, cancelled, feed, jobsClosed, closer, entries, errs, context,
                 selected, results, out, procErr, workerVars, history>>

MutantCollect(s) ==
  /\ mpc = "collect" /\ s \in errs
  /\ errs' = errs \ {s}
  /\ failures' = {<<"source", s>>}
  /\ UNCHANGED <<opt, cancelled, feed, jobsClosed, closer, entries, mpc, context,
                 selected, results, out, procErr, workerVars, history>>

Collect(s) ==
  /\ mpc = "collect" /\ s \in errs
  /\ errs' = errs \ {s}
  /\ failures' = failures \cup {<<"source", s>>}
  /\ UNCHANGED <<opt, cancelled, feed, jobsClosed, closer, entries, mpc, context,
                 selected, results, out, procErr, workerVars, history>>

MutantInterrupted == FALSE
Interrupted       == cancelled /\ ~procErr

(* errs is drained and closed: the context is tested once, and the search  *)
(* fails if anything failed.  Returning cancels the context.               *)
Verdict ==
  /\ mpc = "collect" /\ errs = {} /\ errsClosed
  /\ failures' = failures \cup (IF Interrupted THEN {<<"cancelled", 0>>} ELSE {})
  /\ mpc' = IF failures' = {} /\ opt.sorted THEN "flush" ELSE "returned"
  /\ cancelled' = (cancelled \/ mpc' = "returned")
  /\ UNCHANGED <<opt, feed, jobsClosed, closer, entries, errs, context, selected, results,
                 out, procErr, workerVars, history>>

(* search.Sort is stable: of the entries not yet printed, the next one is  *)
(* ahead of every other or, tied, arrived first.                           *)
Unprinted == {k \in DOMAIN results : results[k] \notin Range(out)}

NextSorted(k) ==
  /\ k \in Unprinted
  /\ \A j \in Unprinted \ {k} :
       LET a == Stamp[results[k]]
           b == Stamp[results[j]]
       IN Before(a, b) \/ (Tied(a, b) /\ k < j)

Flush ==
  /\ mpc = "flush"
  /\ \E k \in Unprinted : NextSorted(k) /\ out' = Append(out, results[k])
  /\ UNCHANGED <<opt, cancelled, feed, jobsClosed, closer, entries, errs, mpc, context,
                 selected, results, procErr, failures, workerVars, history>>

FlushFails ==
  /\ mpc = "flush" /\ Unprinted # {}
  /\ mpc' = "returned" /\ failures' = {<<"output", 0>>} /\ cancelled' = TRUE
  /\ UNCHANGED <<opt, feed, jobsClosed, closer, entries, errs, context, selected, results,
                 out, procErr, workerVars, history>>

FlushEnd ==
  /\ mpc = "flush" /\ Unprinted = {}
  /\ mpc' = "returned" /\ cancelled' = TRUE
  /\ UNCHANGED <<opt, feed, jobsClosed, closer, entries, errs, context, selected, results,
                 out, procErr, failures, workerVars, history>>

(* run() has returned and every goroutine it launched has ended. *)
Quiescent ==
  /\ mpc = "returned"
  /\ launched => jobsClosed /\ AllExited /\ errsClosed

Terminated == Quiescent /\ UNCHANGED vars
--------------------------------------------------------------------------------
Feeder == FeederEnd \/ \E w \in Workers : Feed(w)
Reader(w) == Fetch(w) \/ ReadDone(w) \/ ReadFails(w)
Worker(w) ==
  \/ Reader(w)
  \/ Emit(w) \/ EmitAbort(w)
  \/ DropError(w) \/ KeepError(w) \/ Report(w)
  \/ WorkerExit(w)
Closer == CloseEntries \/ CloseErrs
Main ==
  \/ Reject \/ Launch \/ Setup
  \/ Drain \/ DrainEnd
  \/ Discard \/ OutOfRange \/ MatchFails \/ Select
  \/ \E e \in Events : DeliverSorted(e) \/ DeliverPrinted(e)
  \/ DeliverFails \/ DeliverEnd
  \/ ConsumeEnd \/ (\E s \in Sources : Collect(s)) \/ Verdict
  \/ Flush \/ FlushFails \/ FlushEnd

Next ==
  \/ Signal \/ Feeder \/ Closer \/ Main \/ Terminated
  \/ \E w \in Workers : Worker(w)

Spec == Init /\ [][Next]_vars

(* Goroutines are scheduled fairly and the writer answers.  A finite       *)
(* source ends, a followed one need not; either notices a cancellation.    *)
(* Nothing makes a signal, or any failure, happen.                         *)
Fairness ==
  /\ WF_vars(Feeder) /\ WF_vars(Closer) /\ WF_vars(Main)
  /\ \A w \in Workers :
       /\ WF_vars(Worker(w) /\ ~Reader(w))
       /\ WF_vars(Reader(w) /\ (~opt.follow \/ cancelled))

FairSpec == Spec /\ Fairness
--------------------------------------------------------------------------------
TypeOK ==
  /\ opt \in OptionSpace
  /\ mpc \in MainStates /\ cancelled \in BOOLEAN
  /\ feed \in 1..(N + 1) /\ jobsClosed \in BOOLEAN
  /\ wpc \in [Workers -> WorkerStates] /\ job \in [Workers -> 0..N]
  /\ status \in [Sources -> Statuses] /\ sent \in [Sources -> 0..MaxEvents]
  /\ entries \in Seq(Events) /\ Len(entries) <= EntryCap
  /\ closer \in {"off", "wait", "errs", "done"}
  /\ errs \subseteq Sources
  /\ context \subseteq Events /\ selected \subseteq Events
  /\ results \in Seq(Events) /\ out \in Seq(Events)
  /\ procErr \in BOOLEAN /\ failures \subseteq Failures
  /\ handled \subseteq Events /\ picked \subseteq Events

Sent == {e \in Events : e[2] <= sent[e[1]]}

(* main.go 298-319: a search that reports success has read every source to *)
(* its end, has filtered every entry any worker emitted and has written    *)
(* every entry that was selected: nothing is lost silently, whatever the   *)
(* interleaving of workers, channels, errors and cancellation.             *)
SuccessIsComplete ==
  mpc = "returned" /\ failures = {} =>
    /\ \A s \in Sources : status[s] = "done"
    /\ handled = Sent
    /\ Range(out) = picked

(* main.go 193, 212-214, 302: a worker never blocks on errs.  Main reads   *)
(* errs only after entries is closed, which waits for the workers: a full  *)
(* channel would be a deadlock.                                            *)
ReportNeverBlocks ==
  \A w \in Workers : wpc[w] = "report" =>
    /\ Cardinality(errs) < ErrCap
    /\ job[w] \notin errs

(* main.go 199-228: nothing is sent on a closed channel (Go would panic):  *)
(* a worker that can still emit or report keeps both channels open.        *)
NoSendAfterClose ==
  \A w \in Workers : wpc[w] \notin {"absent", "exited"} => ~entriesClosed /\ ~errsClosed

(* main.go 190, 218-228, 298-310: when run() returns, on whatever path,    *)
(* the feeder and the workers it launched have ended and the closer is     *)
(* past its wait: nothing is left that could still block.  (On the usage   *)
(* error of -correlate-by the closer may still have close(errs) to do.)    *)
NoGoroutineLeft ==
  mpc = "returned" /\ launched => jobsClosed /\ AllExited /\ entriesClosed

(* main.go 298-304: the error of a source that was sent into errs is part  *)
(* of what run() returns, unless a usage error replaced it.                *)
SourceFailureReported ==
  mpc \in {"flush", "returned"} /\ <<"usage", 0>> \notin failures =>
    \A s \in Sources : status[s] = "failed" => <<"source", s>> \in failures

(* The order a sorted search is read in: known times before unknown ones,  *)
(* earlier before later, then by source name, then by line.                *)
Precedes(e, f) ==
  LET a == Stamp[e]
      b == Stamp[f]
  IN \/ a.time # 0 /\ (b.time = 0 \/ a.time < b.time)
     \/ a.time = b.time /\ a.source < b.source
     \/ a.time = b.time /\ a.source = b.source /\ a.line < b.line

Contract ==
  INSTANCE SearchContract WITH
    Origins   <- Sources,
    Positions <- 1..MaxEvents,
    Ahead     <- Precedes,
    mode      <- (IF opt.sorted THEN "sorted" ELSE IF opt.correlate THEN "linked" ELSE "plain"),
    ended     <- {s \in Sources : status[s] = "done"},
    read      <- Sent,
    taken     <- handled,
    chosen    <- picked,
    written   <- out,
    broken    <- (procErr \/ failures # {}),
    verdict   <- (IF mpc # "returned" THEN "none"
                  ELSE IF failures = {} THEN "success" ELSE "failure")

(* main.go 188-319, search.go 161-178, README.md 75-77: workers, channels, *)
(* errors and cancellation together keep the promise of SearchContract: no *)
(* entry is taken up or written twice, a source's entries are written in   *)
(* its order, a sorted search writes nothing before everything was read    *)
(* and then in the order of the collation, a failed one writes nothing     *)
(* more, and success is everything.                                        *)
KeepsContract == Contract!Spec

(* main.go 189-319: a finite search returns, whatever fails. *)
FiniteSearchReturns == ~opt.follow ~> Quiescent

(* main.go 208-209, 223-224, 233-237, 263-266: a cancelled search returns, *)
(* even with followed sources and full channels; so does one refused after *)
(* its goroutines were launched.                                           *)
CancelReturns == cancelled \/ mpc = "drain" ~> Quiescent

(* main.go 171-173: with -f every source is started: no followed source    *)
(* waits for a worker that another one holds for ever.                     *)
FollowStartsAll ==
  opt.follow /\ launched ~>
    cancelled \/ \A s \in Sources : status[s] # "queued"
================================================================================
