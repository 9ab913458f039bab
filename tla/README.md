# afterloggrator in TLA+

afterloggrator is a command line tool that searches logs of several sources at
once, correlates what it finds and prints or collates it. This directory models
the parts of it that keep state or run concurrently, checks them with TLC on
small instances and proves the most important facts with TLAPS for all values of
the constants.

Paths below are relative to the repository. Every definition of a module is
listed in `PROJECT.json` with the source lines it stands for.

## 1. Inventory

| Component | State it keeps | Operations | Talks to |
| --- | --- | --- | --- |
| `run` (main.go 35-320) | channels `entries`, `jobs`, `errs`; results; the first processing error | validate, launch, feed, read, emit, report, close, receive, filter, deliver, collect, verdict, flush | every other component |
| Sources, finite: `local`, HTTP, AWS, OCI | position, page token, tokens seen | open, scan, request, emit | the `emit` callback of `run`, the context |
| Follower: `local` with `-f` (read.go 76-171) | open file, offset, reader buffer, pending line | read, assemble, emit, tick, stat, reopen, rewind | the file system, `emit` |
| Command source (read.go 172-224) | child, pipe, the goroutine that kills the child | start, scan, emit, kill, wait | `emit`, the context, docker or kubectl |
| SSH source (extractors/ssh.go) | connection and its deadline, session, the goroutine that closes the connection | dial, handshake, session, scan, emit, wait | `emit`, the context, a remote server |
| Correlator (search.go 53-160) | buffer of arrivals, index by key, printed flags | `Add` | `run` |
| Collation (search.go 161-178) | none | compare, stable sort | `run` |
| Query (search.go 13-51) | none | `InRange`, `Match` | `run`, Starlark filter |
| Starlark filter (starlark.go) | cache and loading set of the loader; a mutex | `LoadScript`, `Match` | the context |
| Archive readers (extractors/zip.go, tar.go) | open member, last byte | `Read` | `scan` |
| Configuration (config.go) | none | `Load`, `Validate` | `run`, the remote sources |
| Labels and bounds of a source (read.go 20-62, 172-200, http.go 42-69, cloud.go 46-51) | none | label, ask the service | `run`, the services |
| Normalisation and event time (normalize.go) | the entry | `Normalize`, `EventTime`, `Field` | `run`, query, correlator |
| Tokens, vendor engines (parsers/) | none | pure functions on a line | `Normalize` |
| Legacy plugins, Elasticsearch helper | not reachable from `main` | | |

One search runs a feeder, a pool of workers, a closer and the main goroutine.
They share a cancellable context, an unbuffered channel of sources, a bounded
channel of entries and a channel of errors. The hard behaviours are the
interleavings of these with signals, source failures and output failures;
correlation over a sliding buffer in both directions of time; following a file
that is rotated and truncated under the reader; remote servers that lead
pagination in circles; recursive module loading; and the boundaries between
archive members; and what a line, a label, a configuration and a service each say
of the identity and the time of one event.

What makes each component correct:

- `run`: success means completeness; failures are reported; nothing blocks for
  ever; nothing is sent on a closed channel; nothing is written twice, out of
  order or after a failure.
- Correlator: exactly the matches and their direct neighbours within the buffer
  are returned, once, in arrival order; eviction leaves nothing behind.
- A whole search: it prints the matches within the bounds and what is directly linked to
  them, whatever the interleaving of its sources.
- Normalisation: the configured identity stays; no time is invented or misread, and the
  time of the service is replaced only where the order of the places says so; asking the
  service for part of the filtering loses nothing.
- Configuration: what is accepted can be searched, and every request for a further page
  carries its token.
- Collation: a strict weak ordering, unknown times last.
- Follower: lines are whole, in order, not repeated; what is completed is
  emitted; a rotation neither skips lines nor ends the search.
- Command and SSH sources: success is the whole output; nothing outlives the source;
  cancelled or abandoned it ends, whatever the peer does.
- Remote sources: all pages, none twice, an end in any case, no false alarm.
- Script loader: what is loaded is acyclic, complete and within the limit; what
  is refused is refused for a cause.
- Archives: the stream is the members, with line ends between them.

## 2. Modules

| Module | Models | Used by |
| --- | --- | --- |
| `SearchContract` | the promise of a search: no worker, channel or correlator | `Pipeline` |
| `Collate` | the comparison of `search.Sort` | `Pipeline` |
| `Pipeline` | `run()`: flags, feeder, pool, channels, closer, main loop, collation | `MCPipeline`, `PipelineProofs`, `Search` |
| `PipelineProofs` | the theorems of `Pipeline`, `Collate` and the refinement of `SearchContract` | `SearchProofs` |
| `DirectLinks` | the abstract promise of correlation: no buffer, no index | `Correlator` |
| `Correlator` | `Correlator.Add` with buffer, index, window, aliases | `MCCorrelator`, `CorrelatorProofs`, `Search` |
| `CorrelatorProofs` | the theorems of `Correlator` and the refinement of `DirectLinks` | `SearchProofs` |
| `Query` | `InRange` and `Match` of `search.Query` | `Search`, `Normalize` |
| `Search` | one search: `Pipeline` with its query and the real `Correlator` | `MCSearch`, `SearchProofs` |
| `SearchProofs` | the invariant that ties `Pipeline` to `Correlator`, what a search prints, and its refinements of `Pipeline`, `SearchContract` and `DirectLinks` | |
| `EventTime` | the instant a field states | `Normalize` |
| `Normalize` | labels, `parsers.Normalize`, the bounds sent to the services | `MCNormalize`, `NormalizeProofs` |
| `NormalizeProofs` | two invariants and four theorems of `Normalize`, two of `EventTime` | |
| `Follow` | `local` with `-f` and the writer of the file | `MCFollow`, `FollowProofs` |
| `FollowProofs` | the inductive invariant and four theorems of `Follow` | |
| `Stream` | `command` with its child, `ReadRemoteFile` with its server | its own cfg, `ReaderProofs` |
| `Archive` | `zipStreamReader.Read`, `tarStreamReader.Read` | `MCArchive`, `ReaderProofs` |
| `ReaderProofs` | the inductive invariants of `Stream` and `Archive`, four theorems of the one and two of the other | |
| `SourceConfig` | `Validate`, and what `queryHTTP` makes of an accepted source | `Paging` |
| `Paging` | `queryHTTP`, `queryAWS`, `queryOCI` of any source against any server | `MCPaging`, `PagingProofs` |
| `PagingProofs` | the inductive invariant and three theorems of `Paging` | |
| `ScriptLoader` | the recursive loader of `LoadScript` | `MCScriptLoader`, `ScriptLoaderProofs` |
| `ScriptLoaderProofs` | the inductive invariant and three theorems of `ScriptLoader` | |

A definition named `Mutant...` is a plausible bug in the definition that follows
it, a missing guard or an off-by-one. No specification uses one. Replacing the
definition by its mutant must violate the property `PROJECT.json` names under
`mutants`, which shows that the property can tell right code from wrong code.

### Pipeline

The main goroutine is `mpc`, each worker is `wpc[w]`, the closer is `closer`,
and the feeder is `feed` with `jobsClosed`. `entries` is the bounded channel;
`errs` is a set, since the order of the errors only affects the text of the
joined error. One action is one step between two points where another goroutine
can act: the handshake on `jobs` (`Feed`), each branch of emit's `select` (`Emit`,
`EmitAbort`), the test of `ctx.Err()` (`DropError`, `KeepError`) apart from the send
on `errs` (`Report`), and so on. `Signal` can fall between any two steps.

An entry is `<<source, position>>`. Whether it is in range, matches, or is linked
to others is left open: `OutOfRange`, `MatchFails` and `Select` allow every outcome,
`Select` with correlation returns any subset of what the correlator holds. The
properties therefore hold for every query and every correlator that returns an
entry at most once, which is what `Correlator` shows of the real one. A source is any finite
number of entries followed by an end or an error. All other usage errors of
`run()`, those of the configuration and the script included, are the flag
`malformed`; `-help` is not a search and is left out.

`SearchContract` says what all of this is for: entries are read in their source's order,
taken up once, chosen, written once each and in an order that depends on the mode, nothing after
a failure, and one verdict, which is success only when everything was read, taken up and written.
`KeepsContract` is its specification under a mapping in which sources that are done are the
ended ones and an error in `procErr` or `failures` is the failure; its `Ahead` is
the order of README.md 77-78 stated on its own, so that a wrong `Collate` breaks it.

### Query and Search

`Search` composes `Pipeline` and `Correlator` by `INSTANCE` and takes from `Query` what `Pipeline`
leaves open: an entry is out of range, fails or matches by its content; `SelectLinked` is
`Correlator!Add` in the same step as the receive, as in the code; `Deliver` goes through what `Add`
returned in its order. Pipeline's `context`, what a correlator may still return, becomes
`Held`: what it was given and has not printed. `ImplementsPipeline` is the specification of
`Pipeline` under that mapping, so that every safety property of `Pipeline` carries over;
`PrintsTheAnswer` compares the output with the query evaluated on the set of all entries.

### Correlator and DirectLinks

An item is the number of its arrival, so the `printed` flags are a set and the
index maps a key to a set of arrivals. `Add` is one action, as in the code, where
only the main goroutine calls it. `DirectLinks` states what correlation promises
without buffer and index: after each arrival, exactly the matches and what is
directly linked to a match at most `Reach` arrivals away have been reported, in
order, each flagged correlated when it does not match itself. `KeepsPromise` is
`DirectLinks!Spec` under the mapping `Reach <- Cap`.

### Follow

The writer (external) appends chunks to the file it created last, renames it
away, creates a new one, truncates it; `HandOver` chooses a rotation that puts the
new file in place at once. The follower is the loop of read.go 113-170:
`Fill`, `TakeLine`, `TakeFull`, `TakeRest` are `bufio.Reader.ReadSlice` with its three
ways to return; `Stat` and `Open` are separate since the path can change in
between. The writer never lets a truncated file grow back beyond the reader's
position unnoticed (`unseen`): README.md 122-123 documents that such a truncation
can evade a follower that polls. Rotations and truncations fall between two
lines of the writer.

### Stream

`command` and `ReadRemoteFile` are one module since they are the same thing twice,
with differences that matter: who watches the context, what it does (kill the child
or close the connection), whether the scan tests the context, and whether giving
up means to kill and wait. The peer (docker, kubectl, the remote command) is
external: it writes, closes its output, exits, fails in the middle of a line, or
does nothing for ever. A line is its number and `Torn` what is left of one. `Leave`
is a return with its deferred calls. `Verdicts` includes that `exec` reports a cancellation it
acted on even if the child had just exited. The child is assumed to leave
no process of its own that keeps the pipe open. A connection that is
closed may leave a fragment that `ReadRemoteFile` emits, as it does not test the
context; the source then fails, so that `SuccessIsWhole` is not affected.

### SourceConfig and Paging

A source is any configuration; `Validate` (`Accepted`) decides which are searched, and
`Client`, `Endpoint`, `Method` and `CarriesToken` are the choices `Read` and `queryHTTP` derive from it.
`CarriesToken` holds when the method and the parameter put the token where it is sent; the server
answers a request that does not carry it with its first page.

The server is an arbitrary function from tokens to pages: any page may lead to
any token, be empty, malformed or rejected, or never come: then only the client's
timeout (`TimeOut`) or a cancellation ends the request. This loses no generality against a
server that answers a token differently the second time, since no page is
asked for twice (`NoPageTwice`). The checks of the generic client (`HTTPToken`), of
AWS and of OCI are three actions because they are three pieces of code. A server
that invents new tokens for ever is outside the run (not the theorems): nothing in the code would stop it,
and `SourceEnds` is about servers with finitely many tokens. `FailsForACause` has one
exception, sources of `text` or `ndjson` with a path to a next token: `Validate` accepts
them and the client then refuses every response (http.go 129-132).

### EventTime and Normalize

Texts are what the code can make of them: a date, a number, or neither. A line is what the code finds in
it: JSON members, `name=text` pairs, what an engine says, a syslog header, a first word. An event
is at first held by its service, which is asked for some bounds (`Asked`) and withholds or
sends it; `Read` labels it and `Normalize` reads the line. Members of one dotted path
overwrite each other in Go's map order, hence `Flattened` is a set. How a service dates and
withholds its events is external (`Dated`, `Send`): CloudWatch dates to the millisecond and takes the end as
exclusive, as README.md 60-61 says; gcp, azure and oci date a record in a member of it, docker and kubectl in
front of the line. Only the reader of aws hands over a time, `event.given`, and only if the event has one.

`IdentityKept` is about `Field`, what queries read under a name. The entry's own members come
first there: a label or field named `line`, `filename` or `host` is never read. A service that dates its events
is not believed in all cases, and `ServiceBelieved` says in which: the code looks for a time in the fields,
in a fixed order, then in the header and then in front of the line, so a `time=` pair in the text of a
container's log replaces the stamp docker put in front of it. Every other time the entry may get is that of a text
(`TimeAsStated`), read in the one unit that puts a number between 1973 and 5138 (`Stated`). `EventTime`
keeps the magnitudes at which the code changes the unit as parameters related as in the code, so that
TLC can count with small numbers.

### ScriptLoader

The recursion of `load()` is the stack. Names are what `filepath.Clean` leaves.
A module may fail at any of its statements; `broken` records that one did. `Endless` among
the imports stands for a loop without end, which nothing but the limit on the
thread's steps (`StepLimit`) or a cancellation ends. The properties compare the outcome
with a definition on the import graph, least closed sets instead of a traversal.

### Archive

One action is one iteration of the loop of `Read` for a buffer of any length; a
decompressor may return fewer bytes than asked. zip and tar differ only in what
counts as a regular member and where an error comes from. What the stream should be,
`TextUpTo`, is defined on the members alone, one after the other, as a recursive function.
The specification is `ArchiveSpec`, so that `ReaderProofs` can extend `Archive` and
`Stream` together.

## 3. Runs

| Run | Question | Bounds |
| --- | --- | --- |
| `pipeline` | the contract, completeness, channels, goroutines, errors, with and without `-sort` and correlation | 2 sources of 2 entries, channel of 1, 0 to 2 workers, 2 results |
| `pipeline_live` | finite and cancelled searches return, `-f` starts all | 2 sources of 1 entry, all followed and finite flags |
| `correlator` | buffer, index, window, tokens and aliases | buffer 2, window 1, 4 arrivals of 10 kinds |
| `follow` | lines whole, in order, not repeated, emitted; cancellation ends it | lines of 2, 1, 2 and 3 chunks, limit 2, buffer 1, 3 files, 1 truncation |
| `follow_skips` | violated: a rename skips lines silently | 2 lines, 2 files |
| `follow_vanished` | violated: a second rotation ends the follower | 3 files |
| `stream` | success is the whole output; nothing is left; cancelled or abandoned sources end | 3 lines, a pipe of 2, both kinds |
| `search` | the search is one of `Pipeline`'s, and prints the answer | 2 sources of 2 entries that share tokens and fields, buffer of 2, 8 searches: bounds, failing expression and script, linked, sorted, both, refused |
| `normalize` | identity kept, times as stated, how far services are believed, nothing lost to them | 11 sources of 9 types, 21 lines, 6 instants, 12 pairs of bounds |
| `paging` | all pages, none asked for twice, an end, no false alarm | 3 pages, 16 configurations, 7 client kinds, every server, silent ones included |
| `script` | what is loaded is sound, run once and within the limit; what is refused has a cause | graphs of 4 modules, some of which run for ever, limit 3 |
| `archive` | the stream is the members, separated | up to 3 members of up to 3 bytes |

Why these bounds are enough for the interesting cases. Two sources and two
workers race on every channel; one worker forces queued sources; a channel of
one entry makes workers block in emit; a channel of two errors would overflow if
one slot were missing; two results make `-max-results` bite with four entries.
Four arrivals with a buffer of two give two evictions and a match on each side of one. A line
longer than the buffer meets `ErrBufferFull`, ends of file inside a line, and
rotations at each of these points; the last line of `follow` exceeds the
limit on a line, in one piece or assembled. Three pages make cycles of length one, two and
three. Three lines and a pipe of two
let a peer block while the scan gives up on the first one. Four modules give diamonds, repeated imports, self imports and cycles,
and exceed the limit of three by one. The pipeline runs two workers except for sorted correlated
searches, whose single worker still lets both sources fail and be cancelled at any point. The configurations of
`paging` have one for each rule of `Validate` that refuses it. With `K = 4` the instants and numbers of
`normalize` straddle every limit between two units, and the bounds fall on, between and
beside the milliseconds of the events.

`CHECK_DEADLOCK FALSE` is set for `correlator` and `normalize`: these models end when
the arrivals are used up and when the event has been read. Elsewhere a system that has ended stutters
explicitly, so deadlock is checked.

Fairness. Goroutines are scheduled (`WF` on the feeder, the closer, the main
goroutine and each worker). A finite source ends and a followed one reacts to a
cancellation, by its own test of the context or since the connection, the
request or the process is closed with it; nothing makes a followed source end
otherwise, and nothing makes a signal or a failure occur. Weak fairness is enough: no action
needed for progress is disabled again by another process except by progress of
that process. Writes to the standard output are assumed to return: a reader of
the output that stops reading without closing it stops the program. In `Stream`
the source, its watcher and the clock make progress; peer and server owe nothing. That a finite source
ends is, for SSH, a fact about the server: after the handshake no timeout applies,
and a silent server holds the search until it is cancelled. In `Follow` the
ticker fires; the writer owes nothing. In `Paging` the clock of the client runs: a server may be silent,
and `TimeOut` happens because the generic and the OCI client are made with a timeout of 60 seconds (http.go
23, cloud.go 107) and so is the AWS client (cloud.go 29). In `ScriptLoader` the thread counts its steps:
a module may run for ever, and `StepLimit` happens because a thread is made with a limit of 100,000 steps
(starlark.go 89-92); a module without such a loop is at some time past its last statement.

## 4. Findings

1. A follower that sees another file under its path reopens at once, without
   reading what was appended to the old file after the last end of file, and
   drops its unfinished line (read.go 152-161). README.md 121-123 and 176 promise
   otherwise; the limits it documents concern truncation only. Run
   `follow_skips`: the writer appends after the last read, renames, and the follower moves on.
2. `os.IsNotExist` is waited out after `Stat` (read.go 146-148) but not after `Open`
   (153-156): a path that is renamed away again in between ends the source with
   an error. Run `follow_vanished`.

## 5. Proofs

All theorems hold for every number of sources, entries, workers, channel and
buffer size, and for every flag combination, from the constants' assumptions in
`Pipeline`, `Correlator`, `Search`, `Stream`, `Paging`, `EventTime`, `Normalize`, `Follow`,
`ScriptLoader` and `Archive` only, which TLC evaluates in every run. Every safety invariant that a
passing run checks is a theorem, and so are the three refinements `KeepsContract`, `KeepsPromise` and
`ImplementsPipeline`.
Each inductive invariant was checked by TLC on the run's instance before it was proved.

`PipelineProofs` has three layers. `TypeOK` is not inductive. `PoolInv` adds `Lifetimes` (which goroutines
exist in which phase of main, and that the closer is past its wait only when the workers are
gone) and `Assignment` (the sources before `feed` are the ones handed out, each is
in the hands of exactly one worker or has a final status, and a source reports at
most once, so that `errs` holds at most one error a source). From it follow `TypeCorrect`,
`NeverSendsAfterClose`, `LeavesNoGoroutine` and `ErrsIsLargeEnough`. `FlowInv`, inductive
relative to `PoolInv`, follows the data: `InFlight` (an entry sent is in the channel
or handled, or else the search has failed), `OnItsWay` (an entry picked is still selected, in
the sort buffer or written, unless processing failed), `Remembered` (every failure
is still in `errs`, in `failures`, in `procErr`, or visible in the context) and
`Complete` (what holds once the verdict was favourable). From both follow
`SuccessIsNeverPartial` and `NoFailureIsLost`. `LedgerInv` is about order and repetition:
`Unbroken` (nothing has failed as long as main goes on), `InOrder` (the channel holds each source's entries
in their order, all behind those taken up) and `OnceOnly` (an entry is chosen after it was taken up,
at most once, and delivered at most once). With it `PipelineImplementsContract` maps every
step: `Emit` to the contract's reading, `Receive` to taking up with a choice, a delivery or a line of
the flush to writing, the errors to the failure, the return of `run` to the verdict, and
everything else to a stutter. There is one step for each action and
under it one for each conjunct.

`OutputIsInOrder` says what that order means for whoever reads the output, in one state: no entry occurs twice;
with `-sort` every entry written belongs, in a stable sort of the buffer, before all that were not written by
then, whatever the order in which the workers filled it; with neither `-sort` nor correlation a source's entries are in its order.
`OutputInOrder` is inductive with the three layers; no run lists it, since `KeepsContract` implies what it says of the
output but for the order of ties.

The same module proves of `Collate` what `sort.SliceStable` requires: the comparison is asymmetric and
transitive, ties only equal entries, and places known times first. `AheadIsBefore` connects it to the
order the contract states on its own.

`CorrelatorProofs`. The invariant is `TypeOK`, `IndexExact` and `SelectedExactly`
together: the index finds exactly the retained neighbours, so one arrival extends
what was reported by exactly what the promise adds; that links are symmetric
makes the two directions meet. The loop over the buffer is the recursive function `Kept`;
`KeptDefined` shows that the recursion has a solution and `KeptFact` that it returns just the
chosen items in the order of the buffer. Both go by induction over positions, stated as the
set of the positions at which the claim holds. `CorrelatorImplementsPromise` follows: order and flags of
one batch are those `DirectLinks` names.

`SearchProofs` composes the two. `PP` and `CP` are instances of `PipelineProofs` and
`CorrelatorProofs` with what `Search` puts for their parameters, so their lemmas are cited, not
repeated; `SearchAssumption` says that the constants of a search meet the assumptions of both. The
lemmas named `Same...` show that these instances have the initial states and the steps of `P` and
`C`. The invariant `SearchInv` is the three layers of `Pipeline`, the invariant of `Correlator`
and `LinkInv`, which none of them knows: the correlator was given just the entries main has taken
up that lie within the bounds and on which nothing failed, each once (`Given`); a condition that failed has
failed the search (`Noticed`); what main selected is what the correlator returned or,
without correlation, what matched (`Chosen`). In `StepImplements` the hard step is `SelectLinked`: the entry
taken up is new by `InOrder` of `Pipeline` (`EntryFact`), the batch of `Add` is what is newly
printed by `AddImplements` of `Correlator` (`AddFact`), and since entries and arrivals
correspond one to one, `Held` loses just what was selected (`LinkedFact`). So
`SearchImplementsPipeline` holds, and with the step lemmas of the two proofs `SearchInv` is inductive.
`SearchKeepsContract` and `SearchKeepsPromise` carry the contract of `Pipeline` and the
promise of `Correlator` over to the whole search. For `PrintedIsTheAnswer`, a verdict of success gives
by `Complete` that everything sent was taken up and all that was picked is
written; `Given` and `Chosen` turn that into the query's words; and if no more candidates exist
than the buffer and one, the one to one correspondence bounds the number of arrivals, so that
any two of them are within `Reach`.

`FollowProofs`. The chunks are ordered by line and place, which is the order in which the writer writes. Every
file holds a run of them, and later files later ones (`Written`). `Ahead` is what the follower may yet
read: its file past its position, or all of that file if a truncation is unseen, the later files
and what is not written yet. `InStep` relates offset, position and buffer to the file, and is what
makes the test of read.go 162 see a truncation. `Whole` says that what the follower holds, pending
and buffer, is a run that starts a line once one was emitted and lies before everything ahead;
`Passed` that what it emitted are whole lines before what it holds and before what is ahead. Rotations and
truncations only remove from what is ahead, so these survive them. `TypesHold`,
`NothingConsumedIsLost`, `NoTornLines` and `OrderIsKept` follow. The two properties that section 4 shows
violated are not implied: both concern chunks or files the follower never reads.

`ReaderProofs`, streamed sources. The invariant has `TypeOK` and six parts: `Phases` (where the source is
against its handles and the peer), `Causes`, `InOrder` (what the peer wrote is emitted, held by emit, or in
the pipe, as long as nothing was cut off), `AllWritten` (a peer that closed its output or exited well has written everything),
`Drained` (once the scan met the end nothing is
written any more) and `Untorn`. `SuccessIsWhole` needs all of them but the last: success requires
that the peer exited, hence wrote everything, hence that nothing was cut off.

`ReaderProofs`, archives. `TextDefined` and `TextFact` show that the recursion of `TextUpTo` has a solution,
`TextGrows` that the text up to a member is a prefix of the whole. `ArchiveInv` says where the reader is
(`Placed`), that the stream is the text of the members behind it and what was read of the open one
(`Streamed`), that the members behind it had no fault (`Sound`) and that `had` and `last` describe
the end of the stream (`Remembered`), which is all that `EndOfMember` consults to separate two members.
`StreamIsTheMembers` and `MembersAreSeparated` hold for archives of any length, members of any size and reads
of any size.

`PagingProofs`. `AcceptedWorks`: a source that `Validate` accepts reaches its service, and its requests
carry their tokens if its client follows them; so a request asks for the page of its token
(`AsksForToken`). With that, `PagingInv` adds to the types which clients get to a further page (`Following`),
that the pages asked for are the first and those of the tokens remembered (`Itinerary`), that every
page left was sound and complete and led to one that was asked for (`Harvest`), and that what is emitted is the
earlier pages and the current one up to `row`, once (`Emitted`). The number of tokens, pages and
rows is arbitrary, infinitely many tokens included.

`ScriptLoaderProofs`. The import graph is arbitrary. The invariant says how far the recursion is: a module is on the
stack, in the cache or not yet executed (`OnceExecuted`); every load statement executed so far led to a cached
module or to the next one of the stack (`Resolved`); the cache is closed under imports, free of cycles and within
the limit (`CacheSound`); a module of the stack needs those above it, and the script all of them (`Chain`).
A module enters the cache when all its imports are cached, so that what it reaches is cached and
cannot lead back to it: `OnlySoundIsLoaded` and `ImportersSeeCompleteModules`. Conversely a name that is on
the stack closes a cycle through `Chain`, and a full loader has met more needed modules than the
limit: `OnlyUnsoundIsRefused`. The reference is a least closed set, not a traversal.

`NormalizeProofs`. The invariant `Origin` says that what was withheld was not asked for and that what main
gets is an outcome of the event, dated where the kind of service dates it; `Worded` that the texts of a line and a label state what they say or nothing.
`WithheldIsOutOfRange` follows by the kind of source; for aws since
rounding to milliseconds keeps the order. `IdentityIsKept` follows since `Or` keeps what is known and a
field survives being written over by fields of other names. `TimesAreStated` goes through the
places a time is looked for: each finds none, or one that a text there states, and by `StatedIsRead` the code
reads a text as what it states. `ServiceIsBelieved` asks for the first time field that states a time
(`FieldTimeIsFirst`) and where its value came from (`FieldOrigin`): with the service's own member in place, it is that one
or an earlier one, and the stamp in front is read when there is none.

Of `EventTime` the same module proves `UnitsAgree`: the intervals in which a number counts as nanoseconds, microseconds,
milliseconds and seconds are those in which that unit, and no other, puts it between second `Low` and second
`Low * K`. So every number from `FirstSecond` to `MaxInt` that is such an instant in some unit is read as that
instant. Nanoseconds end earlier, with 64 bits. `NoFalseDates` bounds each branch from below.

Only model-checked: the liveness properties, which are out of the prover's reach, and the two violated
properties of `Follow`. The prover cannot instantiate induction theorems whose parameter is an
operator; what is proved of recursive functions goes through a lemma `PrefixInduction`, whose parameter
is a set of positions. The proof modules state such lemmas, and those on the ends of a queue,
where they use them.

## 6. Not modelled

- Token extraction (tokenizer.go) and the line engines of the vendors: pure functions of the
  characters of one line. Their results are inputs of `Correlator` (tokens) and `Normalize`
  (engine, pairs, JSON members).
- `Script.Match` beyond its result: one call at a time under a mutex, from one goroutine.
- Headers, credentials, the shape of rows (azure's tables, `records_path`), redirects and TLS
  (refused by the HTTP client).
- The text of queries sent to a service, but for their bounds.
- gzip and bzip2, which are the standard library, and .Z, which is refused; walking directories for `-d`;
  lists of system log paths; the output format.
- The Elasticsearch helper and the legacy plugins, which the program does not reach.
- Two details of representation: `time.Time.Sub` saturates at 292 years, and the
  correlator's string keys could collide for field names with colons.

## 7. State

Every component that keeps state is modelled, all safety invariants and refinements of the passing
runs are proved. What is left are the pure functions of section 6, and the liveness properties, which
TLC checks on the instances of section 3.
