-------------------------------- MODULE Paging ---------------------------------
(***************************************************************************)
(* The finite remote sources: queryHTTP (generic endpoints, gcp, azure),   *)
(* queryAWS and queryOCI.  Each requests a page, emits its records and     *)
(* goes on with the token the page names, if any.                          *)
(*                                                                         *)
(* The server is a fixed function from the token of a request to a page,   *)
(* so it may name any token anywhere, those of earlier pages included.  A  *)
(* page is [fault, rows, next]: fault is "none", "rejected" for everything *)
(* that makes a client reject the response as a whole (transport, status,  *)
(* size, JSON, an "error" member, missing records), or "silent" if the     *)
(* response never comes or never ends; a row is "ok" or "bad"; next is a   *)
(* token, "none" (absent, null or empty), or "bad" (not a string).         *)
(***************************************************************************)
EXTENDS Integers, Sequences, FiniteSets, Functions, SourceConfig

CONSTANTS
  Tokens,  \* the tokens of this server
  Pages,   \* the pages it may serve
  Configs  \* the sources explored, acceptable or not

First  == "first"                  \* the request without a token
Cursor == Tokens \cup {First}

ASSUME PagingAssumption ==
  /\ First \notin Tokens /\ "none" \notin Cursor /\ "bad" \notin Cursor
  /\ \A s \in Configs : s.type \in {"https", "darkapi", "gcp", "azure", "aws", "oci"}
  /\ \A p \in Pages : /\ p.fault \in {"none", "rejected", "silent"} /\ p.rows \in Seq({"ok", "bad"})
                      /\ p.next \in Tokens \cup {"none", "bad"}

VARIABLES
  source,    \* the source, which Validate has accepted
  server,    \* token -> page
  pc,        \* request, wait, emit, next, done, failed
  token,     \* the token of the current request
  row,       \* rows of the current page emitted
  seen,      \* the tokens remembered
  requested, \* history: the pages the server was asked for, by their tokens
  emitted,   \* the rows emitted, as <<token of the page, position>>
  cancelled  \* ctx.Err() # nil

vars == <<source, server, pc, token, row, seen, requested, emitted, cancelled>>

client == Client(source)

(* A request that does not carry its token asks for the first page.        *)
Asked == IF CarriesToken(source) THEN token ELSE First
Page  == server[Asked]

(* Only a generic endpoint can name a token that is not a string, and the  *)
(* rows of aws cannot be malformed: the SDK has decoded both.              *)
Serves(c, p) ==
  /\ c \in {"aws", "oci", "azure", "text"} => p.next # "bad"
  /\ c = "aws" => "bad" \notin Range(p.rows)

Init ==
  /\ source \in {s \in Configs : Accepted(s)}
  /\ server \in [Cursor -> {p \in Pages : Serves(client, p)}]
  /\ pc = "request" /\ token = First /\ row = 0 /\ seen = {}
  /\ requested = << >> /\ emitted = << >> /\ cancelled = FALSE
--------------------------------------------------------------------------------
Cancel ==
  /\ ~cancelled /\ cancelled' = TRUE
  /\ UNCHANGED <<source, server, pc, token, row, seen, requested, emitted>>

Request ==
  /\ pc = "request"
  /\ pc' = "wait" /\ requested' = Append(requested, Asked)
  /\ UNCHANGED <<source, server, token, row, seen, emitted, cancelled>>

Fail ==
  /\ pc' = "failed"
  /\ UNCHANGED <<source, server, token, row, seen, requested, emitted, cancelled>>

(* The SDKs know their endpoints. *)
Unreachable == source.type \notin {"aws", "oci"} /\ Endpoint(source) # "https"

(* Here and below a definition named Mutant... is a plausible bug in the    *)
(* definition that follows it: no specification uses it; replacing the      *)
(* definition by it must violate a property.                                *)
MutantTimeOut == pc = "wait" /\ Page.fault = "silent" /\ cancelled /\ Fail

(* The 60 seconds every client gives a request, its response included. *)
TimeOut == pc = "wait" /\ Page.fault = "silent" /\ Fail

(* The request is abandoned, or its response is rejected. *)
ResponseFails ==
  /\ pc = "wait"
  /\ \/ cancelled \/ Unreachable \/ Page.fault = "rejected"
     \/ client = "mixed" /\ Page.fault = "none"
  /\ Fail

Respond ==
  /\ pc = "wait" /\ ~Unreachable /\ Page.fault = "none" /\ client # "mixed"
  /\ pc' = "emit"
  /\ UNCHANGED <<source, server, token, row, seen, requested, emitted, cancelled>>

(* One record more.  A malformed one ends the source, and so does an emit  *)
(* that finds the context cancelled.                                       *)
EmitRow ==
  /\ pc = "emit" /\ row < Len(Page.rows) /\ Page.rows[row + 1] = "ok"
  /\ emitted' = Append(emitted, <<Asked, row + 1>>) /\ row' = row + 1
  /\ UNCHANGED <<source, server, pc, token, seen, requested, cancelled>>

EmitFails ==
  /\ pc = "emit" /\ row < Len(Page.rows)
  /\ cancelled \/ Page.rows[row + 1] = "bad"
  /\ Fail

RowsDone ==
  /\ pc = "emit" /\ row = Len(Page.rows)
  /\ pc' = IF client \in {"unpaged", "text", "azure"} THEN "done" ELSE "next"
  /\ UNCHANGED <<source, server, token, row, seen, requested, emitted, cancelled>>

MutantLastPage ==
  /\ pc = "next" /\ (Page.next = "none" \/ Page.rows = << >>)
  /\ pc' = "done"
  /\ UNCHANGED <<source, server, token, row, seen, requested, emitted, cancelled>>

LastPage ==
  /\ pc = "next" /\ Page.next = "none"
  /\ pc' = "done"
  /\ UNCHANGED <<source, server, token, row, seen, requested, emitted, cancelled>>

(* A token met before would make the source loop; one that is not a string *)
(* cannot be sent.                                                         *)
MutantRepeatedEarly(t) == t \in seen \cup {t}
Repeated(t)            == t \in seen

HTTPToken ==
  /\ pc = "next" /\ client = "http" /\ Page.next # "none"
  /\ Page.next = "bad" \/ Repeated(Page.next)
  /\ Fail

AWSToken ==
  /\ pc = "next" /\ client = "aws" /\ Page.next # "none" /\ Repeated(Page.next)
  /\ Fail

OCIToken ==
  /\ pc = "next" /\ client = "oci" /\ Page.next # "none" /\ Repeated(Page.next)
  /\ Fail

NextPage ==
  /\ pc = "next" /\ Page.next \notin {"none", "bad"} /\ ~Repeated(Page.next)
  /\ token' = Page.next /\ seen' = seen \cup {Page.next}
  /\ pc' = "request" /\ row' = 0
  /\ UNCHANGED <<source, server, requested, emitted, cancelled>>

Ended == pc \in {"done", "failed"}

Step ==
  \/ Request \/ TimeOut \/ ResponseFails \/ Respond
  \/ EmitRow \/ EmitFails \/ RowsDone
  \/ LastPage \/ HTTPToken \/ AWSToken \/ OCIToken \/ NextPage

Next == Cancel \/ Step \/ (Ended /\ UNCHANGED vars)

Spec == Init /\ [][Next]_vars

(* The client is scheduled and its timer runs; a silent server owes        *)
(* nothing, and nobody has to cancel the search.                           *)
FairSpec == Spec /\ WF_vars(Step)
--------------------------------------------------------------------------------
Paginated == client \in {"http", "aws", "oci"}

RowsOf(t) == {<<t, i>> : i \in DOMAIN server[t].rows}

(* http.go 183-198, cloud.go 67-75 and 135-143, README "pagination is      *)
(* consumed to completion": a source that succeeds has requested every     *)
(* page the server leads to, empty ones included, and emitted every row of *)
(* every page once.                                                        *)
SuccessIsAllPages ==
  pc = "done" /\ Paginated =>
    /\ First \in Range(requested)
    /\ \A t \in Range(requested) :
         server[t].fault = "none" /\ server[t].next \in Range(requested) \cup {"none"}
    /\ Range(emitted) = UNION {RowsOf(t) : t \in Range(requested)}
    /\ Len(emitted) = Cardinality(Range(emitted))

(* http.go 77-85 and 194-197, cloud.go 71-74 and 139-142, config.go        *)
(* 116-118: the server is not asked for the same page twice, so none can   *)
(* make a source repeat its records or loop; in particular every request   *)
(* but the first carries its token.                                        *)
NoPageTwice == \A a, b \in DOMAIN requested : a # b => requested[a] # requested[b]

(* http.go 72-199, cloud.go 52-76 and 120-144, config.go 65-131: no source *)
(* that Validate has accepted fails without a cause: a fault, a malformed  *)
(* row or token, a cancellation, or a page that leads back to an earlier   *)
(* one.  The one exception are pages of text, accepted and then refused.   *)
FailsForACause ==
  pc = "failed" =>
    \/ cancelled \/ client = "mixed"
    \/ \E t \in Range(requested) :
         \/ server[t].fault # "none" \/ "bad" \in Range(server[t].rows) \/ server[t].next = "bad"
         \/ server[t].next \in Range(requested)

(* http.go 25 and 194-197, cloud.go 31, 71-74, 107 and 139-142: the search *)
(* of a remote source ends, whatever the server answers, and if it does    *)
(* not answer at all.                                                      *)
SourceEnds == <>Ended
================================================================================
