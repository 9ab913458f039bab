----------------------------- MODULE PagingProofs ------------------------------
(***************************************************************************)
(* What the paginated sources promise, for every server, every accepted    *)
(* configuration and any number of tokens.                                 *)
(***************************************************************************)
EXTENDS Paging, SequenceTheorems, FiniteSetTheorems, TLAPS

(* Adding an element to a queue. *)
LEMMA SendFact ==
  ASSUME NEW S, NEW q \in Seq(S), NEW e \in S
  PROVE  /\ Append(q, e) \in Seq(S) /\ Len(Append(q, e)) = Len(q) + 1
         /\ Range(Append(q, e)) = Range(q) \cup {e}
<1>1. /\ Append(q, e) \in Seq(S) /\ Len(Append(q, e)) = Len(q) + 1
      /\ \A i \in 1..Len(q) : Append(q, e)[i] = q[i]
      /\ Append(q, e)[Len(q) + 1] = e
  BY AppendProperties
<1>2. Range(q) = {q[i] : i \in 1..Len(q)}
      /\ Range(Append(q, e)) = {Append(q, e)[i] : i \in 1..(Len(q) + 1)}
  BY <1>1, RangeEquality
<1>3. Len(q) \in Nat
  BY LenProperties
<1> QED BY <1>1, <1>2, <1>3
--------------------------------------------------------------------------------
TypeOK ==
  /\ source \in Configs /\ Accepted(source)
  /\ server \in [Cursor -> Pages]
  /\ pc \in {"request", "wait", "emit", "next", "done", "failed"}
  /\ token \in Cursor /\ row \in Nat
  /\ seen \subseteq Tokens
  /\ requested \in Seq(Cursor) /\ emitted \in Seq(Cursor \X Nat)
  /\ cancelled \in BOOLEAN

(* Only a client that follows tokens gets to a further page. *)
Following ==
  /\ pc = "next" \/ token # First => Paginated
  /\ pc = "emit" => client # "mixed"

(* The pages asked for so far are the first one and those of the tokens    *)
(* remembered, but for the one about to be asked for.                      *)
Itinerary ==
  /\ pc = "request" => token \notin Range(requested)
                       /\ Range(requested) \cup {token} = seen \cup {First}
  /\ pc # "request" => token \in Range(requested) /\ Range(requested) = seen \cup {First}
  /\ NoPageTwice

Earlier == Range(requested) \ {token}

(* Every earlier page was sound and led to a page that was asked for or is *)
(* the current one; of the current one so many rows are emitted.           *)
Harvest ==
  /\ \A t \in Earlier : server[t].fault = "none" /\ server[t].next \in Range(requested) \cup {token}
  /\ pc \in {"request", "wait"} => row = 0
  /\ row <= Len(server[token].rows)
  /\ pc \in {"emit", "next", "done"} => server[token].fault = "none"
  /\ pc \in {"next", "done"} => row = Len(server[token].rows)
  /\ pc = "done" /\ Paginated => server[token].next = "none"

(* The rows emitted are those of the earlier pages and of the current one  *)
(* up to row, each once.                                                   *)
Emitted ==
  /\ \A r \in Cursor \X Nat :
       r \in Range(emitted) <=>
         \/ r[1] \in Earlier /\ r[2] \in 1..Len(server[r[1]].rows)
         \/ r[1] = token /\ r[2] \in 1..row
  /\ IsFiniteSet(Range(emitted)) /\ Len(emitted) = Cardinality(Range(emitted))

PagingInv == TypeOK /\ Following /\ Itinerary /\ Harvest /\ Emitted /\ FailsForACause
--------------------------------------------------------------------------------
(* config.go 65-131, http.go 26-92: a source that is accepted reaches its  *)
(* service, and if its client follows tokens the requests carry them.      *)
LEMMA AcceptedWorks ==
  ASSUME NEW s \in Configs, Accepted(s)
  PROVE  /\ Client(s) \in {"http", "aws", "oci"} => CarriesToken(s)
         /\ s.type \notin {"aws", "oci"} => Endpoint(s) = "https"
<1>1. s.type \in {"https", "darkapi", "gcp", "azure", "aws", "oci"}
  BY PagingAssumption
<1>2. \A f \in Required[s.type] : s[f] # ""
  BY DEF Accepted
<1>3. s.type \in {"https", "darkapi"} => s.url # ""
  <2>1. ASSUME s.type \in {"https", "darkapi"} PROVE Required[s.type] = {"url"}
    BY <2>1 DEF Required
  <2>2. s.type \in {"https", "darkapi"} => s["url"] # ""
    BY <1>2, <2>1
  <2> QED BY <2>2
<1>4. s.type \notin {"aws", "oci"} => Endpoint(s) = "https"
  BY <1>1, <1>3 DEF Accepted, Endpoint
<1>5. ASSUME Client(s) \in {"http", "aws", "oci"}, s.type \notin {"aws", "oci"}
      PROVE  PageParam(s) # "" /\ Method(s) \in {"GET", "POST"}
  <2>1. NextPath(s) # ""
    BY <1>5 DEF Client
  <2> QED BY <2>1, <1>1 DEF NextPath, PageParam, Method, Accepted
<1> QED BY <1>4, <1>5 DEF CarriesToken

(* So every request asks for the page of its token.                        *)
LEMMA AsksForToken ==
  ASSUME TypeOK, Following
  PROVE  Asked = token /\ Page = server[token] /\ ~Unreachable
<1>1. Paginated => CarriesToken(source)
  BY AcceptedWorks DEF TypeOK, Paginated, client
<1>2. ~Unreachable
  BY AcceptedWorks DEF TypeOK, Unreachable
<1> QED BY <1>1, <1>2 DEF Asked, Page, Following

(* What a page is.                                                         *)
LEMMA PageFact ==
  ASSUME TypeOK, NEW t \in Cursor
  PROVE  /\ server[t].fault \in {"none", "rejected", "silent"} /\ server[t].rows \in Seq({"ok", "bad"})
         /\ server[t].next \in Tokens \cup {"none", "bad"}
         /\ Len(server[t].rows) \in Nat
         /\ DOMAIN server[t].rows = 1..Len(server[t].rows)
<1>1. server[t] \in Pages
  BY DEF TypeOK
<1>2. server[t].rows \in Seq({"ok", "bad"})
  BY <1>1, PagingAssumption
<1> QED BY <1>1, <1>2, PagingAssumption, LenProperties
--------------------------------------------------------------------------------
(* The invariant holds before the first request.                           *)
LEMMA InitEstablishes == Init => PagingInv
<1> SUFFICES ASSUME Init PROVE PagingInv
  OBVIOUS
<1>1. TypeOK
  <2>1. server \in [Cursor -> Pages] /\ source \in Configs /\ Accepted(source)
    BY DEF Init
  <2>2. requested \in Seq(Cursor) /\ emitted \in Seq(Cursor \X Nat)
    BY DEF Init
  <2> QED BY <2>1, <2>2 DEF Init, TypeOK, Cursor
<1>2. Range(requested) = {} /\ Range(emitted) = {}
  BY DEF Init, Range
<1>3. Itinerary
  BY <1>2 DEF Init, Itinerary, NoPageTwice
<1>4. Harvest
  <2>1. Len(server[token].rows) \in Nat
    BY <1>1, PageFact DEF TypeOK
  <2> QED BY <1>2, <2>1 DEF Init, Harvest, Earlier
<1>5. Emitted
  <2>1. IsFiniteSet(Range(emitted)) /\ Cardinality(Range(emitted)) = 0 /\ Len(emitted) = 0
    BY <1>2, FS_EmptySet DEF Init
  <2> QED BY <1>2, <2>1 DEF Init, Emitted, Earlier
<1> QED BY <1>1, <1>3, <1>4, <1>5 DEF Init, PagingInv, Following, FailsForACause

(* The types are kept.                                                     *)
LEMMA TypeStep ==
  ASSUME PagingInv, [Next]_vars
  PROVE  TypeOK'
<1> USE DEF PagingInv, TypeOK
<1>1. Asked = token
  BY AsksForToken
<1>2. CASE Request
  BY <1>1, <1>2, SendFact DEF Request
<1>3. CASE EmitRow
  BY <1>1, <1>3, SendFact DEF EmitRow
<1>4. CASE NextPage
  <2>1. Page.next \in Tokens
    BY <1>4, AsksForToken, PageFact DEF NextPage
  <2> QED BY <1>4, <2>1 DEF NextPage, Cursor
<1>5. CASE Cancel
  BY <1>5 DEF Cancel
<1>6. CASE TimeOut \/ ResponseFails \/ EmitFails \/ HTTPToken \/ AWSToken \/ OCIToken
  BY <1>6 DEF TimeOut, ResponseFails, EmitFails, HTTPToken, AWSToken, OCIToken, Fail
<1>7. CASE Respond \/ RowsDone \/ LastPage
  BY <1>7 DEF Respond, RowsDone, LastPage
<1>8. CASE UNCHANGED vars
  BY <1>8 DEF vars
<1> QED BY <1>2, <1>3, <1>4, <1>5, <1>6, <1>7, <1>8 DEF Next, Step

(* A further page is only asked for by a client that follows tokens.       *)
LEMMA FollowingStep ==
  ASSUME PagingInv, [Next]_vars
  PROVE  Following'
<1> USE DEF PagingInv, Following
<1>1. Paginated' = Paginated /\ client' = client
  <2>1. source' = source
    BY DEF Next, Step, Cancel, Request, TimeOut, ResponseFails, Respond, EmitRow, EmitFails, RowsDone,
           LastPage, HTTPToken, AWSToken, OCIToken, NextPage, Fail, vars
  <2> QED BY <2>1 DEF Paginated, client
<1>2. CASE RowsDone
  <2>1. client \in ClientKinds
    BY DEF client, Client, ClientKinds
  <2> QED BY <1>1, <1>2, <2>1 DEF RowsDone, ClientKinds, Paginated
<1>3. CASE NextPage
  BY <1>1, <1>3 DEF NextPage
<1>4. CASE Request \/ Respond \/ EmitRow \/ LastPage \/ Cancel
  BY <1>1, <1>4 DEF Request, Respond, EmitRow, LastPage, Cancel
<1>5. CASE TimeOut \/ ResponseFails \/ EmitFails \/ HTTPToken \/ AWSToken \/ OCIToken
  BY <1>1, <1>5 DEF TimeOut, ResponseFails, EmitFails, HTTPToken, AWSToken, OCIToken, Fail
<1>6. CASE UNCHANGED vars
  BY <1>1, <1>6 DEF vars
<1> QED BY <1>2, <1>3, <1>4, <1>5, <1>6 DEF Next, Step

(* What a step other than Request, EmitRow and NextPage leaves alone.      *)
Bystander ==
  /\ UNCHANGED <<server, token, row, seen, requested, emitted>>
  /\ pc' = "request" <=> pc = "request"

LEMMA OtherSteps ==
  ASSUME [Next]_vars
  PROVE  Request \/ EmitRow \/ NextPage \/ Bystander
<1> USE DEF Bystander
<1>1. CASE Respond \/ RowsDone \/ LastPage
  BY <1>1 DEF Respond, RowsDone, LastPage
<1>2. CASE TimeOut \/ ResponseFails \/ EmitFails \/ HTTPToken \/ AWSToken \/ OCIToken
  BY <1>2 DEF TimeOut, ResponseFails, EmitFails, HTTPToken, AWSToken, OCIToken, Fail
<1>3. CASE Cancel \/ UNCHANGED vars
  BY <1>3 DEF Cancel, vars
<1> QED BY <1>1, <1>2, <1>3 DEF Next, Step

(* The token that NextPage adopts is new.                                  *)
LEMMA NewToken ==
  ASSUME PagingInv, NextPage
  PROVE  /\ token' = server[token].next /\ token' \in Tokens /\ token' \notin Range(requested)
         /\ Range(requested) \cup {token'} = seen' \cup {First}
<1>1. Page = server[token]
  BY AsksForToken DEF PagingInv
<1>2. server[token].next \in Tokens
  BY <1>1, PageFact DEF PagingInv, TypeOK, NextPage
<1>3. Range(requested) = seen \cup {First} /\ server[token].next \notin seen
  BY <1>1 DEF PagingInv, Itinerary, NextPage, Repeated
<1> QED BY <1>1, <1>2, <1>3, PagingAssumption DEF NextPage

(* The next request asks for a page not asked for before.                  *)
LEMMA ItineraryStep ==
  ASSUME PagingInv, [Next]_vars
  PROVE  Itinerary'
<1>0. Itinerary /\ requested \in Seq(Cursor) /\ token \in Cursor /\ Asked = token
  BY AsksForToken DEF PagingInv, TypeOK
<1>1. CASE Request
  <2>1. requested' = Append(requested, token) /\ token' = token /\ seen' = seen
        /\ pc = "request" /\ pc' = "wait"
    BY <1>0, <1>1 DEF Request
  <2>2. Range(requested') = Range(requested) \cup {token}
    BY <1>0, <2>1, SendFact
  <2>3. NoPageTwice'
    <3>1. /\ Len(requested) \in Nat /\ DOMAIN requested = 1..Len(requested)
          /\ DOMAIN requested' = 1..(Len(requested) + 1)
          /\ \A i \in 1..Len(requested) : requested'[i] = requested[i]
          /\ requested'[Len(requested) + 1] = token
      BY <1>0, <2>1, AppendProperties, LenProperties
    <3>2. \A i \in 1..Len(requested) : requested[i] # token
      BY <1>0, <2>1, <3>1 DEF Itinerary, Range
    <3> QED BY <1>0, <3>1, <3>2 DEF Itinerary, NoPageTwice
  <2> QED BY <1>0, <2>1, <2>2, <2>3 DEF Itinerary
<1>2. CASE NextPage
  BY <1>0, <1>2, NewToken DEF Itinerary, NoPageTwice, NextPage
<1>3. CASE EmitRow
  BY <1>0, <1>3 DEF Itinerary, NoPageTwice, EmitRow
<1>4. CASE Bystander
  BY <1>0, <1>4 DEF Itinerary, NoPageTwice, Bystander
<1> QED BY <1>1, <1>2, <1>3, <1>4, OtherSteps

(* Asking for a page leaves the earlier ones as they were; adopting a      *)
(* token makes the current page an earlier one.                            *)
LEMMA EarlierSteps ==
  ASSUME PagingInv, Request \/ NextPage
  PROVE  /\ Request => Earlier' = Earlier /\ Range(requested') = Range(requested) \cup {token}
         /\ NextPage => Earlier' = Earlier \cup {token} /\ Range(requested') = Range(requested)
                        /\ token \in Range(requested)
<1>0. Itinerary /\ requested \in Seq(Cursor) /\ token \in Cursor /\ Asked = token
  BY AsksForToken DEF PagingInv, TypeOK
<1>1. CASE Request
  <2>1. Range(requested') = Range(requested) \cup {token} /\ token' = token
    BY <1>0, <1>1, SendFact DEF Request
  <2>2. token \notin Range(requested)
    BY <1>0, <1>1 DEF Itinerary, Request
  <2> QED BY <1>1, <2>1, <2>2 DEF Earlier, Request, NextPage
<1>2. CASE NextPage
  <2>1. requested' = requested /\ token \in Range(requested) /\ token' \notin Range(requested)
    BY <1>0, <1>2, NewToken DEF Itinerary, NextPage
  <2> QED BY <1>2, <2>1 DEF Earlier, Request, NextPage
<1> QED BY <1>1, <1>2

(* A page is left when all of it is emitted, for the page it names.        *)
LEMMA HarvestStep ==
  ASSUME PagingInv, [Next]_vars
  PROVE  Harvest'
<1>0. Harvest /\ TypeOK /\ Page = server[token]
  BY AsksForToken DEF PagingInv
<1>1. Len(server[token].rows) \in Nat /\ row \in Nat
  BY <1>0, PageFact DEF TypeOK
<1>2. CASE Request
  <2>1. Earlier' = Earlier /\ Range(requested') = Range(requested) \cup {token}
    BY <1>2, EarlierSteps
  <2> QED BY <1>0, <1>2, <2>1 DEF Harvest, Request
<1>3. CASE NextPage
  <2>1. Earlier' = Earlier \cup {token} /\ Range(requested') = Range(requested)
        /\ token \in Range(requested) /\ token' = server[token].next /\ token' \in Cursor
    BY <1>3, EarlierSteps, NewToken DEF Cursor
  <2>2. Len(server[token'].rows) \in Nat
    BY <1>0, <2>1, PageFact
  <2>3. pc = "next" /\ pc' = "request" /\ row' = 0 /\ server' = server
    BY <1>3 DEF NextPage
  <2> QED BY <1>0, <2>1, <2>2, <2>3 DEF Harvest
<1>4. CASE EmitRow
  <2>1. Earlier' = Earlier
    BY <1>4 DEF EmitRow, Earlier
  <2> QED BY <1>0, <1>1, <1>4, <2>1 DEF Harvest, EmitRow
<1>5. ASSUME Bystander
      PROVE  Harvest'
  <2>1. Earlier' = Earlier
    BY <1>5 DEF Bystander, Earlier
  <2> USE <1>0, <2>1 DEF Harvest
  <2>2. CASE Respond
    BY <2>2, <1>5 DEF Respond, Bystander
  <2>3. CASE RowsDone
    <3>1. pc' = "done" => ~Paginated'
      BY <2>3 DEF RowsDone, Paginated, client
    <3> QED BY <2>3, <3>1 DEF RowsDone
  <2>4. CASE LastPage
    BY <2>4 DEF LastPage
  <2>5. CASE TimeOut \/ ResponseFails \/ EmitFails \/ HTTPToken \/ AWSToken \/ OCIToken
    BY <2>5 DEF TimeOut, ResponseFails, EmitFails, HTTPToken, AWSToken, OCIToken, Fail
  <2>6. CASE Cancel \/ UNCHANGED vars
    BY <2>6 DEF Cancel, vars, Paginated, client
  <2> QED BY <1>2, <1>3, <1>4, <2>2, <2>3, <2>4, <2>5, <2>6 DEF Next, Step
<1> QED BY <1>2, <1>3, <1>4, <1>5, OtherSteps

(* A row is emitted once, and none of a page that is left is forgotten.    *)
LEMMA EmittedStep ==
  ASSUME PagingInv, [Next]_vars
  PROVE  Emitted'
<1>0. Emitted /\ Harvest /\ TypeOK /\ Asked = token /\ Page = server[token]
  BY AsksForToken DEF PagingInv
<1>1. row \in Nat /\ token \in Cursor /\ emitted \in Seq(Cursor \X Nat)
  BY <1>0 DEF TypeOK
<1>2. CASE Request
  <2>1. Earlier' = Earlier
    BY <1>2, EarlierSteps
  <2> QED BY <1>0, <1>2, <2>1 DEF Emitted, Request
<1>3. CASE EmitRow
  <2> DEFINE e == <<token, row + 1>>
  <2>1. emitted' = Append(emitted, e) /\ row' = row + 1 /\ Earlier' = Earlier
        /\ token' = token /\ server' = server
    BY <1>0, <1>3 DEF EmitRow, Earlier
  <2>2. e \in Cursor \X Nat /\ e[1] = token /\ e[2] = row + 1
    BY <1>1
  <2>3. Range(emitted') = Range(emitted) \cup {e} /\ Len(emitted') = Len(emitted) + 1
    <3>1. e \in Cursor \X Nat /\ emitted' = Append(emitted, e)
      BY <2>1, <2>2
    <3> HIDE DEF e
    <3> QED BY <1>1, <3>1, SendFact
  <2>4. e \notin Range(emitted)
    <3>1. token \notin Earlier /\ row + 1 \notin 1..row
      BY <1>1 DEF Earlier
    <3> QED BY <1>0, <2>2, <3>1 DEF Emitted
  <2>5. IsFiniteSet(Range(emitted')) /\ Cardinality(Range(emitted')) = Cardinality(Range(emitted)) + 1
    <3>1. IsFiniteSet(Range(emitted))
      BY <1>0 DEF Emitted
    <3> HIDE DEF e
    <3> QED BY <2>3, <2>4, <3>1, FS_AddElement
  <2>6. ASSUME NEW r \in Cursor \X Nat
        PROVE  r \in Range(emitted') <=>
                 \/ r[1] \in Earlier /\ r[2] \in 1..Len(server[r[1]].rows)
                 \/ r[1] = token /\ r[2] \in 1..(row + 1)
    <3>1. r = e <=> r[1] = token /\ r[2] = row + 1
      BY <2>6
    <3>2. r[2] \in 1..(row + 1) <=> r[2] \in 1..row \/ r[2] = row + 1
      BY <1>1, <2>6
    <3>3. r \in Range(emitted) <=>
            \/ r[1] \in Earlier /\ r[2] \in 1..Len(server[r[1]].rows)
            \/ r[1] = token /\ r[2] \in 1..row
      BY <1>0, <2>6 DEF Emitted
    <3> HIDE DEF e
    <3> QED BY <2>3, <3>1, <3>2, <3>3
  <2>7. Len(emitted) = Cardinality(Range(emitted))
    BY <1>0 DEF Emitted
  <2> QED BY <2>1, <2>3, <2>5, <2>6, <2>7 DEF Emitted
<1>4. CASE NextPage
  <2>1. Earlier' = Earlier \cup {token} /\ token' \notin Range(requested) /\ row' = 0
        /\ emitted' = emitted /\ server' = server
    BY <1>4, EarlierSteps, NewToken DEF NextPage
  <2>2. row = Len(server[token].rows)
    BY <1>0, <1>4 DEF Harvest, NextPage
  <2> QED BY <1>0, <2>1, <2>2 DEF Emitted
<1>5. CASE Bystander
  BY <1>0, <1>5 DEF Emitted, Bystander, Earlier
<1> QED BY <1>2, <1>3, <1>4, <1>5, OtherSteps

(* A source that fails has met its cause on a page it asked for.           *)
LEMMA FailsStep ==
  ASSUME PagingInv, [Next]_vars
  PROVE  FailsForACause'
<1>0. TypeOK /\ Itinerary /\ FailsForACause /\ Page = server[token] /\ ~Unreachable
  BY AsksForToken DEF PagingInv
<1>1. CASE TimeOut \/ ResponseFails
  BY <1>0, <1>1 DEF TimeOut, ResponseFails, Fail, FailsForACause, Itinerary, client
<1>2. CASE EmitFails
  <2>1. token \in Range(requested)
    BY <1>0, <1>2 DEF EmitFails, Itinerary
  <2>2. server[token].rows[row + 1] = "bad" => "bad" \in Range(server[token].rows)
    <3>1. row + 1 \in DOMAIN server[token].rows
      BY <1>0, <1>2, PageFact DEF EmitFails, TypeOK
    <3> QED BY <3>1 DEF Range
  <2> QED BY <1>0, <1>2, <2>1, <2>2 DEF EmitFails, Fail, FailsForACause
<1>3. CASE HTTPToken \/ AWSToken \/ OCIToken
  <2>1. token \in Range(requested) /\ seen \subseteq Range(requested)
    BY <1>0, <1>3 DEF HTTPToken, AWSToken, OCIToken, Itinerary
  <2>2. server[token].next = "bad" \/ server[token].next \in seen
    BY <1>0, <1>3 DEF HTTPToken, AWSToken, OCIToken, Repeated
  <2>3. UNCHANGED <<requested, server>>
    BY <1>3 DEF HTTPToken, AWSToken, OCIToken, Fail
  <2> QED BY <2>1, <2>2, <2>3 DEF FailsForACause
<1>4. CASE Request \/ Respond \/ EmitRow \/ RowsDone \/ LastPage \/ NextPage
  BY <1>4 DEF Request, Respond, EmitRow, RowsDone, LastPage, NextPage, FailsForACause
<1>5. CASE Cancel \/ UNCHANGED vars
  BY <1>0, <1>5 DEF Cancel, vars, FailsForACause, client
<1> QED BY <1>1, <1>2, <1>3, <1>4, <1>5 DEF Next, Step

(* PagingInv holds in every state of every source.                         *)
THEOREM PagingInvariant == Spec => []PagingInv
<1>1. Init => PagingInv
  BY InitEstablishes
<1>2. PagingInv /\ [Next]_vars => PagingInv'
  BY TypeStep, FollowingStep, ItineraryStep, HarvestStep, EmittedStep, FailsStep DEF PagingInv
<1> QED BY <1>1, <1>2, PTL DEF Spec
--------------------------------------------------------------------------------
(* http.go 77-85 and 194-197, cloud.go 71-74 and 139-142: whatever tokens  *)
(* the server names, in whatever order, no page is asked for twice.        *)
THEOREM PagesAskedOnce == Spec => []NoPageTwice
<1>1. PagingInv => NoPageTwice
  BY DEF PagingInv, Itinerary
<1> QED BY <1>1, PagingInvariant, PTL

(* http.go 183-198, cloud.go 67-75 and 135-143: a paginated source that    *)
(* succeeds has emitted every row of every page it was led to, once.       *)
THEOREM SuccessIsComplete == Spec => []SuccessIsAllPages
<1>1. PagingInv => SuccessIsAllPages
  <2> SUFFICES ASSUME PagingInv, pc = "done", Paginated
               PROVE  SuccessIsAllPages
    BY DEF SuccessIsAllPages
  <2> USE DEF PagingInv
  <2>1. token \in Range(requested) /\ First \in Range(requested)
        /\ Range(requested) \subseteq Cursor
    BY DEF Itinerary, TypeOK, Cursor
  <2>2. \A t \in Range(requested) :
          server[t].fault = "none" /\ server[t].next \in Range(requested) \cup {"none"}
    BY <2>1 DEF Harvest, Earlier
  <2>3. Range(emitted) = UNION {RowsOf(t) : t \in Range(requested)}
    <3>1. Range(emitted) \subseteq Cursor \X Nat
      <4>1. emitted \in Seq(Cursor \X Nat)
        BY DEF TypeOK
      <4> QED BY <4>1, RangeOfSeq
    <3>2. \A t \in Range(requested) : DOMAIN server[t].rows = 1..Len(server[t].rows)
      BY <2>1, PageFact
    <3>3. \A t \in Range(requested) : RowsOf(t) = {<<t, i>> : i \in 1..Len(server[t].rows)}
      BY <3>2 DEF RowsOf
    <3>4. row = Len(server[token].rows)
      BY DEF Harvest
    <3>5. \A r \in Cursor \X Nat :
            r \in Range(emitted) <=>
              r[1] \in Range(requested) /\ r[2] \in 1..Len(server[r[1]].rows)
      BY <2>1, <3>4 DEF Emitted, Earlier
    <3> QED BY <2>1, <3>1, <3>3, <3>5
  <2> QED BY <2>1, <2>2, <2>3 DEF SuccessIsAllPages, Emitted
<1> QED BY <1>1, PagingInvariant, PTL

(* http.go 72-199, cloud.go 52-76 and 120-144, config.go 65-131: no source *)
(* that Validate accepts fails without a cause.                            *)
THEOREM FailuresHaveACause == Spec => []FailsForACause
<1>1. PagingInv => FailsForACause
  BY DEF PagingInv
<1> QED BY <1>1, PagingInvariant, PTL
================================================================================
