------------------------------- MODULE Normalize -------------------------------
(***************************************************************************)
(* The way of one event from the service that keeps it to the main loop:   *)
(* the bounds a source sends along with its query, the labels Read puts on *)
(* the entry, parsers.Normalize, and the bounds checked again locally.     *)
(*                                                                         *)
(* A text is a value as in EventTime.  A line is what the code finds in it:*)
(*   [json   : the leaves of the JSON object it is, as <<dotted path, text>>,*)
(*    pairs  : name -> text, from the name=text pairs in it,               *)
(*    engine : [app, fields], what the first engine that knows it says,    *)
(*    syslog : [time, host, service] of an RFC 5424 header,                *)
(*    first  : its first word].                                            *)
(* What is absent is the empty text.  An event is                          *)
(*   [time : the service's, given : what the reader copies of it,          *)
(*    line].                                                               *)
(***************************************************************************)
EXTENDS Integers, Sequences, SequencesExt, EventTime

CONSTANTS
  Configs,  \* the sources explored: type, identity and labels
  Instants, \* the instants at which the service dates its events
  Lines,    \* what events say besides
  Bounds    \* the pairs of -since and -until explored

(* Every text of a line. *)
Texts(line) ==
  {m[2] : m \in line.json} \cup {line.pairs[k] : k \in DOMAIN line.pairs}
  \cup {line.engine.fields[k] : k \in DOMAIN line.engine.fields}
  \cup {line.syslog.time, line.first}

Labels(s) == {s.labels[k] : k \in DOMAIN s.labels}

IsText(v) ==
  /\ v[1] = "number" => v[2] \in Int
  /\ v[1] = "rfc3339" => v[2] \in Int \ {NoTime}

ASSUME NormalizeAssumption ==
  /\ \A s \in Configs : s.type \in {"file", "ssh", "aws", "gcp", "azure", "oci", "docker",
                                   "kubernetes", "https"}
  /\ \A s \in Configs : \A v \in Labels(s) : IsText(v)
  /\ Instants \subseteq Nat \ {0}
  /\ \A l \in Lines :
       /\ l = [json |-> l.json, pairs |-> l.pairs, engine |-> l.engine,
               syslog |-> l.syslog, first |-> l.first]
       /\ \A v \in Texts(l) : IsText(v)
  /\ \A b \in Bounds : b.since \in Nat /\ b.until \in Nat

Q == INSTANCE Query

Empty == <<"text", "">>
Dash  == <<"text", "-">>

VARIABLES
  source,   \* the source
  bounds,   \* -since and -until
  event,    \* the event
  stage,    \* "held" by the service, "withheld", "sent" or "normal"
  entry     \* the LogEntry main works with

vars == <<source, bounds, event, stage, entry>>

NoHeader == [time |-> Empty, host |-> Empty, service |-> Empty]

(* The service's own time is in the line it sends, if it is, as a member   *)
(* of a JSON object, or in front of it, where docker and kubectl put it.   *)
OwnField == [gcp |-> "timestamp", azure |-> "TimeGenerated", oci |-> "logContent.time"]
InFront  == {"docker", "kubernetes"}
Stamp(t) == <<"rfc3339", t>>

Dated(type, t, line) ==
  CASE type \in DOMAIN OwnField ->
         [line EXCEPT !.json = @ \cup {<<OwnField[type], Stamp(t)>>},
                      !.syslog = NoHeader, !.first = <<"text", "{">>]
    [] type \in InFront ->
         [line EXCEPT !.json = {}, !.syslog = NoHeader, !.first = Stamp(t)]
    [] OTHER -> line

(* The reader of aws alone copies a time, if the event comes with one. *)
Given(type, t) == IF type = "aws" THEN {t, Unknown} ELSE {Unknown}

(* CloudWatch dates its events to the millisecond; a search of oci needs   *)
(* both bounds, and no search has them the wrong way round.                *)
Init ==
  /\ source \in Configs /\ bounds \in Bounds
  /\ source.type = "oci" => bounds.since # Unknown /\ bounds.until # Unknown
  /\ bounds.until # Unknown => bounds.since <= bounds.until
  /\ \E t \in Instants, line \in Lines :
       /\ source.type = "aws" => t % Milli = 0
       /\ \E given \in Given(source.type, t) :
            event = [time |-> t, given |-> given, line |-> Dated(source.type, t, line)]
  /\ stage = "held" /\ entry = << >>
--------------------------------------------------------------------------------
Since(t) == bounds.since = Unknown \/ t >= bounds.since
Until(t) == bounds.until = Unknown \/ t <= bounds.until

(* Here and below a definition named Mutant... is a plausible bug in the    *)
(* definition that follows it: no specification uses it; replacing the      *)
(* definition by it must violate a property.                                *)
MutantHTTPBounds(t) ==
  CASE source.type = "gcp" -> Since(t) /\ Until(t)
    [] source.type = "azure" ->
         bounds.since # Unknown \/ bounds.until # Unknown =>
           bounds.since <= t /\ t <= bounds.until
    [] OTHER -> TRUE

(* The bounds the service is asked for.  azure gets both or none, generic  *)
(* endpoints none; aws gets them in milliseconds and takes the end as      *)
(* exclusive; kubernetes has no end.                                       *)
HTTPBounds(t) ==
  CASE source.type = "gcp" -> Since(t) /\ Until(t)
    [] source.type = "azure" ->
         bounds.since # Unknown /\ bounds.until # Unknown => Since(t) /\ Until(t)
    [] OTHER -> TRUE

AWSBounds(t) ==
  /\ bounds.since = Unknown \/ t \div Milli >= bounds.since \div Milli
  /\ bounds.until = Unknown \/ t \div Milli < bounds.until \div Milli

OCIBounds(t) == bounds.since <= t /\ t <= bounds.until

CommandBounds(t) == Since(t) /\ (source.type = "docker" => Until(t))

Asked(t) ==
  CASE source.type \in {"file", "ssh"} -> TRUE
    [] source.type = "aws"  -> AWSBounds(t)
    [] source.type = "oci"  -> OCIBounds(t)
    [] source.type \in InFront -> CommandBounds(t)
    [] OTHER -> HTTPBounds(t)

Send ==
  /\ stage = "held"
  /\ stage' = IF Asked(event.time) THEN "sent" ELSE "withheld"
  /\ UNCHANGED <<source, bounds, event, entry>>
--------------------------------------------------------------------------------
(* Two JSON members with one dotted path overwrite each other in the order *)
(* in which Go happens to range over a map.                                *)
Flattened(json) ==
  LET paths == {m[1] : m \in json}
  IN {f \in [paths -> {m[2] : m \in json}] : \A p \in paths : <<p, f[p]>> \in json}

Get(fields, k) == IF k \in DOMAIN fields THEN fields[k] ELSE Empty

MutantOr(a, b) == IF b = Empty THEN a ELSE b
Or(a, b)       == IF a = Empty THEN b ELSE a

(* The first of the named fields that is not empty. *)
Pick(fields, keys) ==
  LET k == SelectInSeq(keys, LAMBDA n : Get(fields, n) # Empty)
  IN IF k = 0 THEN Empty ELSE Get(fields, keys[k])

HostKeys == <<"host", "hostname", "Computer", "resource.labels.node_name", "kubernetes.host">>
ServiceKeys == <<"service.name", "service", "app", "resource.labels.service_name",
                 "resource.labels.container_name">>
ContainerKeys == <<"container.id", "container_id", "container",
                   "resource.labels.container_name", "kubernetes.container_name">>
ClusterKeys == <<"cluster", "cluster.name", "resource.labels.cluster_name",
                 "kubernetes.cluster_name">>
TimeKeys == <<"timestamp", "@timestamp", "time", "eventTime", "TimeGenerated", "datetime",
              "data.datetime", "logContent.time", "data.logContent.time">>

Header(v) == IF v = Dash THEN Empty ELSE v

MutantFieldTime(fields) ==
  LET k == SelectLastInSeq(TimeKeys, LAMBDA n : EventTime(Get(fields, n)) # NoTime)
  IN IF k = 0 THEN Unknown ELSE EventTime(Get(fields, TimeKeys[k]))

(* The first of the time fields that states a time, be it the zero one. *)
FieldTime(fields) ==
  LET k == SelectInSeq(TimeKeys, LAMBDA n : EventTime(Get(fields, n)) # NoTime)
  IN IF k = 0 THEN Unknown ELSE EventTime(Get(fields, TimeKeys[k]))

Known(t, v) == IF t # Unknown \/ EventTime(v) = NoTime THEN t ELSE EventTime(v)

(* The fields g with the fields f written over them. *)
Over(f, g) ==
  [k \in DOMAIN f \cup DOMAIN g |-> IF k \in DOMAIN f THEN f[k] ELSE g[k]]

LogStream == [log_stream |-> <<"text", "s1">>, event_id |-> <<"text", "id1">>]

(* The readers of files name the path, the others nothing or the source. *)
Filename(s) == IF s.type \in {"file", "ssh"} THEN s.path ELSE s.name

(* What Read hands over: the configured identity replaces the reader's, a  *)
(* label the field of its name.                                            *)
Labelled(s, given) ==
  [source |-> s.name, host |-> s.host, service |-> s.service, container |-> s.container,
   cluster |-> s.cluster, filename |-> Filename(s),
   fields  |-> Over(s.labels, IF s.type = "aws" THEN LogStream ELSE << >>),
   time    |-> given]

(* The engine's fields take precedence over name=text pairs, these over    *)
(* JSON members and these over what the entry had; what is known of the    *)
(* identity and the time is never replaced.                                *)
Normalized(r, line) ==
  {LET f     == Over(line.engine.fields, Over(line.pairs, Over(flat, r.fields)))
       found == IF r.time # Unknown THEN r.time ELSE FieldTime(f)
   IN [source    |-> r.source,
       host      |-> Or(Or(r.host, Pick(f, HostKeys)), Header(line.syslog.host)),
       service   |-> Or(Or(r.service, Pick(f, ServiceKeys)), Header(line.syslog.service)),
       container |-> Or(r.container, Pick(f, ContainerKeys)),
       cluster   |-> Or(r.cluster, Pick(f, ClusterKeys)),
       app       |-> line.engine.app,
       filename  |-> r.filename,
       line      |-> line,
       time      |-> Known(Known(found, line.syslog.time), line.first),
       fields    |-> f] : flat \in Flattened(line.json)}

Outcomes(s, e) == Normalized(Labelled(s, e.given), e.line)

Normalize ==
  /\ stage = "sent"
  /\ stage' = "normal" /\ entry' \in Outcomes(source, event)
  /\ UNCHANGED <<source, bounds, event>>

(* What -where, -correlate-by and the script read under a name: a member   *)
(* of the entry or, under any other name, a field.                         *)
Members == {"source", "host", "service", "container", "cluster", "app", "line", "filename"}

Field(e, k) ==
  IF k = "app_id" THEN e.app ELSE IF k \in Members THEN e[k] ELSE Get(e.fields, k)

Next == Send \/ Normalize

Spec == Init /\ [][Next]_vars
--------------------------------------------------------------------------------
(* What the line says under the name k. *)
Written(k) ==
  {m[2] : m \in {x \in event.line.json : x[1] = k}}
  \cup {event.line.pairs[n] : n \in {k} \cap DOMAIN event.line.pairs}
  \cup {event.line.engine.fields[n] : n \in {k} \cap DOMAIN event.line.engine.fields}

(* read.go 24-41, normalize.go 56-87 and 143-163, README.md 26-29 and      *)
(* 55-56: whatever a line says, the source, host, service, container and   *)
(* cluster a source is configured with, the file and the unchanged line    *)
(* are what the conditions of a query read, and so is a label unless the   *)
(* line has a field of that name or the entry a member of that name, which *)
(* hides the label.                                                        *)
IdentityKept ==
  stage = "normal" =>
    /\ Field(entry, "source") = source.name
    /\ Field(entry, "filename") = Filename(source)
    /\ Field(entry, "line") = event.line
    /\ \A k \in {"host", "service", "container", "cluster"} :
         source[k] # Empty => Field(entry, k) = source[k]
    /\ \A k \in DOMAIN source.labels \ (Members \cup {"app_id"}) :
         Written(k) = {} => Field(entry, k) = source.labels[k]

(* The instant a date or a number stands for.  A number is one of seconds, *)
(* milliseconds, microseconds or nanoseconds, whichever puts it between    *)
(* second Low (March 1973) and second Low * K (the year 5138); there is    *)
(* one at most.                                                            *)
Stated(v) ==
  CASE v[1] = "rfc3339" -> {v[2]}
    [] v[1] = "number" /\ v[2] \in FirstSecond..MaxInt ->
         {t \in {v[2] * u : u \in {1, Micro, Milli, Second}} :
            Low * Second <= t /\ t < (Low * K) * Second}
    [] OTHER -> {}

(* normalize.go 15-16 and 71-142, README.md 79-82: an event time is the    *)
(* one the reader was given, or one the line or a label states, read in    *)
(* its unit; it stays unknown only if neither a syslog header nor the      *)
(* first word states one.                                                  *)
TimeAsStated ==
  stage = "normal" =>
    /\ entry.time # Unknown =>
         entry.time \in {event.given} \cup
                        UNION {Stated(v) : v \in Texts(event.line) \cup Labels(source)}
    /\ entry.time = Unknown =>
         \A v \in {event.line.syslog.time, event.line.first} : Stated(v) \subseteq {Unknown}

(* The field k, of the line or a label, states a time. *)
Says(k) ==
  \E v \in Written(k) \cup {source.labels[n] : n \in {k} \cap DOMAIN source.labels} :
    EventTime(v) # NoTime

(* normalize.go 71-101, cloud.go 60-62, README.md 79-82: how far a service *)
(* that dates its events is believed.  The time aws gives is kept whatever *)
(* the line says.  The member that gcp, azure and oci date a record with   *)
(* yields to a field of its own name and to an earlier time field, be it a *)
(* label, and to no other; what docker and kubectl put in front of a line  *)
(* yields to time fields alone.                                            *)
ServiceBelieved ==
  stage = "normal" /\ entry.time # event.time =>
    /\ event.given = Unknown
    /\ source.type \in InFront => \E i \in DOMAIN TimeKeys : Says(TimeKeys[i])
    /\ source.type \in DOMAIN OwnField =>
         \/ Written(OwnField[source.type]) # {Stamp(event.time)}
         \/ \E i, j \in DOMAIN TimeKeys :
              i < j /\ TimeKeys[j] = OwnField[source.type] /\ Says(TimeKeys[i])

(* http.go 43-69, cloud.go 45-50 and 114-117, read.go 174-201, README.md   *)
(* 60-61: leaving part of the filtering to the service loses no event the  *)
(* query asks for.  What is withheld would be dropped locally too, unless  *)
(* it lies in the very millisecond aws excludes, or main takes its time    *)
(* from the line and the line states another than the service's.           *)
NothingLostButTheBound ==
  stage = "withheld" =>
    \A e \in Outcomes(source, event) :
      \/ ~Q!InRange(bounds, e.time)
      \/ source.type = "aws" /\ event.time \div Milli = bounds.until \div Milli
      \/ e.time # event.time /\ event.given = Unknown
================================================================================
