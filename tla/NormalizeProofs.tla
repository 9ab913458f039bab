--------------------------- MODULE NormalizeProofs ----------------------------
(* What is proved of Normalize, and of the instants EventTime reads. *)
EXTENDS Normalize, SequenceTheorems, WellFoundedInduction, TLAPS

(* A set of naturals has a least element unless it is empty. *)
LEMMA LeastNumber ==
  ASSUME NEW T, T \subseteq Nat, T # {}
  PROVE  \E x \in T : \A y \in T : x <= y
<1> DEFINE R == {p \in Nat \X Nat : p[1] < p[2]}
<1>1. IsWellFoundedOn(R, Nat)
  BY NatLessThanWellFounded, Zenon DEF OpToRel
<1>2. \A x, y \in Nat : <<y, x>> \in R <=> y < x
  OBVIOUS
<1> HIDE DEF R
<1>3. PICK x \in T : \A y \in T : <<y, x>> \notin R
  BY <1>1, WFMin
<1>4. x \in Nat /\ \A y \in T : y \in Nat /\ ~(y < x)
  BY <1>2, <1>3
<1> QED BY <1>4
--------------------------------------------------------------------------------
(* What division by a positive number returns. *)
LEMMA Quotient ==
  ASSUME NEW t \in Nat, NEW d \in Nat \ {0}
  PROVE  t \div d \in Nat /\ (t \div d) * d <= t /\ t < (t \div d) * d + d
OBVIOUS

(* Multiplication by a natural number keeps the order ... *)
LEMMA Monotone ==
  ASSUME NEW a \in Int, NEW b \in Int, NEW k \in Nat, a <= b
  PROVE  a * k <= b * k
OBVIOUS

(* ... and a positive one reflects it. *)
LEMMA Cancel ==
  ASSUME NEW a \in Int, NEW b \in Int, NEW k \in Nat \ {0}, a * k < b * k
  PROVE  a < b
OBVIOUS

LEMMA NotLess ==
  ASSUME NEW a \in Int, NEW b \in Int, NEW k \in Nat \ {0}, a * k <= b * k
  PROVE  a <= b
OBVIOUS

LEMMA Strict ==
  ASSUME NEW a \in Int, NEW b \in Int, NEW k \in Nat \ {0}, a < b
  PROVE  a * k < b * k
OBVIOUS

(* Epoch, branch by branch. *)
LEMMA EpochIs ==
  ASSUME NEW n \in Nat, n <= MaxInt, FirstSecond <= n,
         Low * Micro \in Nat, Low * Milli \in Nat, Low * Second \in Nat
  PROVE  /\ Low * Second <= n => Epoch(n) = n
         /\ Low * Milli <= n /\ n < Low * Second => Epoch(n) = n * Micro
         /\ Low * Micro <= n /\ n < Low * Milli /\ n < Low * Second => Epoch(n) = n * Milli
         /\ n < Low * Micro /\ n < Low * Milli /\ n < Low * Second => Epoch(n) = n * Second
<1> DEFINE a == Low * Second
           b == Low * Milli
           c == Low * Micro
           p == n * Micro
           q == n * Milli
           r == n * Second
<1>1. Epoch(n) = IF n > MaxInt \/ n < FirstSecond THEN NoTime
                 ELSE IF n >= a THEN n ELSE IF n >= b THEN p ELSE IF n >= c THEN q ELSE r
  BY DEF Epoch
<1>2. MaxInt \in Nat /\ FirstSecond \in Nat /\ a \in Nat /\ b \in Nat /\ c \in Nat
  BY EventTimeAssumption
<1> HIDE DEF a, b, c, p, q, r
<1>3. /\ a <= n => Epoch(n) = n
      /\ b <= n /\ n < a => Epoch(n) = p
      /\ c <= n /\ n < b /\ n < a => Epoch(n) = q
      /\ n < c /\ n < b /\ n < a => Epoch(n) = r
  BY <1>1, <1>2
<1> QED BY <1>3 DEF a, b, c, p, q, r

(* The limits of the units are multiples of one another, in this order. *)
LEMMA Limits ==
  /\ Micro \in Nat \ {0} /\ Milli \in Nat \ {0} /\ Second \in Nat \ {0}
  /\ Low * Micro \in Nat /\ Low * Milli \in Nat /\ Low * Second \in Nat
  /\ (Low * K) * Second \in Nat
  /\ Low * Micro <= Low * Milli /\ Low * Milli <= Low * Second
  /\ Low * Second = (Low * Milli) * Micro
  /\ Low * Second = (Low * Micro) * Milli
  /\ (Low * K) * Second = (Low * Second) * Micro
  /\ (Low * K) * Second = (Low * Milli) * Milli
  /\ (Low * K) * Second = (Low * Micro) * Second
<1>1. K \in Nat /\ K > 1 /\ Low \in Nat \ {0}
  BY EventTimeAssumption
<1>2. Micro \in Nat \ {0} /\ Milli \in Nat \ {0} /\ Second \in Nat \ {0}
  BY <1>1 DEF Micro, Milli, Second
<1>3. /\ Low * Micro \in Nat /\ Low * Milli \in Nat /\ Low * Second \in Nat
      /\ (Low * K) * Second \in Nat
  BY <1>1, <1>2
<1>4. Low * Micro <= Low * Milli /\ Low * Milli <= Low * Second
  <2>1. Low * Milli = (Low * Micro) * K /\ Low * Second = (Low * Milli) * K
    BY <1>1 DEF Micro, Milli, Second
  <2>2. \A a \in Nat : a <= a * K
    BY <1>1
  <2> QED BY <1>3, <2>1, <2>2
<1>5. /\ Low * Second = (Low * Milli) * Micro
      /\ Low * Second = (Low * Micro) * Milli
      /\ (Low * K) * Second = (Low * Second) * Micro
      /\ (Low * K) * Second = (Low * Milli) * Milli
      /\ (Low * K) * Second = (Low * Micro) * Second
  BY <1>1 DEF Micro, Milli, Second
<1> QED BY <1>2, <1>3, <1>4, <1>5

(* normalize.go 129-141: the magnitude of a number tells its unit.  A      *)
(* 64-bit number that, as seconds, milliseconds, microseconds or           *)
(* nanoseconds, is an instant from second Low (March 1973) up to second    *)
(* Low * K (the year 5138), is read as that instant, unless it is seconds  *)
(* before FirstSecond (September 2001).  Nanoseconds of 64 bits end in     *)
(* the year 2262; the other units reach all of that time.                  *)
THEOREM UnitsAgree ==
  ASSUME NEW n \in Nat, n <= MaxInt, FirstSecond <= n,
         NEW u \in {1, Micro, Milli, Second},
         Low * Second <= n * u, n * u < (Low * K) * Second
  PROVE  Epoch(n) = n * u
<1>1. CASE u = Second
  <2>1. n < Low * Micro
    BY <1>1, Limits, Cancel
  <2> QED BY <1>1, <2>1, Limits, EpochIs
<1>2. CASE u = Milli
  <2>1. Low * Micro <= n /\ n < Low * Milli
    BY <1>2, Limits, Cancel, NotLess
  <2> QED BY <1>2, <2>1, Limits, EpochIs
<1>3. CASE u = Micro
  <2>1. Low * Milli <= n /\ n < Low * Second
    BY <1>3, Limits, Cancel, NotLess
  <2> QED BY <1>3, <2>1, Limits, EpochIs
<1>4. CASE u = 1
  <2>1. n * u = n
    BY <1>4
  <2> QED BY <2>1, Limits, EpochIs
<1> QED BY <1>1, <1>2, <1>3, <1>4

(* The other way round: what is read is such an instant. *)
LEMMA EpochReads ==
  ASSUME NEW n \in Nat, n <= MaxInt, FirstSecond <= n
  PROVE  \E u \in {1, Micro, Milli, Second} :
            Epoch(n) = n * u /\ Low * Second <= n * u /\ n * u < (Low * K) * Second
<1>1. CASE Low * Second <= n
  <2>1. n * 1 = n
    OBVIOUS
  <2>2. Epoch(n) = n /\ n < (Low * K) * Second
    BY <1>1, Limits, EpochIs, EventTimeAssumption
  <2> QED BY <1>1, <2>1, <2>2
<1>2. CASE Low * Milli <= n /\ n < Low * Second
  <2>1. (Low * Milli) * Micro <= n * Micro /\ n * Micro < (Low * Second) * Micro
    BY <1>2, Limits, Monotone, Strict
  <2>2. Epoch(n) = n * Micro
    BY <1>2, Limits, EpochIs
  <2> QED BY <2>1, <2>2, Limits
<1>3. CASE Low * Micro <= n /\ n < Low * Milli
  <2>1. (Low * Micro) * Milli <= n * Milli /\ n * Milli < (Low * Milli) * Milli
    BY <1>3, Limits, Monotone, Strict
  <2>2. Epoch(n) = n * Milli
    BY <1>3, Limits, EpochIs
  <2> QED BY <2>1, <2>2, Limits
<1>4. CASE n < Low * Micro
  <2>1. Low * Second <= n * Second /\ n * Second < (Low * Micro) * Second
    BY <1>4, Limits, Monotone, Strict, EventTimeAssumption
  <2>2. Epoch(n) = n * Second
    BY <1>4, Limits, EpochIs
  <2> QED BY <2>1, <2>2, Limits
<1> QED BY <1>1, <1>2, <1>3, <1>4, Limits

(* normalize.go 129-141: no number, whatever it counts, is read as a date  *)
(* before second Low (March 1973): a counter, a port or a status in a time *)
(* field is no event time.                                                 *)
THEOREM NoFalseDates ==
  ASSUME NEW n \in Nat
  PROVE  Epoch(n) = NoTime \/ Low * Second <= Epoch(n)
<1>1. MaxInt \in Nat /\ FirstSecond \in Nat
  BY EventTimeAssumption
<1>2. CASE n > MaxInt \/ n < FirstSecond
  BY <1>2 DEF Epoch
<1>3. CASE n <= MaxInt /\ FirstSecond <= n
  BY <1>3, EpochReads
<1> QED BY <1>1, <1>2, <1>3
--------------------------------------------------------------------------------
(* What the service withholds is not what it was asked for, its time is    *)
(* where the kind of source has it, and what main gets is an outcome of    *)
(* the event.                                                              *)
Origin ==
  /\ source \in Configs /\ bounds \in Bounds /\ event.time \in Instants
  /\ event.given \in {event.time, Unknown}
  /\ source.type \in InFront =>
       event.line.first = Stamp(event.time) /\ event.line.syslog = NoHeader
  /\ source.type \in DOMAIN OwnField =>
       <<OwnField[source.type], Stamp(event.time)>> \in event.line.json
  /\ source.type = "oci" => bounds.since # Unknown /\ bounds.until # Unknown
  /\ stage = "withheld" => ~Asked(event.time)
  /\ stage = "normal" => entry \in Outcomes(source, event)

LEMMA OriginHolds == Spec => []Origin
<1>1. Init => Origin
  <2> SUFFICES ASSUME Init PROVE Origin
    OBVIOUS
  <2>1. PICK t \in Instants, line \in Lines : \E given \in Given(source.type, t) :
          event = [time |-> t, given |-> given, line |-> Dated(source.type, t, line)]
    BY DEF Init
  <2>2. event.time = t /\ event.given \in {t, Unknown} /\ event.line = Dated(source.type, t, line)
    BY <2>1 DEF Given
  <2>3. line = [json |-> line.json, pairs |-> line.pairs, engine |-> line.engine,
                syslog |-> line.syslog, first |-> line.first]
    BY NormalizeAssumption
  <2>4. /\ source.type \in InFront =>
             event.line.first = Stamp(t) /\ event.line.syslog = NoHeader
        /\ source.type \in DOMAIN OwnField =>
             <<OwnField[source.type], Stamp(t)>> \in event.line.json
    <3>1. CASE source.type \in DOMAIN OwnField
      <4>1. source.type \notin InFront
        BY <3>1 DEF OwnField, InFront
      <4>2. event.line = [line EXCEPT !.json = @ \cup {<<OwnField[source.type], Stamp(t)>>},
                                      !.syslog = NoHeader, !.first = <<"text", "{">>]
        BY <2>2, <3>1, <4>1 DEF Dated
      <4> QED BY <2>3, <4>1, <4>2
    <3>2. CASE source.type \in InFront
      <4>1. source.type \notin DOMAIN OwnField
        BY <3>2 DEF OwnField, InFront
      <4>2. event.line = [line EXCEPT !.json = {}, !.syslog = NoHeader, !.first = Stamp(t)]
        BY <2>2, <3>2, <4>1 DEF Dated
      <4> QED BY <2>3, <4>1, <4>2
    <3> QED BY <3>1, <3>2
  <2> QED BY <2>2, <2>4 DEF Init, Origin
<1>2. Origin /\ [Next]_vars => Origin'
  <2> SUFFICES ASSUME Origin, [Next]_vars PROVE Origin'
    OBVIOUS
  <2>1. CASE Send
    BY <2>1 DEF Send, Origin, Asked, Since, Until, HTTPBounds, AWSBounds, OCIBounds, CommandBounds
  <2>2. CASE Normalize
    BY <2>2 DEF Normalize, Origin
  <2>3. CASE UNCHANGED vars
    BY <2>3 DEF vars, Origin, Asked, Since, Until, HTTPBounds, AWSBounds, OCIBounds, CommandBounds
  <2> QED BY <2>1, <2>2, <2>3 DEF Next
<1> QED BY <1>1, <1>2, PTL DEF Spec

(* Rounding down to a unit keeps the order. *)
LEMMA Rounding ==
  ASSUME NEW a \in Nat, NEW b \in Nat, NEW d \in Nat \ {0}, a <= b
  PROVE  a \div d <= b \div d
<1> DEFINE p == a \div d
           q == b \div d
<1>1. p \in Nat /\ p * d <= a /\ q \in Nat /\ b < q * d + d
  BY Quotient
<1> HIDE DEF p, q
<1>2. q * d + d = (q + 1) * d
  BY <1>1
<1>3. p * d \in Nat /\ (q + 1) * d \in Nat /\ p * d < (q + 1) * d
  BY <1>1, <1>2
<1>4. p < q + 1
  BY <1>1, <1>3, Cancel
<1> QED BY <1>1, <1>4 DEF p, q

(* What a source is not asked for lies outside the bounds of the query, or *)
(* in the last millisecond of aws.                                         *)
LEMMA NotAsked ==
  ASSUME Origin, NEW t \in Nat \ {0}, ~Asked(t)
  PROVE  \/ ~Q!InRange(bounds, t)
         \/ source.type = "aws" /\ t \div Milli = bounds.until \div Milli
<1>1. bounds.since \in Nat /\ bounds.until \in Nat
  BY NormalizeAssumption DEF Origin
<1>2. source.type \in {"file", "ssh", "aws", "gcp", "azure", "oci", "docker",
                          "kubernetes", "https"}
  BY NormalizeAssumption DEF Origin
<1>3. Milli \in Nat \ {0}
  BY EventTimeAssumption DEF Milli
<1>4. CASE ~(Since(t) /\ Until(t))
  BY <1>1, <1>4 DEF Q!InRange, Q!Unknown, Since, Until, Unknown
<1>5. CASE source.type = "aws" /\ Since(t) /\ Until(t)
  <2>1. bounds.since # Unknown => bounds.since \div Milli <= t \div Milli
    BY <1>1, <1>3, <1>5, Rounding DEF Since
  <2>2. bounds.until # Unknown => t \div Milli <= bounds.until \div Milli
    BY <1>1, <1>3, <1>5, Rounding DEF Until
  <2>3. \A n \in Nat : n \div Milli \in Int
    BY <1>3, Quotient
  <2>4. ~AWSBounds(t)
    BY <1>5 DEF Asked, InFront
  <2> DEFINE a == t \div Milli
             b == bounds.since \div Milli
             c == bounds.until \div Milli
  <2>5. a \in Int /\ b \in Int /\ c \in Int
    BY <1>1, <2>3
  <2>6. ~((bounds.since = Unknown \/ a >= b) /\ (bounds.until = Unknown \/ a < c))
    BY <2>4 DEF AWSBounds
  <2> HIDE DEF a, b, c
  <2>7. (bounds.since # Unknown => b <= a) /\ (bounds.until # Unknown => a <= c)
    BY <2>1, <2>2 DEF a, b, c
  <2>8. a = c
    BY <2>5, <2>6, <2>7
  <2> QED BY <1>5, <2>8 DEF a, c
<1>6. CASE source.type # "aws" /\ Since(t) /\ Until(t)
  BY <1>1, <1>2, <1>6 DEF Asked, HTTPBounds, OCIBounds, CommandBounds, Since, Until, InFront, Origin
<1> QED BY <1>4, <1>5, <1>6

(* The time a reader is given is the one main works with. *)
LEMMA GivenTime ==
  ASSUME NEW s, NEW e, e.given # Unknown, NEW r \in Outcomes(s, e)
  PROVE  r.time = e.given
<1>1. Labelled(s, e.given).time = e.given
  BY DEF Labelled
<1>2. \A x : \A line : \A o \in Normalized(x, line) : x.time # Unknown => o.time = x.time
  BY DEF Normalized, Known
<1> QED BY <1>1, <1>2 DEF Outcomes

(* http.go 43-69, cloud.go 45-50 and 114-117, read.go 174-201: for all     *)
(* sources, events and bounds, what a service withholds would be dropped   *)
(* locally too, but for the last millisecond of aws and lines that         *)
(* contradict a service that gives no time beside them.                    *)
THEOREM WithheldIsOutOfRange == Spec => []NothingLostButTheBound
<1>1. Origin => NothingLostButTheBound
  <2> SUFFICES ASSUME Origin, stage = "withheld", NEW e \in Outcomes(source, event)
               PROVE  \/ ~Q!InRange(bounds, e.time)
                      \/ source.type = "aws" /\ event.time \div Milli = bounds.until \div Milli
                      \/ e.time # event.time /\ event.given = Unknown
    BY DEF NothingLostButTheBound
  <2>1. event.time \in Nat \ {0} /\ ~Asked(event.time)
    BY NormalizeAssumption DEF Origin
  <2>2. \/ ~Q!InRange(bounds, event.time)
        \/ source.type = "aws" /\ event.time \div Milli = bounds.until \div Milli
    BY <2>1, NotAsked
  <2>3. event.given # Unknown => e.time = event.time
    BY GivenTime DEF Origin
  <2> QED BY <2>2, <2>3
<1> QED BY <1>1, OriginHolds, PTL
--------------------------------------------------------------------------------
(* A label the line does not mention is a field of the entry. *)
LEMMA LabelKept ==
  ASSUME NEW s, NEW e, NEW k \in DOMAIN s.labels,
         k \notin {m[1] : m \in e.line.json}, k \notin DOMAIN e.line.pairs,
         k \notin DOMAIN e.line.engine.fields,
         NEW r \in Outcomes(s, e)
  PROVE  Get(r.fields, k) = s.labels[k]
<1> DEFINE x == Labelled(s, e.given).fields
<1>1. k \in DOMAIN x /\ x[k] = s.labels[k]
  BY DEF Labelled, Over
<1>2. PICK flat \in Flattened(e.line.json) :
        r.fields = Over(e.line.engine.fields, Over(e.line.pairs, Over(flat, x)))
  BY DEF Outcomes, Normalized
<1>3. DOMAIN flat = {m[1] : m \in e.line.json}
  BY DEF Flattened
<1> HIDE DEF x
<1>4. \A f, g : k \in DOMAIN g /\ k \notin DOMAIN f =>
        k \in DOMAIN Over(f, g) /\ Over(f, g)[k] = g[k]
  BY DEF Over
<1>5. k \in DOMAIN Over(flat, x) /\ Over(flat, x)[k] = s.labels[k]
  BY <1>1, <1>3, <1>4
<1>6. /\ k \in DOMAIN Over(e.line.pairs, Over(flat, x))
      /\ Over(e.line.pairs, Over(flat, x))[k] = s.labels[k]
  BY <1>4, <1>5
<1>7. k \in DOMAIN r.fields /\ r.fields[k] = s.labels[k]
  BY <1>2, <1>4, <1>6
<1> QED BY <1>7 DEF Get

(* The configured identity is the entry's.                                 *)
LEMMA MembersKept ==
  ASSUME NEW s, NEW e, NEW r \in Outcomes(s, e)
  PROVE  /\ r.source = s.name
         /\ r.filename = Filename(s) /\ r.line = e.line
         /\ s.host # Empty => r.host = s.host
         /\ s.service # Empty => r.service = s.service
         /\ s.container # Empty => r.container = s.container
         /\ s.cluster # Empty => r.cluster = s.cluster
<1> DEFINE x == Labelled(s, e.given)
<1>1. /\ x.source = s.name /\ x.host = s.host /\ x.service = s.service
      /\ x.container = s.container /\ x.cluster = s.cluster /\ x.filename = Filename(s)
  BY DEF Labelled
<1> HIDE DEF x
<1>2. r \in Normalized(x, e.line)
  BY DEF Outcomes, x
<1>3. \A v, w : v # Empty => Or(v, w) = v
  BY DEF Or
<1>4. /\ r.source = x.source /\ r.filename = x.filename /\ r.line = e.line
      /\ \E f : r.host = Or(Or(x.host, f), Header(e.line.syslog.host))
      /\ \E f : r.service = Or(Or(x.service, f), Header(e.line.syslog.service))
      /\ \E f : r.container = Or(x.container, f)
      /\ \E f : r.cluster = Or(x.cluster, f)
  BY <1>2 DEF Normalized
<1> QED BY <1>1, <1>3, <1>4

(* read.go 24-41, normalize.go 56-87 and 143-163: for all sources and      *)
(* lines the conditions of a query read the identity the source is         *)
(* configured with, the file, the line as it was, and every label that no  *)
(* field of the line replaces and no member of the entry hides.            *)
THEOREM IdentityIsKept == Spec => []IdentityKept
<1>1. Origin => IdentityKept
  <2> SUFFICES ASSUME Origin, stage = "normal" PROVE IdentityKept
    BY DEF IdentityKept
  <2>1. entry \in Outcomes(source, event)
    BY DEF Origin
  <2>2. /\ Field(entry, "source") = source.name
        /\ Field(entry, "filename") = Filename(source)
        /\ Field(entry, "line") = event.line
    BY <2>1, MembersKept DEF Field, Members
  <2>3. ASSUME NEW k \in {"host", "service", "container", "cluster"}, source[k] # Empty
        PROVE  Field(entry, k) = source[k]
    <3>1. Field(entry, k) = entry[k]
      BY <2>3 DEF Field, Members
    <3> QED BY <2>1, <2>3, <3>1, MembersKept
  <2>4. ASSUME NEW k \in DOMAIN source.labels \ (Members \cup {"app_id"}), Written(k) = {}
        PROVE  Field(entry, k) = source.labels[k]
    <3>1. /\ k \notin {m[1] : m \in event.line.json} /\ k \notin DOMAIN event.line.pairs
          /\ k \notin DOMAIN event.line.engine.fields
      BY <2>4 DEF Written
    <3>2. Get(entry.fields, k) = source.labels[k]
      BY <2>1, <2>4, <3>1, LabelKept
    <3> QED BY <2>4, <3>2 DEF Field
  <2> QED BY <2>2, <2>3, <2>4 DEF IdentityKept
<1> QED BY <1>1, OriginHolds, PTL
--------------------------------------------------------------------------------
(* The texts main gets to see state what they say, or nothing.             *)
Worded == \A v \in Texts(event.line) \cup Labels(source) : IsText(v)

LEMMA DatedTexts ==
  ASSUME NEW type, NEW t \in Instants, NEW line \in Lines
  PROVE  \A v \in Texts(Dated(type, t, line)) : IsText(v)
<1> DEFINE o == Dated(type, t, line)
           member == <<OwnField[type], Stamp(t)>>
           brace == <<"text", "{">>
<1>1. /\ line = [json |-> line.json, pairs |-> line.pairs, engine |-> line.engine,
                 syslog |-> line.syslog, first |-> line.first]
      /\ \A v \in Texts(line) : IsText(v)
  BY NormalizeAssumption
<1>2. IsText(Stamp(t)) /\ IsText(brace) /\ IsText(Empty)
  <2>1. t \in Int \ {NoTime}
    BY NormalizeAssumption DEF NoTime
  <2> QED BY <2>1 DEF IsText, Empty, Stamp
<1>3. NoHeader.time = Empty
  BY DEF NoHeader
<1>4. \/ /\ o.json = line.json \cup {member} /\ o.pairs = line.pairs
         /\ o.engine = line.engine /\ o.syslog = NoHeader /\ o.first = brace
      \/ /\ o.json = {} /\ o.pairs = line.pairs
         /\ o.engine = line.engine /\ o.syslog = NoHeader /\ o.first = Stamp(t)
      \/ o = line
  <2>1. CASE type \in DOMAIN OwnField
    <3>1. o = [line EXCEPT !.json = @ \cup {member}, !.syslog = NoHeader, !.first = brace]
      <4>1. type \notin InFront
        BY <2>1 DEF OwnField, InFront
      <4> QED BY <2>1, <4>1 DEF Dated
    <3> QED BY <1>1, <3>1
  <2>2. CASE type \notin DOMAIN OwnField /\ type \in InFront
    <3>1. o = [line EXCEPT !.json = {}, !.syslog = NoHeader, !.first = Stamp(t)]
      BY <2>2 DEF Dated
    <3> QED BY <1>1, <3>1
  <2>3. CASE type \notin DOMAIN OwnField /\ type \notin InFront
    BY <2>3 DEF Dated
  <2> QED BY <2>1, <2>2, <2>3
<1>5. member[2] = Stamp(t)
  OBVIOUS
<1> HIDE DEF o, member, brace
<1>6. \A m \in o.json : m = member \/ m \in line.json
  BY <1>4
<1>7. \A v \in Texts(o) : v \in {Stamp(t), brace, Empty} \/ v \in Texts(line)
  BY <1>3, <1>4, <1>5, <1>6 DEF Texts
<1> QED BY <1>1, <1>2, <1>7 DEF o

LEMMA WordedHolds == Spec => []Worded
<1>1. Init => Worded
  <2> SUFFICES ASSUME Init PROVE Worded
    OBVIOUS
  <2>1. PICK t \in Instants, line \in Lines : event.line = Dated(source.type, t, line)
    BY DEF Init
  <2>2. \A v \in Labels(source) : IsText(v)
    BY NormalizeAssumption DEF Init
  <2> QED BY <2>1, <2>2, DatedTexts DEF Worded
<1>2. Worded /\ [Next]_vars => Worded'
  BY DEF Next, Send, Normalize, vars, Worded, Labels
<1> QED BY <1>1, <1>2, PTL DEF Spec

(* A text states the instant EventTime reads in it and no other. *)
LEMMA StatedIsRead ==
  ASSUME NEW v, IsText(v)
  PROVE  Stated(v) = {EventTime(v)} \ {NoTime}
<1>1. CASE v[1] = "rfc3339"
  BY <1>1 DEF EventTime, Stated, IsText
<1>2. CASE v[1] = "number" /\ v[2] \in FirstSecond..MaxInt
  <2> DEFINE n == v[2]
             Units == {1, Micro, Milli, Second}
             Within(t) == Low * Second <= t /\ t < (Low * K) * Second
  <2>1. n \in Nat /\ n <= MaxInt /\ FirstSecond <= n /\ EventTime(v) = Epoch(n)
    BY <1>2, EventTimeAssumption DEF EventTime
  <2>2. Stated(v) = {t \in {n * u : u \in Units} : Within(t)}
    BY <1>2 DEF Stated
  <2> HIDE DEF n
  <2>3. \A u \in Units : Within(n * u) => Epoch(n) = n * u
    BY <2>1, UnitsAgree
  <2>4. \E u \in Units : Epoch(n) = n * u /\ Within(n * u)
    BY <2>1, EpochReads
  <2>5. Epoch(n) # NoTime
    <3>1. PICK u \in Units : Epoch(n) = n * u /\ Within(n * u)
      BY <2>4
    <3>2. n * u \in Nat /\ Low * Second \in Nat
      BY <2>1, Limits
    <3> QED BY <3>1, <3>2 DEF NoTime
  <2> HIDE DEF Units, Within
  <2>6. {t \in {n * u : u \in Units} : Within(t)} = {Epoch(n)}
    BY <2>3, <2>4
  <2> QED BY <2>1, <2>2, <2>5, <2>6
<1>3. CASE v[1] = "number" /\ v[2] \notin FirstSecond..MaxInt
  <2>1. v[2] \in Int /\ EventTime(v) = Epoch(v[2]) /\ Stated(v) = {}
    BY <1>3 DEF EventTime, Stated, IsText
  <2>2. Epoch(v[2]) = NoTime
    BY <1>3, <2>1, EventTimeAssumption DEF Epoch
  <2> QED BY <2>1, <2>2
<1>4. CASE v[1] # "rfc3339" /\ v[1] # "number"
  BY <1>4 DEF EventTime, Stated
<1> QED BY <1>1, <1>2, <1>3, <1>4

(* The time found among fields is what the first of them that states one   *)
(* does, or none.                                                          *)
LEMMA FieldTimeIsFirst ==
  ASSUME NEW f
  PROVE  \/ /\ FieldTime(f) = Unknown
            /\ \A i \in DOMAIN TimeKeys : EventTime(Get(f, TimeKeys[i])) = NoTime
         \/ \E k \in DOMAIN TimeKeys :
              /\ EventTime(Get(f, TimeKeys[k])) # NoTime
              /\ FieldTime(f) = EventTime(Get(f, TimeKeys[k]))
              /\ \A i \in DOMAIN TimeKeys : i < k => EventTime(Get(f, TimeKeys[i])) = NoTime
<1> DEFINE Found(i) == EventTime(Get(f, TimeKeys[i])) # NoTime
           I == {i \in 1..Len(TimeKeys) : Found(i)}
           k == Min(I)
           j == SelectInSeq(TimeKeys, LAMBDA n : EventTime(Get(f, n)) # NoTime)
<1>1. j = IF I # {} THEN k ELSE 0
  BY DEF SelectInSeq
<1>2. FieldTime(f) = IF j = 0 THEN Unknown ELSE EventTime(Get(f, TimeKeys[j]))
  BY DEF FieldTime
<1>3. DOMAIN TimeKeys = 1..9 /\ Len(TimeKeys) = 9
  BY DEF TimeKeys
<1> HIDE DEF j, Found
<1>4. CASE I = {}
  <2>1. FieldTime(f) = Unknown /\ \A i \in DOMAIN TimeKeys : ~Found(i)
    BY <1>1, <1>2, <1>3, <1>4
  <2> QED BY <2>1 DEF Found
<1>5. CASE I # {}
  <2>1. I \subseteq Nat
    BY <1>3
  <2>2. \E m \in I : \A y \in I : m <= y
    BY <1>5, <2>1, LeastNumber
  <2>3. k \in I /\ \A y \in I : k <= y
    <3> HIDE DEF I
    <3> QED BY <2>2 DEF Min
  <2>4. j = k
    BY <1>1, <1>5
  <2> HIDE DEF k
  <2>5. k \in 1..9 /\ Found(k) /\ \A i \in 1..9 : i < k => ~Found(i)
    BY <1>3, <2>3
  <2>6. FieldTime(f) = EventTime(Get(f, TimeKeys[k]))
    BY <1>2, <2>4, <2>5
  <2> QED BY <1>3, <2>5, <2>6 DEF Found
<1> QED BY <1>4, <1>5

(* The fields of the event's entry, by where they come from. *)
Merged(flat) ==
  Over(event.line.engine.fields,
       Over(event.line.pairs, Over(flat, Labelled(source, event.given).fields)))

(* A field of an entry is what the line says under its name, if anything,  *)
(* else the label or the identifier of aws that has the name.              *)
LEMMA FieldOrigin ==
  ASSUME NEW flat \in Flattened(event.line.json), NEW k
  PROVE  /\ k \in DOMAIN Merged(flat) =>
              Merged(flat)[k] \in Written(k)
                                  \cup {source.labels[n] : n \in {k} \cap DOMAIN source.labels}
                                  \cup {LogStream.log_stream, LogStream.event_id}
         /\ Written(k) # {} => k \in DOMAIN Merged(flat) /\ Merged(flat)[k] \in Written(k)
<1> DEFINE eng   == event.line.engine.fields
           pairs == event.line.pairs
           json  == event.line.json
           own   == IF source.type = "aws" THEN LogStream ELSE << >>
           lab   == Labelled(source, event.given).fields
           W == Written(k)
<1>1. W = {m[2] : m \in {x \in json : x[1] = k}} \cup {pairs[n] : n \in {k} \cap DOMAIN pairs}
          \cup {eng[n] : n \in {k} \cap DOMAIN eng}
  BY DEF Written
<1>2. lab = Over(source.labels, own)
  BY DEF Labelled
<1>3. \A n \in DOMAIN own : own[n] \in {LogStream.log_stream, LogStream.event_id}
  BY DEF LogStream
<1>4. /\ DOMAIN flat = {m[1] : m \in json}
      /\ k \in DOMAIN flat => <<k, flat[k]>> \in json
  BY DEF Flattened
<1>5. Merged(flat) = Over(eng, Over(pairs, Over(flat, lab)))
  BY DEF Merged
<1> HIDE DEF eng, pairs, json, own, lab, W
<1>6. \A f, g : /\ k \in DOMAIN Over(f, g) <=> k \in DOMAIN f \/ k \in DOMAIN g
                /\ k \in DOMAIN f => Over(f, g)[k] = f[k]
                /\ k \in DOMAIN g /\ k \notin DOMAIN f => Over(f, g)[k] = g[k]
  BY DEF Over
<1>7. k \in DOMAIN lab =>
        lab[k] \in {source.labels[n] : n \in {k} \cap DOMAIN source.labels}
                   \cup {LogStream.log_stream, LogStream.event_id}
  BY <1>2, <1>3, <1>6
<1>8. /\ k \in DOMAIN eng => eng[k] \in W
      /\ k \in DOMAIN pairs => pairs[k] \in W
  BY <1>1
<1>9. k \in DOMAIN flat => flat[k] \in W
  <2> SUFFICES ASSUME k \in DOMAIN flat PROVE flat[k] \in W
    OBVIOUS
  <2> DEFINE m == <<k, flat[k]>>
  <2>1. m \in json /\ m[1] = k /\ m[2] = flat[k]
    BY <1>4
  <2> HIDE DEF m
  <2> QED BY <1>1, <2>1
<1>10. W # {} => k \in DOMAIN eng \/ k \in DOMAIN pairs \/ k \in DOMAIN flat
  BY <1>1, <1>4
<1>11. k \in DOMAIN Merged(flat) <=>
         k \in DOMAIN eng \/ k \in DOMAIN pairs \/ k \in DOMAIN flat \/ k \in DOMAIN lab
  BY <1>5, <1>6
<1>12. \/ k \in DOMAIN eng /\ Merged(flat)[k] = eng[k]
       \/ k \in DOMAIN pairs /\ Merged(flat)[k] = pairs[k]
       \/ k \in DOMAIN flat /\ Merged(flat)[k] = flat[k]
       \/ /\ k \notin DOMAIN eng /\ k \notin DOMAIN pairs /\ k \notin DOMAIN flat
          /\ k \in DOMAIN lab => Merged(flat)[k] = lab[k]
  <2>1. CASE k \in DOMAIN eng
    BY <1>5, <1>6, <2>1
  <2>2. CASE k \notin DOMAIN eng /\ k \in DOMAIN pairs
    BY <1>5, <1>6, <2>2
  <2>3. CASE k \notin DOMAIN eng /\ k \notin DOMAIN pairs
    BY <1>5, <1>6, <2>3
  <2> QED BY <2>1, <2>2, <2>3
<1>13. W = Written(k)
  BY DEF W
<1> QED BY <1>7, <1>8, <1>9, <1>10, <1>11, <1>12, <1>13

(* Where an entry has its time from if the reader was given none. *)
LEMMA TimeOrigin ==
  ASSUME Origin, stage = "normal", event.given = Unknown
  PROVE  \E flat \in Flattened(event.line.json) :
           entry.time = Known(Known(FieldTime(Merged(flat)), event.line.syslog.time),
                              event.line.first)
<1> DEFINE r == Labelled(source, event.given)
<1>1. r.time = Unknown
  BY DEF Labelled
<1>2. entry \in Normalized(r, event.line)
  BY DEF Origin, Outcomes
<1> HIDE DEF r
<1>3. \E flat \in Flattened(event.line.json) :
        entry.time =
          Known(Known(FieldTime(Over(event.line.engine.fields,
                                     Over(event.line.pairs, Over(flat, r.fields)))),
                      event.line.syslog.time), event.line.first)
  BY <1>1, <1>2 DEF Normalized
<1> QED BY <1>3 DEF Merged, r

(* A time field that main finds a time in says so in the line or a label.  *)
LEMMA FoundIsSaid ==
  ASSUME NEW flat \in Flattened(event.line.json), NEW k, EventTime(Get(Merged(flat), k)) # NoTime
  PROVE  /\ k \in DOMAIN Merged(flat)
         /\ Merged(flat)[k] \in Written(k)
                                \cup {source.labels[n] : n \in {k} \cap DOMAIN source.labels}
         /\ Says(k)
<1>1. EventTime(Empty) = NoTime
  BY DEF EventTime, Empty
<1>2. \A v \in {LogStream.log_stream, LogStream.event_id} : EventTime(v) = NoTime
  BY DEF LogStream, EventTime
<1>3. k \in DOMAIN Merged(flat) /\ EventTime(Merged(flat)[k]) # NoTime
  BY <1>1 DEF Get
<1>4. Merged(flat)[k] \in Written(k)
                          \cup {source.labels[n] : n \in {k} \cap DOMAIN source.labels}
                          \cup {LogStream.log_stream, LogStream.event_id}
  BY <1>3, FieldOrigin
<1> QED BY <1>2, <1>3, <1>4 DEF Says

(* normalize.go 15-16 and 71-142, README.md 79-82: for all sources and     *)
(* lines a time no reader was given is one that a text of the line or a    *)
(* label states, read in its unit, and none is missed in a syslog header   *)
(* or a first word.                                                        *)
THEOREM TimesAreStated == Spec => []TimeAsStated
<1>1. Origin /\ Worded => TimeAsStated
  <2> SUFFICES ASSUME Origin, Worded, stage = "normal" PROVE TimeAsStated
    BY DEF TimeAsStated
  <2>1. CASE event.given # Unknown
    <3>1. entry.time = event.given
      BY <2>1, GivenTime DEF Origin
    <3> QED BY <2>1, <3>1 DEF TimeAsStated
  <2>2. CASE event.given = Unknown
    <3> DEFINE texts == Texts(event.line) \cup Labels(source)
               all == UNION {Stated(v) : v \in texts}
    <3>1. \A v \in texts : Stated(v) = {EventTime(v)} \ {NoTime}
      BY StatedIsRead DEF Worded
    <3>2. \A v \in texts : EventTime(v) # NoTime => EventTime(v) \in all
      BY <3>1
    <3>3. PICK flat \in Flattened(event.line.json) :
            entry.time = Known(Known(FieldTime(Merged(flat)), event.line.syslog.time),
                               event.line.first)
      BY <2>2, TimeOrigin
    <3>4. event.line.syslog.time \in texts /\ event.line.first \in texts
      BY DEF Texts
    <3>5. \A k : Written(k) \cup {source.labels[n] : n \in {k} \cap DOMAIN source.labels}
                 \subseteq texts
      BY DEF Written, Texts, Labels
    <3> DEFINE t == FieldTime(Merged(flat))
    <3>6. t # Unknown => t \in all
      <4> SUFFICES ASSUME t # Unknown PROVE t \in all
        OBVIOUS
      <4>1. PICK i \in DOMAIN TimeKeys : /\ EventTime(Get(Merged(flat), TimeKeys[i])) # NoTime
                                         /\ t = EventTime(Get(Merged(flat), TimeKeys[i]))
        BY FieldTimeIsFirst
      <4> DEFINE k == TimeKeys[i]
      <4> HIDE DEF k, texts, all
      <4>2. k \in DOMAIN Merged(flat) /\ Merged(flat)[k] \in texts
        BY <3>5, <4>1, FoundIsSaid DEF k
      <4> QED BY <3>2, <4>1, <4>2 DEF Get, k
    <3> HIDE DEF texts, all, t
    <3>7. \A s, v : v \in texts /\ (s # Unknown => s \in all) =>
                      (Known(s, v) # Unknown => Known(s, v) \in all)
      BY <3>2 DEF Known
    <3>8. \A s, v : Known(s, v) = Unknown => s = Unknown /\ EventTime(v) \in {NoTime, Unknown}
      BY DEF Known
    <3>9. entry.time = Known(Known(t, event.line.syslog.time), event.line.first)
      BY <3>3 DEF t
    <3>10. entry.time # Unknown => entry.time \in all
      BY <3>4, <3>6, <3>7, <3>9
    <3>11. entry.time = Unknown =>
             \A v \in {event.line.syslog.time, event.line.first} : Stated(v) \subseteq {Unknown}
      <4> SUFFICES ASSUME entry.time = Unknown,
                          NEW v \in {event.line.syslog.time, event.line.first}
                   PROVE  Stated(v) \subseteq {Unknown}
        OBVIOUS
      <4>1. Known(t, event.line.syslog.time) = Unknown
        BY <3>8, <3>9
      <4>2. EventTime(v) \in {NoTime, Unknown}
        BY <3>8, <3>9, <4>1
      <4>3. v \in texts
        BY <3>4
      <4> QED BY <3>1, <4>2, <4>3
    <3> QED BY <3>10, <3>11 DEF TimeAsStated, all, texts
  <2> QED BY <2>1, <2>2
<1> QED BY <1>1, OriginHolds, WordedHolds, PTL

(* normalize.go 71-101, cloud.go 60-62, README.md 79-82: for all sources   *)
(* and lines the time of a service that dates its events yields to nothing *)
(* if it is given beside the line, to a field of its own name or an        *)
(* earlier time field if it is a member of the record, and to a time field *)
(* if it is printed in front of the line.                                  *)
THEOREM ServiceIsBelieved == Spec => []ServiceBelieved
<1>1. Origin => ServiceBelieved
  <2> SUFFICES ASSUME Origin, stage = "normal", entry.time # event.time
               PROVE  /\ event.given = Unknown
                      /\ source.type \in InFront => \E i \in DOMAIN TimeKeys : Says(TimeKeys[i])
                      /\ source.type \in DOMAIN OwnField =>
                           \/ Written(OwnField[source.type]) # {Stamp(event.time)}
                           \/ \E i, j \in DOMAIN TimeKeys :
                                /\ i < j /\ TimeKeys[j] = OwnField[source.type]
                                /\ Says(TimeKeys[i])
    BY DEF ServiceBelieved
  <2>1. event.given = Unknown
    BY GivenTime DEF Origin
  <2>2. PICK flat \in Flattened(event.line.json) :
          entry.time = Known(Known(FieldTime(Merged(flat)), event.line.syslog.time),
                             event.line.first)
    BY <2>1, TimeOrigin
  <2>3. event.time \in Nat \ {0} /\ EventTime(Stamp(event.time)) = event.time
    BY NormalizeAssumption DEF Origin, EventTime, Stamp
  <2>4. event.time # NoTime /\ event.time # Unknown
    BY <2>3 DEF NoTime, Unknown
  <2>5. ASSUME source.type \in InFront, \A i \in DOMAIN TimeKeys : ~Says(TimeKeys[i])
        PROVE  FALSE
    <3>1. FieldTime(Merged(flat)) = Unknown
      BY <2>5, FieldTimeIsFirst, FoundIsSaid
    <3>2. event.line.first = Stamp(event.time) /\ event.line.syslog.time = Empty
      BY <2>5 DEF Origin, NoHeader
    <3>3. EventTime(Empty) = NoTime
      BY DEF EventTime, Empty
    <3>4. entry.time = event.time
      BY <2>2, <2>3, <2>4, <3>1, <3>2, <3>3 DEF Known
    <3> QED BY <3>4
  <2>6. ASSUME source.type \in DOMAIN OwnField,
               Written(OwnField[source.type]) = {Stamp(event.time)},
               \A i, j \in DOMAIN TimeKeys :
                 i < j /\ TimeKeys[j] = OwnField[source.type] => ~Says(TimeKeys[i])
        PROVE  FALSE
    <3> DEFINE own == OwnField[source.type]
               f == Merged(flat)
    <3>1. PICK j \in DOMAIN TimeKeys : TimeKeys[j] = own
      <4>1. own \in {"timestamp", "TimeGenerated", "logContent.time"}
        BY <2>6 DEF OwnField
      <4>2. /\ DOMAIN TimeKeys = 1..9 /\ TimeKeys[1] = "timestamp"
            /\ TimeKeys[5] = "TimeGenerated" /\ TimeKeys[8] = "logContent.time"
        BY DEF TimeKeys
      <4> HIDE DEF own
      <4> QED BY <4>1, <4>2
    <3> HIDE DEF own
    <3>2. own \in DOMAIN f /\ f[own] = Stamp(event.time)
      <4>1. Written(own) = {Stamp(event.time)}
        BY <2>6 DEF own
      <4> QED BY <4>1, FieldOrigin
    <3>3. EventTime(Get(f, own)) = event.time
      BY <2>3, <3>2 DEF Get
    <3> HIDE DEF f
    <3>4. \A i \in DOMAIN TimeKeys : i < j => EventTime(Get(f, TimeKeys[i])) = NoTime
      BY <2>6, <3>1, FoundIsSaid DEF own, f
    <3>5. PICK k \in DOMAIN TimeKeys :
            /\ EventTime(Get(f, TimeKeys[k])) # NoTime
            /\ FieldTime(f) = EventTime(Get(f, TimeKeys[k]))
            /\ \A i \in DOMAIN TimeKeys : i < k => EventTime(Get(f, TimeKeys[i])) = NoTime
      BY <2>4, <3>1, <3>3, FieldTimeIsFirst
    <3>6. DOMAIN TimeKeys = 1..9
      BY DEF TimeKeys
    <3>7. k = j
      <4>1. k \in 1..9 /\ j \in 1..9
        BY <3>6
      <4>2. ~(k < j) /\ ~(j < k)
        BY <2>4, <3>1, <3>3, <3>4, <3>5
      <4> QED BY <4>1, <4>2
    <3>8. FieldTime(f) = event.time
      BY <3>1, <3>3, <3>5, <3>7
    <3>9. entry.time = event.time
      BY <2>2, <2>4, <3>8 DEF Known, f
    <3> QED BY <3>9
  <2> QED BY <2>1, <2>5, <2>6
<1> QED BY <1>1, OriginHolds, PTL
================================================================================
