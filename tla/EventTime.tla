------------------------------- MODULE EventTime -------------------------------
(***************************************************************************)
(* parsers.EventTime: the instant a field of a log states.  Loggers write  *)
(* Unix times in seconds, milliseconds, microseconds or nanoseconds; the   *)
(* code tells them apart by their magnitude alone.  Instants are counted   *)
(* in nanoseconds.  The code has K = 1000, Low = 10^8 (March 1973),        *)
(* FirstSecond = 10^9 (September 2001) and MaxInt = 2^63 - 1.              *)
(***************************************************************************)
EXTENDS Integers

CONSTANTS
  K,            \* how many of a unit make the next coarser one
  Low,          \* seconds: from here on milli-, micro- and nanoseconds count
  FirstSecond,  \* the least number taken for seconds
  MaxInt        \* the greatest 64-bit integer

Micro  == K
Milli  == K * K
Second == K * K * K

(* 64 bits of nanoseconds end (in 2262) before second Low * K (in 5138).   *)
ASSUME EventTimeAssumption ==
  /\ K \in Nat /\ K > 1 /\ Low \in Nat \ {0}
  /\ FirstSecond \in Nat /\ Low <= FirstSecond /\ FirstSecond <= Low * K
  /\ MaxInt \in Nat /\ MaxInt < (Low * K) * Second

Unknown == 0    \* the zero time.Time
NoTime  == -1   \* the field states no time

(* Here and below a definition named Mutant... is a plausible bug in the    *)
(* definition that follows it: no specification uses it; replacing the      *)
(* definition by it must violate a property.                                *)
MutantEpoch(n) ==
  IF n > MaxInt \/ n < FirstSecond THEN NoTime
  ELSE IF n >= Low * Second THEN n
  ELSE IF n > Low * Milli   THEN n * Micro
  ELSE IF n >= Low * Micro  THEN n * Milli
  ELSE n * Second

(* What a decimal number says.  One that does not fit 64 bits, or is too   *)
(* small to be a date, says nothing.                                       *)
Epoch(n) ==
  IF n > MaxInt \/ n < FirstSecond THEN NoTime
  ELSE IF n >= Low * Second THEN n
  ELSE IF n >= Low * Milli  THEN n * Micro
  ELSE IF n >= Low * Micro  THEN n * Milli
  ELSE n * Second

(* A field is <<"rfc3339", instant>>, <<"number", n>> or <<"text", _>>. *)
EventTime(v) ==
  CASE v[1] = "rfc3339" -> v[2]
    [] v[1] = "number"  -> Epoch(v[2])
    [] OTHER            -> NoTime
================================================================================
