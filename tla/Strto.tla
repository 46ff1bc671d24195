-------------------------------- MODULE Strto --------------------------------
(***************************************************************************)
(* src/demo/utils.h: Utils::strto, by which the commands of the demo read  *)
(* the numbers a client typed.  A string is a record: what is left of it   *)
(* by trim() is empty, a number, or anything else that may begin with one; *)
(* value is that number, however many digits it has.  An integer type is   *)
(* the record of its limits.  What is thrown is a result.                  *)
(***************************************************************************)
EXTENDS Integers

CONSTANTS
  Half,        \* 2^63, half of what a long long can tell apart
  DoubleRange  \* the numbers strtod reads without ERANGE, infinite ones included

String == [trimmed : {"empty", "number", "other"}, value : Int]

\* The types with a sign and without one that a long long can hold.
Signed   == {t \in [min : Int, max : Int] : -Half <= t.min /\ t.min < 0 /\ 0 <= t.max /\ t.max < Half}
Unsigned == {t \in [min : {0}, max : Nat] : t.max < 2 * Half}

\* std::strtoll and std::strtoull: the value, and whether errno is ERANGE.  The
\* second negates what has a minus sign, modulo 2^64, and finds that in range.
strtoll(v) ==
  IF v < -Half THEN [value |-> -Half, erange |-> TRUE]
  ELSE IF v >= Half THEN [value |-> Half - 1, erange |-> TRUE]
  ELSE [value |-> v, erange |-> FALSE]

strtoull(v) ==
  IF v <= -2 * Half \/ v >= 2 * Half THEN [value |-> 2 * Half - 1, erange |-> TRUE]
  ELSE IF v < 0 THEN [value |-> v + 2 * Half, erange |-> FALSE]
  ELSE [value |-> v, erange |-> FALSE]

Throws(exception) == [returns |-> FALSE, value |-> exception]
Returns(v)        == [returns |-> TRUE, value |-> v]

Parsed(t, str) == IF t.min < 0 THEN strtoll(str.value) ELSE strtoull(str.value)

\* strto<T>() of an integer type t.
strto(t, str) ==
  IF str.trimmed # "number" THEN Throws("invalid_argument")
  ELSE IF Parsed(t, str).erange \/ Parsed(t, str).value < t.min \/ Parsed(t, str).value > t.max
  THEN Throws("out_of_range")
  ELSE Returns(Parsed(t, str).value)

\* What errno is afterwards.
strto_errno(errno, t, str) ==
  IF str.trimmed = "empty" THEN errno ELSE IF Parsed(t, str).erange THEN "ERANGE" ELSE "0"

\* strto<T>() of a floating type with largest number max, called with errno:
\* strtod sets errno, and nothing clears it before.  (NaN is left out.)
strto_float(errno, max, str) ==
  IF str.trimmed # "number" THEN Throws("invalid_argument")
  ELSE IF errno = "ERANGE" \/ str.value \notin DoubleRange THEN Throws("out_of_range")
  ELSE Returns(IF str.value < -max THEN "-infinity"
               ELSE IF str.value > max THEN "infinity" ELSE str.value)

\* strto<bool>(), of what is left after trim() and tolower().
strto_bool(word) ==
  IF word \in {"true", "1"} THEN Returns(TRUE)
  ELSE IF word \in {"false", "0"} THEN Returns(FALSE)
  ELSE Throws("invalid_argument")
=============================================================================
