-------------------------------- MODULE Deadline --------------------------------
(***************************************************************************)
(* Deadline: a point in time, here how far away it is: never to come,      *)
(* ahead, near (less than the millisecond the remaining time is rounded    *)
(* down to, or exactly now), or past.                                      *)
(***************************************************************************)
EXTENDS Integers

INFINITE_TIMEOUT == -1

Distances == {"never", "ahead", "near", "past"}

\* A timeout of 0 ends now, and now is not yet past; a negative timeout other
\* than INFINITE_TIMEOUT has ended before it began.
DeadlineOf(timeoutMs) ==
  CASE timeoutMs = INFINITE_TIMEOUT -> "never"
    [] timeoutMs > 0                -> "ahead"
    [] timeoutMs = 0                -> "near"
    [] OTHER                        -> "past"

\* Variant: the test compares in the wrong direction until the end of time.
NeverExpires(d) == FALSE

isExpired(d) == d = "past"

\* Variant: the remaining time is not clamped, and a negative one has no end.
RemainingUnclamped(d) ==
  CASE d = "ahead" -> "finite"
    [] d = "near"  -> "zero"
    [] OTHER       -> "infinite"

getRemainingTimeMs(d) ==
  CASE d = "never" -> "infinite"
    [] d = "ahead" -> "finite"
    [] OTHER       -> "zero"

\* Time goes by.
Nearer(d) == CASE d = "ahead" -> "near" [] d = "near" -> "past" [] OTHER -> d
=============================================================================
