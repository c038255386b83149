------------------------------- MODULE Millis -------------------------------
(***************************************************************************)
(* The uint32_t millisecond clock every timeout of the firmware reads      *)
(* (Arduino millis(), injected as MillisFn).  W is the number of values    *)
(* the counter has, 2^32 on the Teensy; a run gives it a small even value  *)
(* so that the wrap happens within reach.                                  *)
(***************************************************************************)
EXTENDS Integers

CONSTANT W  \* values of the clock: 2^32 for uint32_t

ASSUME ClockAssumption == W \in Nat /\ W >= 2

VARIABLE now  \* what millis() returns

Stamp == 0 .. W - 1

(* Unsigned subtraction of two stamps: t - then modulo W.                  **)
ElapsedSaturating(t, then) == IF t >= then THEN t - then ELSE 0  \* mutant
Elapsed(t, then) == IF t >= then THEN t - then ELSE t + W - then

(* The stamp d milliseconds after t, for 0 <= d <= W.                      *)
AdvanceWide(t, d) == t + d  \* mutant: a clock that does not wrap
Advance(t, d) == IF t + d < W THEN t + d ELSE t + d - W

(* static_cast<int32_t> of an unsigned difference: two's complement.       *)
AsSigned(x) == IF 2 * x < W THEN x ELSE x - W
=============================================================================
