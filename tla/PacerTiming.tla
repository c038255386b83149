---------------------------- MODULE PacerTiming -----------------------------
(***************************************************************************)
(* TelemetryPacer polled by a loop that may stall, with the history that   *)
(* says how often cycles really are sent.                                  *)
(***************************************************************************)
EXTENDS TelemetryPacer

CONSTANT MaxStall  \* environment: longest time between two polls

(* The signed difference in telemetryDue() is meaningful only while a      *)
(* stall stays well below half the range of the clock; the hardware        *)
(* watchdog resets the board after 1 s, which is far below 2^31 ms.        *)
ASSUME StallAssumption ==
  MaxStall \in Nat \ {0} /\ 2 * (2 * Period + MaxStall) < W

VARIABLES
  since_poll,  \* true ms since telemetryDue() was called
  since_due,   \* true ms since it last answered true
  bucket,      \* Period per cycle sent, leaking one per ms
  phase,       \* true ms since boot, modulo Period
  steady       \* no stall since boot was longer than a period

vars == <<now, next_telemetry_ms_, telemetry_seq_, since_poll, since_due,
          bucket, phase, steady>>

TypeOK ==
  /\ now \in Stamp
  /\ next_telemetry_ms_ \in Stamp
  /\ telemetry_seq_ \in 0 .. TelemetrySeqMod - 1
  /\ since_poll \in 0 .. MaxStall
  /\ since_due \in Nat
  /\ bucket \in Nat
  /\ phase \in 0 .. Period - 1
  /\ steady \in BOOLEAN

(* The board may boot at any value of the clock: a test harness does.      *)
Init ==
  /\ now \in Stamp
  /\ BootPacer
  /\ since_poll = 0
  /\ since_due = 0
  /\ bucket = 0
  /\ phase = 0
  /\ steady = TRUE

SkipCycle ==
  /\ PollEarly
  /\ since_poll' = 0
  /\ UNCHANGED <<since_due, bucket, phase, steady>>

SendCycle ==
  /\ PollDue
  /\ since_poll' = 0
  /\ since_due' = 0
  /\ bucket' = bucket + Period
  /\ UNCHANGED <<phase, steady>>

(* A millisecond passes; the loop is never stuck for more than MaxStall.   *)
Tick ==
  /\ since_poll < MaxStall
  /\ now' = Advance(now, 1)
  /\ since_poll' = since_poll + 1
  /\ since_due' = since_due + 1
  /\ bucket' = IF bucket = 0 THEN 0 ELSE bucket - 1
  /\ phase' = IF phase = Period - 1 THEN 0 ELSE phase + 1
  /\ steady' = (steady /\ since_poll' <= Period)
  /\ UNCHANGED <<next_telemetry_ms_, telemetry_seq_>>

Next == Tick \/ SkipCycle \/ SendCycle

Spec == Init /\ [][Next]_vars

(***************************************************************************)
(* Properties                                                              *)
(***************************************************************************)

(* A stalled loop bursts out no backlog: over any stretch of time the      *)
(* cycles sent exceed one per Period by at most three, however the loop    *)
(* stalls and however often it polls.                                      *)
BurstBounded == bucket <= 3 * Period

(* Telemetry never pauses for longer than a period and the stall that      *)
(* delayed it: the reset of a late deadline loses no cycle for good, on    *)
(* either side of the wrap of the clock.                                   *)
PauseBounded == since_due < Period + MaxStall

(* Jitter does not accumulate.  Until the loop stalls for more than a      *)
(* period, the deadlines stay on the grid of multiples of Period since     *)
(* boot, so the long-run rate is exactly one cycle per Period.             *)
NoDrift ==
  steady => Late(next_telemetry_ms_) \in
              {phase - Period, phase, phase + Period, phase + 2 * Period}
=============================================================================
