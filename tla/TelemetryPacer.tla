--------------------------- MODULE TelemetryPacer ---------------------------
(***************************************************************************)
(* The telemetry schedule of RoverController: telemetryDue() and the two   *)
(* fields it owns (firmware/src/rover_controller.cpp).  The loop polls it; *)
(* each time it answers true one cycle of four frames is sent.             *)
(***************************************************************************)
EXTENDS Millis

CONSTANTS
  Period,          \* telemetry_period_ms_, 50
  TelemetrySeqMod  \* values of the 8-bit telemetry sequence number, 256

(* The period is an unsigned number of the clock's width.                  *)
ASSUME PacerAssumption ==
  /\ Period \in Nat \ {0} /\ Period < W
  /\ TelemetrySeqMod \in Nat \ {0}

VARIABLES
  next_telemetry_ms_,  \* the deadline of the next cycle
  telemetry_seq_

(* int32_t since_due: how late the cycle is, negative before its deadline. *)
LateUnwrapped(deadline) == now - deadline  \* mutant: compares stamps
Late(deadline) == AsSigned(Elapsed(now, deadline))

(* The constructor: the first cycle is due at once.                        *)
BootPacer == next_telemetry_ms_ = now /\ telemetry_seq_ = 0

(* The deadline moves on by one period, or, when even that is more than a  *)
(* period in the past, to one period from now.                             *)
NextDeadlineBacklog ==  \* mutant: never drops a missed cycle
  Advance(next_telemetry_ms_, Period)
NextDeadlineFromNow == Advance(now, Period)  \* mutant: drifts
NextDeadline ==
  LET step == Advance(next_telemetry_ms_, Period) IN
  IF Late(step) > Period THEN Advance(now, Period) ELSE step

(* telemetryDue() answers false.                                           *)
PollEarly ==
  /\ Late(next_telemetry_ms_) < 0
  /\ UNCHANGED <<now, next_telemetry_ms_, telemetry_seq_>>

(* telemetryDue() answers true: a cycle is sent.                           *)
PollDue ==
  /\ Late(next_telemetry_ms_) >= 0
  /\ next_telemetry_ms_' = NextDeadline
  /\ telemetry_seq_' = IF telemetry_seq_ = TelemetrySeqMod - 1
                       THEN 0 ELSE telemetry_seq_ + 1
  /\ UNCHANGED now
=============================================================================
