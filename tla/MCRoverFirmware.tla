-------------------------- MODULE MCRoverFirmware ---------------------------
(* The loop with a receive queue of one frame and commands whose sequence  *)
(* numbers follow each other: link complaints are ControllerTiming's.      *)
EXTENDS RoverFirmware

Msg(stop, lost) ==
  [cmd |-> "go", mode |-> "MANUAL", stop |-> stop, autonomy_abort |-> FALSE,
   c2_lost |-> lost, indicator_request |-> "OFF"]

Frame(msg, seq, defects) ==
  [id |-> "CONTROL", msg |-> msg, seq |-> seq, defects |-> defects]

MCCommands == {"zero", "go"}
Go == {Frame(Msg(FALSE, FALSE), s, {}) : s \in 0 .. 1}
NoC2 == {Frame(Msg(FALSE, TRUE), s, {}) : s \in 0 .. 1}
Stop == {Frame(Msg(TRUE, FALSE), s, {}) : s \in 0 .. 1}
MCFrames == Go \cup NoC2 \cup Stop \cup {Frame(Msg(FALSE, FALSE), 0, {"BAD_MODE"})}

(* With SeqMod = 1 every frame looks like a duplicate, and none differs.    *)
MCOneFrame == {Frame(Msg(FALSE, FALSE), 0, {})}

(* State view: the program depends on differences of the clock alone, so   *)
(* two states that differ by a shift of it are one.                        *)
RelativeTime ==
  <<IF have_control_ THEN Elapsed(now, last_control_ms_) ELSE -1,
    Late(next_telemetry_ms_), last_control_, have_control_, last_seq_,
    last_decode_, protocol_error_, seq_gap_, crc_error_, telemetry_seq_, pc,
    rx, drive, pins, g_boot_faults, since_feed, report, command_age>>

(* State constraint: no gap, no CRC error.                                 *)
NoComplaint == ~ever_degraded_
=============================================================================
