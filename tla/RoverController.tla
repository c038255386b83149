-------------------------- MODULE RoverController ---------------------------
(***************************************************************************)
(* The command and safety state of class RoverController                   *)
(* (firmware/src/rover_controller.{h,cpp}): ingestFrame() as an action,    *)
(* every query as an operator of the clock readings it takes.  The         *)
(* telemetry schedule of the same class, which shares nothing with this    *)
(* state but the clock, is module TelemetryPacer.                          *)
(*                                                                         *)
(* A query of the code reads the clock each time it needs it, and the      *)
(* clock moves between two readings of one call.  So each operator takes   *)
(* its readings as arguments, in the order the code makes them, and        *)
(* ingestFrame() lets up to ReadSkew milliseconds pass between its two.    *)
(***************************************************************************)
EXTENDS Millis

CONSTANTS
  WatchdogTimeout,  \* watchdog_timeout_ms_, 300
  DegradedHold,     \* LINK_DEGRADED_HOLD_MS, 1000
  SeqMod,           \* values of the 8-bit sequence number, 256
  CounterMod,       \* values of a diagnostic counter, 2^32; 1 leaves them out
  ReadSkew,         \* the most the clock advances inside one call
  CmdAgeMax,        \* CMD_AGE_MAX, 0xFFFE
  Commands,         \* (drive, steer) pairs within CMD_MIN .. CMD_MAX
  ZeroCmd,          \* the pair (0, 0)
  Frames            \* the frames that may be on the bus

Modes == {"DISABLED", "MANUAL", "AUTONOMOUS"}
Indicators == {"OFF", "TELEOP", "AUTONOMOUS", "ARRIVED", "FAULT"}

(* What can be wrong with a received CONTROL frame: its length, its CRC,   *)
(* an undefined mode, reserved flag bits, an undefined indicator, a        *)
(* command out of range.                                                   *)
Defects == {"BAD_DLC", "BAD_CRC", "BAD_MODE", "BAD_FLAGS", "BAD_INDICATOR",
            "BAD_RANGE"}
DecodeResult == Defects \cup {"OK"}

(* ControlMsg, its sequence number apart: return_request acts on nothing.  *)
ControlMsg == [cmd : Commands, mode : Modes, stop : BOOLEAN,
               autonomy_abort : BOOLEAN, c2_lost : BOOLEAN,
               indicator_request : Indicators]

(* A frame on the bus.  msg is what its payload says where it is well      *)
(* formed, defects is where it is not.                                     *)
FrameType == [id : {"CONTROL", "OTHER"}, msg : ControlMsg,
              seq : 0 .. SeqMod - 1, defects : SUBSET Defects]

ASSUME ControllerAssumption ==
  /\ WatchdogTimeout \in Nat \ {0}
  /\ DegradedHold \in Nat
  /\ SeqMod \in Nat \ {0}
  /\ CounterMod \in Nat \ {0}
  /\ ReadSkew \in Nat
  /\ ReadSkew < W
  /\ CmdAgeMax \in Nat
  /\ ZeroCmd \in Commands
  /\ Frames \subseteq FrameType

VARIABLES
  last_control_,     \* the last accepted ControlMsg
  have_control_,
  last_control_ms_,
  have_seq_,
  last_seq_,
  last_decode_,
  protocol_error_,
  crc_error_,
  seq_gap_,
  last_degraded_ms_,
  ever_degraded_,
  counters           \* control_frames_accepted_, frames_ignored_, ...

linkVars == <<have_seq_, last_seq_, protocol_error_, crc_error_, seq_gap_,
              last_degraded_ms_, ever_degraded_>>
commandVars == <<last_control_, have_control_, last_control_ms_>>
controllerVars == <<commandVars, linkVars, last_decode_, counters>>

Counter == 0 .. CounterMod - 1
Counters == [accepted : Counter, ignored : Counter, seq_gaps : Counter,
             crc_errors : Counter, lost : Counter]

ControllerTypeOK ==
  /\ now \in Stamp
  /\ last_control_ \in ControlMsg
  /\ have_control_ \in BOOLEAN
  /\ last_control_ms_ \in Stamp
  /\ have_seq_ \in BOOLEAN
  /\ last_seq_ \in 0 .. SeqMod - 1
  /\ last_decode_ \in DecodeResult
  /\ protocol_error_ \in BOOLEAN
  /\ crc_error_ \in BOOLEAN
  /\ seq_gap_ \in BOOLEAN
  /\ last_degraded_ms_ \in Stamp
  /\ ever_degraded_ \in BOOLEAN
  /\ counters \in Counters

(***************************************************************************)
(* Decoding                                                                *)
(***************************************************************************)

(* decodeControl() reports the first test a frame fails, in this order.    *)
DecodeControl(f) ==
  CASE f.defects = {} -> "OK"
    [] "BAD_DLC" \in f.defects -> "BAD_DLC"
    [] "BAD_CRC" \in f.defects -> "BAD_CRC"
    [] "BAD_MODE" \in f.defects -> "BAD_MODE"
    [] "BAD_FLAGS" \in f.defects -> "BAD_FLAGS"
    [] "BAD_INDICATOR" \in f.defects -> "BAD_INDICATOR"
    [] OTHER -> "BAD_RANGE"

(* seqDelta(): 8-bit unsigned subtraction.                                 *)
SeqDeltaAbsolute(previous, current) ==  \* mutant: ignores the wrap
  IF current >= previous THEN current - previous ELSE previous - current
SeqDelta(previous, current) ==
  IF current >= previous THEN current - previous
                         ELSE current + SeqMod - previous

(* A uint32_t diagnostic counter.                                          *)
CountWide(c, n) == c + n  \* mutant: wider than its field
Count(c, n) == (c + n) % CounterMod

BootControl == [cmd |-> ZeroCmd, mode |-> "DISABLED", stop |-> TRUE,
                autonomy_abort |-> FALSE, c2_lost |-> TRUE,
                indicator_request |-> "OFF"]

NoCounts == [accepted |-> 0, ignored |-> 0, seq_gaps |-> 0, crc_errors |-> 0,
             lost |-> 0]

(* The constructor: boot is the safest state there is.                     *)
BootController ==
  /\ last_control_ = BootControl
  /\ have_control_ = FALSE
  /\ last_control_ms_ = 0
  /\ have_seq_ = FALSE
  /\ last_seq_ = 0
  /\ last_decode_ = "OK"
  /\ protocol_error_ = FALSE
  /\ crc_error_ = FALSE
  /\ seq_gap_ = FALSE
  /\ last_degraded_ms_ = 0
  /\ ever_degraded_ = FALSE
  /\ counters = NoCounts

(* The same, when the board starts over.                                   *)
RebootController ==
  /\ last_control_' = BootControl
  /\ have_control_' = FALSE
  /\ last_control_ms_' = 0
  /\ have_seq_' = FALSE
  /\ last_seq_' = 0
  /\ last_decode_' = "OK"
  /\ protocol_error_' = FALSE
  /\ crc_error_' = FALSE
  /\ seq_gap_' = FALSE
  /\ last_degraded_ms_' = 0
  /\ ever_degraded_' = FALSE
  /\ counters' = NoCounts

(***************************************************************************)
(* ingestFrame()                                                           *)
(***************************************************************************)

(* Other traffic on a shared bus is counted and is not a fault.            *)
IgnoreForeign(f) ==
  /\ f.id # "CONTROL"
  /\ counters' = [counters EXCEPT !.ignored = Count(@, 1)]
  /\ UNCHANGED <<now, commandVars, linkVars, last_decode_>>

(* A CONTROL frame that does not decode: remembered as a fault, and        *)
(* nothing of the command state moves.                                     *)
Reject(f) ==
  LET r == DecodeControl(f)
      crc == r = "BAD_CRC"
  IN
  /\ f.id = "CONTROL"
  /\ r # "OK"
  /\ last_decode_' = r
  /\ counters' = [counters EXCEPT !.ignored = Count(@, 1),
                     !.crc_errors = IF crc THEN Count(@, 1) ELSE @]
  /\ crc_error_' = (crc \/ crc_error_)
  /\ protocol_error_' = (~crc \/ protocol_error_)
  /\ last_degraded_ms_' = IF crc THEN now ELSE last_degraded_ms_
  /\ ever_degraded_' = (crc \/ ever_degraded_)
  /\ UNCHANGED <<now, commandVars, have_seq_, last_seq_, seq_gap_>>

(* The frame does not directly follow the last accepted one.               *)
SeqGap(f) == have_seq_ /\ SeqDelta(last_seq_, f.seq) # 1

(* A valid frame.  The sequence check reads the clock before the command   *)
(* is stored, and d milliseconds pass between the two readings.            *)
Accept(f, d) ==
  LET delta == SeqDelta(last_seq_, f.seq)
      gap == SeqGap(f)
  IN
  /\ f.id = "CONTROL"
  /\ DecodeControl(f) = "OK"
  /\ last_decode_' = "OK"
  /\ seq_gap_' = IF have_seq_ THEN gap ELSE seq_gap_
  /\ last_degraded_ms_' = IF gap THEN now ELSE last_degraded_ms_
  /\ ever_degraded_' = (gap \/ ever_degraded_)
  /\ last_seq_' = f.seq
  /\ have_seq_' = TRUE
  /\ protocol_error_' = FALSE
  /\ crc_error_' = FALSE
  /\ last_control_' = f.msg
  /\ have_control_' = TRUE
  /\ now' = Advance(now, d)
  /\ last_control_ms_' = now'
  /\ counters' = [counters EXCEPT !.accepted = Count(@, 1),
                     !.seq_gaps = IF gap THEN Count(@, 1) ELSE @,
                     !.lost = IF gap /\ delta > 1 THEN Count(@, delta - 1)
                                                  ELSE @]

IngestFrame(f) ==
  \/ IgnoreForeign(f)
  \/ Reject(f)
  \/ \E d \in 0 .. ReadSkew : Accept(f, d)

(***************************************************************************)
(* Queries.  t, t1, t2 are the clock readings of the call.                 *)
(***************************************************************************)

WatchdogTrippedOnce(t) == ~have_control_  \* mutant: no timeout
WatchdogTrippedLate(t) ==  \* mutant: off by one
  ~have_control_ \/ Elapsed(t, last_control_ms_) > WatchdogTimeout
WatchdogTrippedSigned(t) ==  \* mutant: a signed difference
  ~have_control_ \/ AsSigned(Elapsed(t, last_control_ms_)) >= WatchdogTimeout
WatchdogTripped(t) ==
  \/ ~have_control_
  \/ Elapsed(t, last_control_ms_) >= WatchdogTimeout

(* cmdAgeMs(): CMD_AGE_UNKNOWN is the value after CMD_AGE_MAX.             *)
CmdAgeUnknown == CmdAgeMax + 1
ClampCmdAgeMs(age) == IF age >= CmdAgeMax THEN CmdAgeMax ELSE age
CmdAgeMs(t) == IF have_control_ THEN ClampCmdAgeMs(Elapsed(t, last_control_ms_))
                                ELSE CmdAgeUnknown

ModePermitsMotion(mode) == mode \in {"MANUAL", "AUTONOMOUS"}

(* Whether a command, by what it says itself, lets the rover move.         *)
Permits(msg) ==
  /\ ~msg.stop
  /\ ModePermitsMotion(msg.mode)
  /\ ~(msg.autonomy_abort /\ msg.mode = "AUTONOMOUS")
  /\ ~(msg.c2_lost /\ msg.mode = "MANUAL")

EffectiveStop(t) == WatchdogTripped(t) \/ ~Permits(last_control_)

CommandedOutputs(t) == IF EffectiveStop(t) THEN ZeroCmd ELSE last_control_.cmd

RecentlyDegradedBriefly(t) ==  \* mutant: holds for the watchdog's time
  ever_degraded_ /\ Elapsed(t, last_degraded_ms_) < WatchdogTimeout
RecentlyDegraded(t) ==
  ever_degraded_ /\ Elapsed(t, last_degraded_ms_) < DegradedHold

JetsonLinkState(t1, t2) ==
  CASE WatchdogTripped(t1) -> "LOST"
    [] ~WatchdogTripped(t1) /\ RecentlyDegraded(t2) -> "DEGRADED"
    [] OTHER -> "OK"

C2LinkStateStale(t) ==  \* mutant: believes a silent Jetson
  IF last_control_.c2_lost THEN "LOST" ELSE "OK"
C2LinkState(t) ==
  CASE WatchdogTripped(t) -> "NOT_REPORTED"
    [] ~WatchdogTripped(t) /\ last_control_.c2_lost -> "LOST"
    [] OTHER -> "OK"

(* The fault bits the controller adds to those of the sensors and of boot. *)
FaultWord(others, t1, t2) ==
  others \cup (IF WatchdogTripped(t1) THEN {"COMM_TIMEOUT"} ELSE {})
         \cup (IF protocol_error_ THEN {"PROTOCOL_ERROR"} ELSE {})
         \cup (IF crc_error_ THEN {"CRC_ERROR"} ELSE {})
         \cup (IF seq_gap_ THEN {"SEQ_GAP"} ELSE {})
         \cup (IF C2LinkState(t2) = "LOST" THEN {"C2_LINK_LOST"} ELSE {})

IndicatorStateCalm(t) ==  \* mutant: no fault light for a lost base station
  IF WatchdogTripped(t) THEN "FAULT"
  ELSE IF last_control_.mode = "DISABLED" THEN "OFF" ELSE "TELEOP"
IndicatorState(t) ==
  LET msg == last_control_ IN
  CASE WatchdogTripped(t) \/ (msg.c2_lost /\ msg.mode = "MANUAL") -> "FAULT"
    [] ~WatchdogTripped(t) /\ msg.mode = "DISABLED" -> "OFF"
    [] ~WatchdogTripped(t) /\ msg.mode = "MANUAL" /\ ~msg.c2_lost -> "TELEOP"
    [] ~WatchdogTripped(t) /\ msg.mode = "AUTONOMOUS"
          /\ msg.indicator_request = "ARRIVED" -> "ARRIVED"
    [] OTHER -> "AUTONOMOUS"
=============================================================================
