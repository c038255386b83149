-------------------------- MODULE ControllerTiming --------------------------
(***************************************************************************)
(* RoverController on a bus that delivers any frame at any time, with the  *)
(* history that says how long the silences really are.                     *)
(***************************************************************************)
EXTENDS RoverController

CONSTANT MaxSilence  \* environment: longest silence between accepted frames

ASSUME SilenceAssumption == MaxSilence \in Nat

VARIABLES
  silence,  \* true ms since the last accepted frame
  quiet     \* true ms since last_degraded_ms_ was set, up to W

vars == <<now, controllerVars, silence, quiet>>

TypeOK == ControllerTypeOK /\ silence \in Nat /\ quiet \in 0 .. W

AgeBy(age, d) == IF age + d < W THEN age + d ELSE W

Init == now = 0 /\ BootController /\ silence = 0 /\ quiet = 0

Ignored(f) == IgnoreForeign(f) /\ UNCHANGED <<silence, quiet>>

Rejected(f) ==
  /\ Reject(f)
  /\ quiet' = IF DecodeControl(f) = "BAD_CRC" THEN 0 ELSE quiet
  /\ UNCHANGED silence

Accepted(f, d) ==
  /\ Accept(f, d)
  /\ silence' = 0
  /\ quiet' = IF SeqGap(f) THEN d
              ELSE IF ever_degraded_ THEN AgeBy(quiet, d) ELSE quiet

(* A millisecond passes.  The guard is the environment's promise that no   *)
(* silence outlasts MaxSilence; there is no bound before the first frame.  *)
Tick ==
  /\ have_control_ => silence < MaxSilence
  /\ now' = Advance(now, 1)
  /\ silence' = IF have_control_ THEN silence + 1 ELSE silence
  /\ quiet' = IF ever_degraded_ THEN AgeBy(quiet, 1) ELSE quiet
  /\ UNCHANGED controllerVars

AcceptAny == \E f \in Frames, d \in 0 .. ReadSkew : Accepted(f, d)

Next ==
  \/ Tick
  \/ \E f \in Frames : Ignored(f) \/ Rejected(f)
  \/ AcceptAny

Spec == Init /\ [][Next]_vars

(***************************************************************************)
(* Properties                                                              *)
(***************************************************************************)

(* What the rover does and says, on a clock reading t, when nobody is      *)
(* driving it: no motion, link LOST, C2 not claimed, fault light, timeout  *)
(* reported.                                                               *)
FailedSafe(t) ==
  /\ CommandedOutputs(t) = ZeroCmd
  /\ JetsonLinkState(t, t) = "LOST"
  /\ C2LinkState(t) = "NOT_REPORTED"
  /\ IndicatorState(t) = "FAULT"
  /\ "COMM_TIMEOUT" \in FaultWord({}, t, t)

(* Unless a valid frame really arrived within the last WatchdogTimeout     *)
(* milliseconds the rover is failed safe, whatever was rejected, ignored   *)
(* or wrapped in between.                                                  *)
SilenceFailsSafe ==
  ~have_control_ \/ silence >= WatchdogTimeout => FailedSafe(now)

(* A link reported OK has no complaint standing against it: the hold of    *)
(* DEGRADED outlasts the watchdog, so a gap or a CRC error cannot fade     *)
(* into OK while the fault word still carries it, at whatever two moments  *)
(* jetsonLinkState() reads its clock.                                      *)
LinkOkIsClean ==
  \A d \in 0 .. ReadSkew :
    JetsonLinkState(now, Advance(now, d)) = "OK" => ~seq_gap_ /\ ~crc_error_

(* Only an accepted frame restores anything.  Rejected frames, foreign     *)
(* frames and the passage of time never start the rover, never bring a     *)
(* lost link back, never renew a stale C2 report and never clear a fault.  *)
OnlyAFrameRestores ==
  [][ ~AcceptAny =>
        /\ CommandedOutputs(now)' \in {CommandedOutputs(now), ZeroCmd}
        /\ JetsonLinkState(now, now) = "LOST"
              => JetsonLinkState(now, now)' = "LOST"
        /\ C2LinkState(now)' \in {C2LinkState(now), "NOT_REPORTED"}
        /\ FaultWord({}, now, now) \ {"C2_LINK_LOST"}
              \subseteq FaultWord({}, now, now)' ]_vars

(* The rover as a dead man's switch: see module Deadman.                   *)
DM == INSTANCE Deadman WITH
        Timeout <- WatchdogTimeout,
        output <- CommandedOutputs(now),
        age <- IF have_control_ /\ silence < WatchdogTimeout
                 THEN silence ELSE WatchdogTimeout
ImplementsDeadman == DM!Spec

(* PROTOCOL.md 5.1: a silent Jetson stops the rover in every mode.         *)
SilentJetsonStops ==
  have_control_ /\ silence >= WatchdogTimeout
    => CommandedOutputs(now) = ZeroCmd
=============================================================================
