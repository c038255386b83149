----------------------------- MODULE SensedLoop -----------------------------
(***************************************************************************)
(* A pass of loop() between the controller's outputs and the bus: read the *)
(* sensors, then send a telemetry cycle if one is due.  How often a report *)
(* goes out is PacerTiming's; this module adds what it says of the rover.  *)
(* The controller commands anything in range and stops at any time.        *)
(***************************************************************************)
EXTENDS PacerTiming, Plant

CONSTANTS
  Drives, Steers,  \* commands given
  CountsPerMs      \* environment: counts of an encoder in a millisecond

(* Between two reports an encoder turns less than half its range.          *)
LegMax == CountsPerMs * (Period + MaxStall)
ASSUME SensedAssumption ==
  /\ Drives \subseteq Command /\ Steers \subseteq Command
  /\ CountsPerMs \in Nat
  /\ LegMax < HalfSpan

VARIABLES
  sensed,     \* loop() stands between readSensors() and telemetryDue()
  faults,     \* fault_bits of the last reading
  led,        \* LED_PIN, which blinks with the telemetry
  reported,   \* enc_left of the last report
  leg,        \* history: counts driven since that report
  spun,       \* history: counts driven, either way, this millisecond
  target,     \* history: where the steering is told to go
  slewed      \* history: how far it has had the time to go there

odometerVars == <<reported, leg>>
slewVars == <<target, slewed>>
loopVars == <<vars, plantVars, sensed, faults, led, odometerVars, spun,
              slewVars>>

(* The way from one end of the steering to the other.                      *)
FullSweep == 2 * CmdMax

LoopTypeOK ==
  /\ TypeOK
  /\ PlantTypeOK
  /\ sensed \in BOOLEAN
  /\ faults = {}
  /\ led \in {0, 1}
  /\ reported \in Encoder
  /\ leg \in Int
  /\ spun \in 0 .. CountsPerMs
  /\ target \in Command
  /\ slewed \in 0 .. FullSweep

LoopInit ==
  /\ Init
  /\ PlantOff
  /\ sensed = FALSE
  /\ faults = {}
  /\ led = 0
  /\ reported = 0
  /\ leg = 0
  /\ spun = 0
  /\ target = 0
  /\ slewed = FullSweep

(* The encoders, odometer and steering of one pass.                        *)
Sense(drive, steer, stopped) ==
  LET counts == CountsOf(Effective(drive, stopped))
      to == Effective(steer, stopped)
      reach == IF to = target THEN slewed + SlewStep ELSE SlewStep
  IN
  /\ ~sensed
  /\ spun + Abs(counts) <= CountsPerMs
  /\ ReadSensors(drive, steer, stopped)
  /\ faults' = SensorFaults(Effective(drive, stopped))
  /\ sensed' = TRUE
  /\ spun' = spun + Abs(counts)
  /\ leg' = leg + counts
  /\ target' = to
  /\ slewed' = IF reach < FullSweep THEN reach ELSE FullSweep
  /\ UNCHANGED <<vars, led, reported>>

(* telemetryDue() says no.                                                 *)
Skip ==
  /\ sensed
  /\ SkipCycle
  /\ sensed' = FALSE
  /\ UNCHANGED <<plantVars, faults, led, odometerVars, spun, slewVars>>

(* telemetryDue() says yes: the report carries the counters just read.     *)
Report ==
  /\ sensed
  /\ SendCycle
  /\ sensed' = FALSE
  /\ led' = 1 - led
  /\ reported' = enc_left
  /\ leg' = 0
  /\ UNCHANGED <<plantVars, faults, spun, slewVars>>

Elapse ==
  /\ Tick
  /\ spun' = 0
  /\ UNCHANGED <<plantVars, sensed, faults, led, odometerVars, slewVars>>

LoopNext ==
  \/ \E drive \in Drives, steer \in Steers, stopped \in BOOLEAN :
       Sense(drive, steer, stopped)
  \/ Skip \/ Report \/ Elapse

LoopSpec == LoopInit /\ [][LoopNext]_loopVars

(***************************************************************************)
(* Properties                                                              *)
(***************************************************************************)

(* The counters wrap and a report carries nothing else, yet the difference *)
(* of two consecutive reports, wrapped, is the distance driven between     *)
(* them, across the wrap in either direction: telemetry never pauses for   *)
(* long enough that an encoder could turn half its range.                  *)
OdometryIsExact ==
  /\ WrapI32(enc_left - reported) = leg
  /\ enc_right = enc_left

(* The steering follows its target however often it is redirected: what is *)
(* left to go is what it has not yet had the passes for, so a target that  *)
(* stands is reached after the time of a full sweep, and then held.        *)
SteeringSettles == Abs(target - steer_fb) <= FullSweep - slewed
=============================================================================
