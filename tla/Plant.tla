------------------------------- MODULE Plant --------------------------------
(***************************************************************************)
(* The simulated rover behind the controller: encoders, steering and the   *)
(* electrical readings of readSensors() (firmware/rover_firmware.ino),     *)
(* which tools/rover_sim.cpp repeats.                                      *)
(***************************************************************************)
EXTENDS Integers

CONSTANTS
  Span,      \* values of an encoder counter: 2^32 for int32_t
  SlewStep,  \* how far the steering moves in a pass, 25
  CmdMax     \* CMD_MAX, 1000

ASSUME PlantAssumption ==
  /\ Span \in Nat /\ Span >= 2 /\ Span % 2 = 0
  /\ SlewStep \in Nat \ {0}
  /\ CmdMax \in Nat

VARIABLES
  enc_left,  \* sim_enc_left, sim_enc_right, sim_steer_fb
  enc_right,
  steer_fb

plantVars == <<enc_left, enc_right, steer_fb>>

HalfSpan == Span \div 2
Encoder == -HalfSpan .. HalfSpan - 1
Command == -CmdMax .. CmdMax

PlantTypeOK ==
  /\ enc_left \in Encoder
  /\ enc_right \in Encoder
  /\ steer_fb \in Command

PlantOff == enc_left = 0 /\ enc_right = 0 /\ steer_fb = 0

(* wrapI32(): shift into unsigned range, modulo, shift back.               *)
WrapI32Unshifted(v) == v % Span  \* mutant: forgets to shift
WrapI32(v) == ((v + HalfSpan) % Span) - HalfSpan

(* abs(d), and d / 10, which C++ rounds towards zero.                      *)
Abs(d) == IF d < 0 THEN -d ELSE d
CountsOf(d) == IF d < 0 THEN -((-d) \div 10) ELSE d \div 10

(* The steering moves to its target, by at most one step.                  *)
SlewPast(fb, target) ==  \* mutant: does not stop at the target
  IF fb < target THEN fb + SlewStep
  ELSE IF fb > target THEN fb - SlewStep ELSE fb
Slew(fb, target) ==
  IF fb + SlewStep < target THEN fb + SlewStep
  ELSE IF fb - SlewStep > target THEN fb - SlewStep ELSE target

(* A stopped rover is driven with 0, whatever the command said.            *)
Effective(cmd, stopped) == IF stopped THEN 0 ELSE cmd

(* One pass of the plant.                                                  *)
ReadSensors(drive, steer, stopped) ==
  LET counts == CountsOf(Effective(drive, stopped)) IN
  /\ enc_left' = WrapI32(enc_left + counts)
  /\ enc_right' = WrapI32(enc_right + counts)
  /\ steer_fb' = Slew(steer_fb, Effective(steer, stopped))

(* The electrical readings of that pass, and the faults they raise.        *)
CurrentCa(d) == (Abs(d) * 3) \div 2
VoltageCv(d) == 2400 - Abs(d) \div 40
SensorFaults(d) ==
  (IF CurrentCa(d) > 4000 THEN {"OVER_CURRENT"} ELSE {})
    \cup (IF VoltageCv(d) < 2000 THEN {"UNDERVOLTAGE"} ELSE {})
=============================================================================
