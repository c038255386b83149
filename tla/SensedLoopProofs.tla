-------------------------- MODULE SensedLoopProofs --------------------------
(***************************************************************************)
(* The sensed loop keeps the telemetry schedule, so its reports measure    *)
(* the way exactly, and its steering settles: for every clock, period,     *)
(* stall, encoder range and slew step SensedAssumption allows.             *)
(***************************************************************************)
EXTENDS SensedLoop, TLAPS

(***************************************************************************)
(* The telemetry schedule (module PacerTiming), for every clock width,     *)
(* period, sequence width and stall that StallAssumption allows            *)
(***************************************************************************)

(* The lateness of a deadline grows with the clock.                        *)
LEMMA LatenessAdvance ==
  ASSUME NEW t \in Stamp, NEW u \in Stamp,
         2 * (AsSigned(Elapsed(t, u)) + 1) < W
  PROVE  AsSigned(Elapsed(Advance(t, 1), u)) = AsSigned(Elapsed(t, u)) + 1
BY ClockAssumption DEF Stamp, Elapsed, Advance, AsSigned

(* A deadline moved on by p is p less late.                                *)
LEMMA LatenessPostpone ==
  ASSUME NEW t \in Stamp, NEW u \in Stamp, NEW p \in Nat, p <= W,
         2 * (AsSigned(Elapsed(t, u)) - p) >= -W
  PROVE  AsSigned(Elapsed(t, Advance(u, p))) = AsSigned(Elapsed(t, u)) - p
BY ClockAssumption DEF Stamp, Elapsed, Advance, AsSigned

(* A deadline set p after now is p early.                                  *)
LEMMA LatenessFromNow ==
  ASSUME NEW t \in Stamp, NEW p \in Nat, p > 0, 2 * p <= W
  PROVE  AsSigned(Elapsed(t, Advance(t, p))) = -p
BY ClockAssumption DEF Stamp, Elapsed, Advance, AsSigned

(* Lateness is an integer.                                                 *)
LEMMA LatenessType ==
  ASSUME NEW t \in Stamp, NEW u \in Stamp
  PROVE  AsSigned(Elapsed(t, u)) \in Int
BY ClockAssumption DEF Stamp, Elapsed, AsSigned

L == Late(next_telemetry_ms_)

(* How late a deadline can be, given when the loop last polled and last    *)
(* sent, and how much of the burst is used up by then.                     *)
LatenessBounds ==
  /\ -Period <= L
  /\ L <= Period + since_poll
  /\ L < since_poll \/ since_due <= since_poll
  /\ since_due <= Period + L
BurstBudget == bucket = 0 \/ bucket + L <= 2 * Period

(* A loop that is still steady is in no long stall.                        *)
SteadyStall == steady => since_poll <= Period

PacerInv == TypeOK /\ LatenessBounds /\ BurstBudget /\ SteadyStall /\ NoDrift

(* Boot leaves the first cycle due and nothing sent.                       *)
LEMMA PacerInit == Init => PacerInv
<1> SUFFICES ASSUME Init PROVE PacerInv
  OBVIOUS
<1> USE ClockAssumption, PacerAssumption, StallAssumption
<1>1. now \in Stamp /\ next_telemetry_ms_ = now
  BY DEF Init, BootPacer
<1>2. L = 0
  BY <1>1 DEF L, Late, Elapsed, Stamp, AsSigned
<1>3. TypeOK
  BY <1>1 DEF Init, BootPacer, TypeOK
<1>4. LatenessBounds /\ BurstBudget /\ SteadyStall /\ NoDrift
  BY <1>2 DEF Init, LatenessBounds, BurstBudget, SteadyStall, NoDrift, L
<1>. QED
  BY <1>3, <1>4 DEF PacerInv

(* A millisecond makes the deadline a millisecond later.                   *)
LEMMA PacerTick == PacerInv /\ Tick => PacerInv'
<1> SUFFICES ASSUME PacerInv, Tick PROVE PacerInv'
  OBVIOUS
<1> USE ClockAssumption, PacerAssumption, StallAssumption
<1> USE DEF PacerInv
<1>1. /\ now \in Stamp
      /\ next_telemetry_ms_ \in Stamp
      /\ next_telemetry_ms_' = next_telemetry_ms_
      /\ now' = Advance(now, 1)
  BY DEF TypeOK, Tick
<1>2. L \in Int
  BY <1>1, LatenessType DEF L, Late
<1>3. 2 * (L + 1) < W
  BY <1>2 DEF LatenessBounds, Tick, TypeOK
<1>4. L' = L + 1
  BY <1>1, <1>3, LatenessAdvance DEF L, Late
<1>5. now' \in Stamp
  BY <1>1 DEF Advance, Stamp
<1>6. TypeOK'
  BY <1>5 DEF TypeOK, Tick
<1>7. LatenessBounds'
  BY <1>2, <1>4 DEF LatenessBounds, Tick, TypeOK
<1>8. BurstBudget'
  BY <1>2, <1>4 DEF BurstBudget, LatenessBounds, Tick, TypeOK
<1>9. SteadyStall'
  BY DEF SteadyStall, Tick
<1>10. NoDrift'
  <2> SUFFICES ASSUME steady'
               PROVE  L' \in {phase - Period, phase, phase + Period,
                              phase + 2 * Period}'
    BY DEF NoDrift, L
  <2>1. L \in {phase - Period, phase, phase + Period, phase + 2 * Period}
    BY DEF NoDrift, L, Tick
  <2>2. since_poll' <= Period
    BY <1>9 DEF SteadyStall
  <2>3. L' <= 2 * Period
    BY <1>2, <1>4, <2>2 DEF LatenessBounds, TypeOK, Tick
  <2>. QED
    BY <1>2, <1>4, <2>1, <2>3 DEF Tick, TypeOK
<1>. QED
  BY <1>6, <1>7, <1>8, <1>9, <1>10

(* An early poll only resets the stall.                                    *)
LEMMA PacerSkip == PacerInv /\ SkipCycle => PacerInv'
<1> SUFFICES ASSUME PacerInv, SkipCycle PROVE PacerInv'
  OBVIOUS
<1> USE ClockAssumption, PacerAssumption, StallAssumption
<1> USE DEF PacerInv
<1>1. L < 0 /\ L' = L /\ L \in Int
  BY LatenessType DEF SkipCycle, PollEarly, L, Late, TypeOK
<1>2. TypeOK'
  BY DEF TypeOK, SkipCycle, PollEarly
<1>3. LatenessBounds' /\ BurstBudget'
  BY <1>1 DEF LatenessBounds, BurstBudget, SkipCycle, PollEarly, TypeOK
<1>4. NoDrift'
  BY <1>1 DEF NoDrift, L, SkipCycle, PollEarly
<1>5. SteadyStall'
  BY DEF SteadyStall, SkipCycle
<1>. QED
  BY <1>2, <1>3, <1>4, <1>5

(* A cycle moves the deadline on, by a period or to a period from now.     *)
LEMMA PacerSend == PacerInv /\ SendCycle => PacerInv'
<1> SUFFICES ASSUME PacerInv, SendCycle PROVE PacerInv'
  OBVIOUS
<1> USE ClockAssumption, PacerAssumption, StallAssumption
<1> USE DEF PacerInv
<1> DEFINE step == Advance(next_telemetry_ms_, Period)
<1>1. now \in Stamp /\ next_telemetry_ms_ \in Stamp /\ now' = now
  BY DEF TypeOK, SendCycle, PollDue
<1>2. L \in Int /\ L >= 0 /\ L <= Period + MaxStall
  BY <1>1, LatenessType DEF L, Late, SendCycle, PollDue, LatenessBounds, TypeOK
<1>3. Late(step) = L - Period
  BY <1>1, <1>2, LatenessPostpone DEF L, Late
<1>4. L' = IF L - Period > Period THEN -Period ELSE L - Period
  <2>1. next_telemetry_ms_' = NextDeadline
    BY DEF SendCycle, PollDue
  <2>2. CASE L - Period > Period
    <3>1. next_telemetry_ms_' = Advance(now, Period)
      BY <1>3, <2>1, <2>2 DEF NextDeadline
    <3>. QED
      BY <1>1, <2>2, <3>1, LatenessFromNow DEF L, Late
  <2>3. CASE ~(L - Period > Period)
    <3>1. next_telemetry_ms_' = step
      BY <1>3, <2>1, <2>3 DEF NextDeadline
    <3>. QED
      BY <1>1, <1>3, <2>3, <3>1 DEF L, Late
  <2>. QED
    BY <2>2, <2>3
<1>5. next_telemetry_ms_' \in Stamp
  BY <1>1 DEF SendCycle, PollDue, NextDeadline, Advance, Stamp
<1>6. telemetry_seq_' \in 0 .. TelemetrySeqMod - 1
  BY DEF SendCycle, PollDue, TypeOK
<1>7. TypeOK'
  BY <1>5, <1>6 DEF TypeOK, SendCycle, PollDue
<1>8. LatenessBounds'
  BY <1>2, <1>4 DEF LatenessBounds, SendCycle
<1>9. BurstBudget'
  BY <1>2, <1>4 DEF BurstBudget, SendCycle, TypeOK
<1>10. SteadyStall'
  BY PacerAssumption DEF SteadyStall, SendCycle
<1>11. NoDrift'
  <2> SUFFICES ASSUME steady
               PROVE  L' \in {phase - Period, phase, phase + Period,
                              phase + 2 * Period}
    BY DEF NoDrift, L, SendCycle
  <2>1. L \in {phase - Period, phase, phase + Period, phase + 2 * Period}
    BY DEF NoDrift, L
  <2>2. since_poll <= Period
    BY DEF SteadyStall
  <2>3. L <= 2 * Period
    BY <1>2, <2>2 DEF LatenessBounds, TypeOK
  <2>. QED
    BY <1>2, <1>4, <2>1, <2>3 DEF TypeOK
<1>. QED
  BY <1>7, <1>8, <1>9, <1>10, <1>11

(* PacerInv is an invariant of the schedule.                               *)
LEMMA PacerInvariant == Spec => []PacerInv
<1>1. PacerInv /\ UNCHANGED vars => PacerInv'
  BY DEF vars, PacerInv, TypeOK, LatenessBounds, BurstBudget, SteadyStall,
         NoDrift, L, Late
<1>2. PacerInv /\ [Next]_vars => PacerInv'
  BY <1>1, PacerTick, PacerSkip, PacerSend DEF Next
<1>. QED
  BY PacerInit, <1>2, PTL DEF Spec

(* The fields of the schedule stay in range.                               *)
THEOREM TypeCorrect == Spec => []TypeOK
<1>1. PacerInv => TypeOK
  BY DEF PacerInv
<1>. QED
  BY PacerInvariant, <1>1, PTL

(* However the loop stalls, telemetry exceeds one cycle per period by at   *)
(* most three cycles over any stretch of time.                             *)
THEOREM BurstIsBounded == Spec => []BurstBounded
<1>1. PacerInv => BurstBounded
  <2> SUFFICES ASSUME PacerInv PROVE BurstBounded
    OBVIOUS
  <2>1. L \in Int
    BY LatenessType DEF PacerInv, TypeOK, L, Late
  <2>. QED
    BY <2>1, PacerAssumption
       DEF PacerInv, TypeOK, LatenessBounds, BurstBudget, BurstBounded
<1>. QED
  BY PacerInvariant, <1>1, PTL

(* Telemetry never pauses for longer than a period and one stall.          *)
THEOREM PauseIsBounded == Spec => []PauseBounded
<1>1. PacerInv => PauseBounded
  <2> SUFFICES ASSUME PacerInv PROVE PauseBounded
    OBVIOUS
  <2>1. L \in Int
    BY LatenessType DEF PacerInv, TypeOK, L, Late
  <2>. QED
    BY <2>1, PacerAssumption, StallAssumption
       DEF PacerInv, TypeOK, LatenessBounds, PauseBounded
<1>. QED
  BY PacerInvariant, <1>1, PTL

(* Stalls no longer than a period never shift the schedule.                *)
THEOREM ScheduleNeverDrifts == Spec => []NoDrift
<1>1. PacerInv => NoDrift
  BY DEF PacerInv
<1>. QED
  BY PacerInvariant, <1>1, PTL

(***************************************************************************)
(* What wrapping and slewing do, for every range and step                  *)
(***************************************************************************)

LEMMA SpanIsTwice == Span = 2 * HalfSpan /\ HalfSpan \in Nat /\ HalfSpan >= 1
BY PlantAssumption DEF HalfSpan

(* A remainder, for a dividend that is at most one turn out of range.      *)
LEMMA RemainderNear ==
  ASSUME NEW x \in Int, -Span <= x, x < 2 * Span
  PROVE  x % Span = IF x < 0 THEN x + Span ELSE IF x < Span THEN x ELSE x - Span
<1> USE PlantAssumption
<1>1. x % Span \in 0 .. Span - 1 /\ x = Span * (x \div Span) + (x % Span)
  OBVIOUS
<1> DEFINE q == x \div Span
<1>2. q \in Int
  OBVIOUS
<1>3. q \in {-1, 0, 1}
  <2>1. q >= 2 => Span * q >= 2 * Span
    BY <1>2
  <2>2. q <= -2 => Span * q <= -2 * Span
    BY <1>2
  <2>. QED
    BY <1>1, <1>2, <2>1, <2>2
<1>4. Span * q \in {-Span, 0, Span}
  BY <1>3
<1>. QED
  BY <1>1, <1>4

(* wrapI32() is the identity in range and takes one turn off next to it.   *)
LEMMA WrapNear ==
  ASSUME NEW v \in Int, -Span <= v, v < Span
  PROVE  /\ WrapI32(v) \in Encoder
         /\ WrapI32(v) = IF v < -HalfSpan THEN v + Span
                         ELSE IF v < HalfSpan THEN v ELSE v - Span
<1> DEFINE x == v + HalfSpan
<1>1. x \in Int /\ -Span <= x /\ x < 2 * Span
  BY SpanIsTwice
<1>2. x % Span =
        IF x < 0 THEN x + Span ELSE IF x < Span THEN x ELSE x - Span
  BY <1>1, RemainderNear
<1>. QED
  BY <1>1, <1>2, SpanIsTwice DEF WrapI32, Encoder

(* The steering stays in range, comes no further than its target and is    *)
(* a step closer to it.                                                    *)
LEMMA SlewNear ==
  ASSUME NEW fb \in Command, NEW to \in Command
  PROVE  /\ Slew(fb, to) \in Command
         /\ \A far \in Int :
              Abs(to - fb) <= far =>
                \/ Slew(fb, to) = to
                \/ Abs(to - Slew(fb, to)) <= far - SlewStep
BY PlantAssumption DEF Slew, Command, Abs

LEMMA CountsType ==
  ASSUME NEW d \in Int PROVE CountsOf(d) \in Int
<1>1. CASE d < 0
  <2>1. -d \in Nat /\ (-d) \div 10 \in Int
    BY <1>1
  <2>. QED
    BY <1>1, <2>1 DEF CountsOf
<1>2. CASE d >= 0
  BY <1>2 DEF CountsOf
<1>. QED
  BY <1>1, <1>2

(* The plant never raises a fault: 1.5 A and 23.75 V at full scale are far *)
(* from 40 A and 20 V.                                                     *)
LEMMA NoFalseAlarm ==
  ASSUME CmdMax <= 1000, NEW d \in Command PROVE SensorFaults(d) = {}
<1>1. Abs(d) \in 0 .. 1000
  BY PlantAssumption DEF Command, Abs
<1>2. (Abs(d) * 3) \div 2 <= 1500 /\ Abs(d) \div 40 <= 25
  BY <1>1
<1>. QED
  BY <1>1, <1>2 DEF SensorFaults, CurrentCa, VoltageCv

(***************************************************************************)
(* The loop and the schedule                                               *)
(***************************************************************************)

LEMMA InitRunsPacer == LoopInit => Init
BY DEF LoopInit

LEMMA StepRunsPacer == [LoopNext]_loopVars => [Next]_vars
BY DEF LoopNext, loopVars, Next, Sense, Skip, Report, Elapse

(* Every step of the loop is a step of the schedule or leaves it alone.    *)
THEOREM LoopImplementsPacer == LoopSpec => Spec
BY InitRunsPacer, StepRunsPacer, PTL DEF LoopSpec, Spec

(* The schedule's promises hold of the loop.                               *)
THEOREM LoopKeepsSchedule ==
  LoopSpec => [](BurstBounded /\ PauseBounded /\ NoDrift)
BY LoopImplementsPacer, BurstIsBounded, PauseIsBounded, ScheduleNeverDrifts, PTL

(***************************************************************************)
(* The distance between reports                                            *)
(***************************************************************************)

(* The encoders turn no further than the time since the report allows.     *)
LegBound == CountsPerMs * since_due + spun

(* The difference of the counters is the way but for whole turns.          *)
LegInv ==
  /\ Abs(leg) <= LegBound
  /\ enc_left - reported - leg \in {-Span, 0, Span}
  /\ enc_right = enc_left

(* What is left of the way of the steering.                                *)
LoopInv == LoopTypeOK /\ LegInv /\ SteeringSettles

(* What is known of the schedule at every step.                            *)
Paced == TypeOK /\ PauseBounded

LEMMA LegsAreShort ==
  ASSUME Paced, NEW s \in 0 .. CountsPerMs
  PROVE  /\ CountsPerMs * since_due + s \in Nat
         /\ CountsPerMs * since_due + s < HalfSpan
         /\ CountsPerMs < HalfSpan
<1> USE PacerAssumption, StallAssumption, SensedAssumption
<1>1. since_due \in Nat /\ since_due + 1 <= Period + MaxStall
  BY DEF Paced, TypeOK, PauseBounded
<1>2. CountsPerMs * since_due \in Nat
  BY <1>1
<1>3. CountsPerMs * (since_due + 1) = CountsPerMs * since_due + CountsPerMs
  BY <1>1
<1>4. CountsPerMs * (since_due + 1) <= CountsPerMs * (Period + MaxStall)
  BY <1>1
<1>5. /\ CountsPerMs * since_due + s \in Nat
      /\ CountsPerMs * since_due + s <= CountsPerMs * (since_due + 1)
  BY <1>2, <1>3
<1>6. CountsPerMs * (since_due + 1) \in Nat /\ LegMax \in Nat
  BY <1>1 DEF LegMax
<1>7. CountsPerMs * (since_due + 1) <= LegMax
  BY <1>4 DEF LegMax
<1>. QED
  BY <1>2, <1>3, <1>5, <1>6, <1>7, SpanIsTwice

LEMMA LoopStarts == LoopInit => LoopInv
<1> SUFFICES ASSUME LoopInit PROVE LoopInv
  OBVIOUS
<1> USE PlantAssumption, SensedAssumption, SpanIsTwice
<1>1. TypeOK
  BY InitRunsPacer, PacerInit DEF PacerInv
<1>2. since_due = 0
  BY DEF LoopInit, Init
<1>3. LoopTypeOK
  <2>1. 0 \in Encoder /\ 0 \in Command /\ FullSweep \in 0 .. FullSweep
    BY DEF Encoder, Command, FullSweep
  <2>2. 0 \in 0 .. CountsPerMs
    OBVIOUS
  <2>3. PlantTypeOK
    BY <2>1 DEF LoopInit, PlantOff, PlantTypeOK
  <2>4. sensed \in BOOLEAN
    BY DEF LoopInit
  <2>6. faults = {} /\ led = 0 /\ leg = 0
    BY DEF LoopInit
  <2>5. /\ reported \in Encoder /\ spun \in 0 .. CountsPerMs
        /\ target \in Command /\ slewed \in 0 .. FullSweep
    BY <2>1, <2>2 DEF LoopInit
  <2>. QED
    BY <1>1, <2>3, <2>4, <2>5, <2>6 DEF LoopTypeOK
<1>4. LegInv
  BY <1>2 DEF LoopInit, PlantOff, LegInv, LegBound, Abs
<1>5. SteeringSettles
  BY DEF LoopInit, PlantOff, SteeringSettles, Abs, FullSweep
<1>. QED
  BY <1>3, <1>4, <1>5 DEF LoopInv

LEMMA SenseKeeps ==
  ASSUME LoopInv, Paced, CmdMax <= 1000,
         NEW drive \in Drives, NEW steer \in Steers, NEW stopped \in BOOLEAN,
         Sense(drive, steer, stopped)
  PROVE  LoopInv'
<1> USE PlantAssumption, SensedAssumption, SpanIsTwice
<1> DEFINE d == Effective(drive, stopped)
           to == Effective(steer, stopped)
           counts == CountsOf(d)
           reach == IF to = target THEN slewed + SlewStep ELSE SlewStep
<1>1. d \in Command /\ d \in Int /\ to \in Command
  BY DEF Effective, Command
<1>2. counts \in Int
  BY <1>1, CountsType
<1>3. /\ spun + Abs(counts) <= CountsPerMs
      /\ enc_left' = WrapI32(enc_left + counts)
      /\ enc_right' = WrapI32(enc_right + counts)
      /\ steer_fb' = Slew(steer_fb, to)
      /\ faults' = SensorFaults(d)
      /\ sensed' = TRUE
      /\ spun' = spun + Abs(counts)
      /\ leg' = leg + counts
      /\ target' = to
      /\ slewed' = IF reach < FullSweep THEN reach ELSE FullSweep
      /\ UNCHANGED <<vars, led, reported>>
  BY DEF Sense, ReadSensors
<1>4. /\ enc_left \in Encoder /\ reported \in Encoder /\ steer_fb \in Command
      /\ leg \in Int /\ spun \in 0 .. CountsPerMs /\ led \in {0, 1}
      /\ target \in Command /\ slewed \in 0 .. FullSweep
  BY DEF LoopInv, LoopTypeOK, PlantTypeOK
<1>5. spun' \in 0 .. CountsPerMs /\ Abs(counts) <= CountsPerMs
  BY <1>2, <1>3, <1>4 DEF Abs
<1>6. TypeOK' /\ since_due' = since_due /\ since_due \in Nat
  BY <1>3 DEF vars, Paced, TypeOK
<1>7. LegBound \in Nat /\ LegBound < HalfSpan /\ CountsPerMs < HalfSpan
  BY <1>4, LegsAreShort DEF LegBound
<1>8. PauseBounded' /\ Paced'
  BY <1>3, <1>6 DEF Paced, PauseBounded, vars
<1>9. LegBound' = LegBound + Abs(counts)
  <2>1. CountsPerMs * since_due \in Nat
    BY <1>6
  <2>. QED
    BY <1>2, <1>3, <1>4, <1>6, <2>1 DEF LegBound, Abs
<1>10. LegBound' \in Nat /\ LegBound' < HalfSpan
  BY <1>5, <1>6, LegsAreShort DEF LegBound
<1>11. Abs(leg') <= LegBound'
  BY <1>2, <1>3, <1>4, <1>7, <1>9 DEF LoopInv, LegInv, Abs
<1>12. /\ WrapI32(enc_left + counts) \in Encoder
       /\ WrapI32(enc_left + counts) - enc_left - counts \in {-Span, 0, Span}
  <2>1. -Span <= enc_left + counts /\ enc_left + counts < Span
    BY <1>2, <1>4, <1>5, <1>7 DEF Encoder, Abs
  <2>. QED
    BY <1>2, <1>4, <2>1, WrapNear DEF Encoder
<1>13. LegInv'
  <2> DEFINE before == enc_left - reported - leg
             turn == WrapI32(enc_left + counts) - enc_left - counts
  <2>1. before \in {-Span, 0, Span} /\ turn \in {-Span, 0, Span}
    BY <1>12 DEF LoopInv, LegInv
  <2>5. enc_left' - reported' - leg' = before + turn
    BY <1>2, <1>3, <1>4, <1>12 DEF Encoder
  <2>2. enc_left' - reported < Span /\ enc_left' - reported > -Span
    BY <1>3, <1>4, <1>12 DEF Encoder
  <2>3. leg' < HalfSpan /\ leg' > -HalfSpan
    BY <1>2, <1>3, <1>4, <1>10, <1>11 DEF Abs
  <2>4. enc_left' - reported' - leg' \in {-Span, 0, Span}
    <3>1. before + turn < Span + HalfSpan /\ before + turn > -Span - HalfSpan
      BY <1>2, <1>3, <1>4, <1>12, <2>2, <2>3, <2>5 DEF Encoder
    <3>. HIDE DEF before, turn
    <3>2. before + turn \in {-Span, 0, Span}
      BY <2>1, <3>1
    <3>. QED
      BY <2>5, <3>2
  <2>. QED
    BY <1>3, <1>11, <2>4 DEF LoopInv, LegInv
<1>14. steer_fb' \in Command
  BY <1>1, <1>3, <1>4, SlewNear
<1>15. faults' = {}
  BY <1>1, <1>3, NoFalseAlarm
<1>16. reach \in Nat /\ slewed' \in 0 .. FullSweep
  BY <1>3, <1>4 DEF FullSweep
<1>17. LoopTypeOK'
  BY <1>1, <1>2, <1>3, <1>4, <1>5, <1>6, <1>12, <1>14, <1>15, <1>16
     DEF LoopTypeOK, PlantTypeOK, LoopInv, LegInv
<1>18. SteeringSettles'
  <2> DEFINE far == FullSweep - (reach - SlewStep)
  <2>1. far \in Int /\ Abs(to - steer_fb) <= far
    BY <1>1, <1>4 DEF LoopInv, SteeringSettles, FullSweep, Command, Abs
  <2>2. \/ Slew(steer_fb, to) = to
        \/ Abs(to - Slew(steer_fb, to)) <= far - SlewStep
    BY <1>1, <1>4, <2>1, SlewNear
  <2>3. Abs(target' - steer_fb') <= FullSweep - slewed'
    BY <1>1, <1>3, <1>4, <1>14, <1>16, <2>2 DEF FullSweep, Command, Abs
  <2>. QED
    BY <2>3 DEF SteeringSettles, FullSweep
<1>. QED
  BY <1>13, <1>17, <1>18 DEF LoopInv

LEMMA LoopSteps ==
  ASSUME LoopInv, Paced, Paced', CmdMax <= 1000, [LoopNext]_loopVars
  PROVE  LoopInv'
<1> USE PlantAssumption, SensedAssumption, SpanIsTwice
<1>1. CASE \E drive \in Drives, steer \in Steers, stopped \in BOOLEAN :
             Sense(drive, steer, stopped)
  BY <1>1, SenseKeeps
<1>2. CASE Skip
  <2>1. since_due' = since_due /\ TypeOK'
    BY <1>2 DEF Skip, SkipCycle, Paced
  <2>. QED
    BY <1>2, <2>1 DEF Skip, LoopInv, LoopTypeOK, PlantTypeOK, LegInv, LegBound,
         SteeringSettles, plantVars, odometerVars, slewVars
<1>3. CASE Report
  <2>1. since_due' = 0 /\ TypeOK'
    BY <1>3 DEF Report, SendCycle, Paced
  <2>2. enc_left \in Encoder /\ spun \in 0 .. CountsPerMs
    BY DEF LoopInv, LoopTypeOK, PlantTypeOK
  <2>3. LegInv'
    BY <1>3, <2>1, <2>2 DEF Report, LoopInv, LegInv, LegBound, plantVars, Abs,
                            Encoder
  <2>4. LoopTypeOK'
    <3>1. PlantTypeOK' /\ faults' = faults /\ spun' = spun /\ slewVars' = slewVars
      BY <1>3 DEF Report, LoopInv, LoopTypeOK, PlantTypeOK, plantVars
    <3>2. sensed' \in BOOLEAN
      BY <1>3 DEF Report
    <3>3. leg' = 0 /\ reported' \in Encoder
      BY <1>3, <2>2 DEF Report
    <3>4. led' \in {0, 1}
      BY <1>3 DEF Report, LoopInv, LoopTypeOK
    <3>. QED
      BY <2>1, <3>1, <3>2, <3>3, <3>4 DEF LoopInv, LoopTypeOK, slewVars
  <2>5. SteeringSettles'
    BY <1>3 DEF Report, LoopInv, SteeringSettles, plantVars, slewVars
  <2>. QED
    BY <2>3, <2>4, <2>5 DEF LoopInv
<1>4. CASE Elapse
  <2>1. since_due' = since_due + 1 /\ TypeOK' /\ since_due \in Nat
    BY <1>4 DEF Elapse, Tick, Paced, TypeOK
  <2>2. CountsPerMs * (since_due + 1) = CountsPerMs * since_due + CountsPerMs
    BY <2>1
  <2>3. CountsPerMs * since_due \in Nat
    BY <2>1
  <2>4. spun \in 0 .. CountsPerMs /\ leg \in Int
    BY DEF LoopInv, LoopTypeOK
  <2>5. LegInv'
    BY <1>4, <2>1, <2>2, <2>3, <2>4 DEF Elapse, LoopInv, LegInv, LegBound,
         plantVars, odometerVars, Abs
  <2>. QED
    BY <1>4, <2>1, <2>4, <2>5 DEF Elapse, LoopInv, LoopTypeOK, PlantTypeOK,
         SteeringSettles, plantVars, odometerVars, slewVars
<1>5. CASE UNCHANGED loopVars
  BY <1>5 DEF loopVars, vars, plantVars, odometerVars, slewVars, LoopInv,
       LoopTypeOK, PlantTypeOK, LegInv, LegBound, SteeringSettles, Paced
<1>. QED
  BY <1>1, <1>2, <1>3, <1>4, <1>5 DEF LoopNext

LEMMA LoopInvariant == ASSUME CmdMax <= 1000 PROVE LoopSpec => []LoopInv
<1>1. LoopSpec => []Paced
  BY LoopImplementsPacer, TypeCorrect, PauseIsBounded, PTL DEF Paced
<1>2. LoopInv /\ Paced /\ Paced' /\ [LoopNext]_loopVars => LoopInv'
  BY LoopSteps
<1>. QED
  BY <1>1, <1>2, LoopStarts, PTL DEF LoopSpec

(* Every field keeps its type, and the plant raises no fault of its own.   *)
THEOREM LoopTypeCorrect == ASSUME CmdMax <= 1000 PROVE LoopSpec => []LoopTypeOK
<1>1. LoopInv => LoopTypeOK
  BY DEF LoopInv
<1>. QED
  BY <1>1, LoopInvariant, PTL

(* The wrapped difference of two reports is the way driven between them.   *)
THEOREM ReportsMeasure ==
  ASSUME CmdMax <= 1000 PROVE LoopSpec => []OdometryIsExact
<1>1. LoopInv /\ Paced => OdometryIsExact
  <2> SUFFICES ASSUME LoopInv, Paced PROVE OdometryIsExact
    OBVIOUS
  <2>1. /\ enc_left \in Encoder /\ reported \in Encoder
        /\ leg \in Int /\ spun \in 0 .. CountsPerMs
    BY DEF LoopInv, LoopTypeOK, PlantTypeOK
  <2>2. LegBound \in Nat /\ LegBound < HalfSpan
    BY <2>1, LegsAreShort DEF LegBound
  <2>3. -HalfSpan < leg /\ leg < HalfSpan
    BY <2>1, <2>2, SpanIsTwice DEF LoopInv, LegInv, Abs
  <2>4. -Span <= enc_left - reported /\ enc_left - reported < Span
    BY <2>1, SpanIsTwice DEF Encoder
  <2>5. WrapI32(enc_left - reported) = leg
    BY <2>1, <2>3, <2>4, WrapNear, SpanIsTwice DEF LoopInv, LegInv, Encoder
  <2>. QED
    BY <2>5 DEF LoopInv, LegInv, OdometryIsExact
<1>2. LoopSpec => []Paced
  BY LoopImplementsPacer, TypeCorrect, PauseIsBounded, PTL DEF Paced
<1>. QED
  BY <1>1, <1>2, LoopInvariant, PTL

(* The steering reaches a standing target in the time of a full sweep.     *)
THEOREM SteeringFollows ==
  ASSUME CmdMax <= 1000 PROVE LoopSpec => []SteeringSettles
<1>1. LoopInv => SteeringSettles
  BY DEF LoopInv
<1>. QED
  BY <1>1, LoopInvariant, PTL
=============================================================================
