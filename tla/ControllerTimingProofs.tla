----------------------- MODULE ControllerTimingProofs -----------------------
(***************************************************************************)
(* The fail-safe promises of RoverController for every timeout, width and  *)
(* set of frames, while no silence lasts for a full turn of the clock.     *)
(***************************************************************************)
EXTENDS ControllerTiming, RoverControllerProofs

(* What the proofs ask of the environment and of the configuration: the    *)
(* link is never silent for 2^32 ms (49.7 days), and the hold of DEGRADED  *)
(* outlasts the watchdog and the time two calls take.                      *)
NoFullTurn == MaxSilence < W /\ WatchdogTimeout < W
HoldOutlasts ==
  /\ DegradedHold >= WatchdogTimeout + 2 * ReadSkew
  /\ WatchdogTimeout + 2 * ReadSkew <= W

(* The stored stamps, read by unsigned subtraction, tell the true time.    *)
StampsAreTrue ==
  /\ have_control_ =>
       silence <= MaxSilence /\ Elapsed(now, last_control_ms_) = silence
  /\ ever_degraded_ /\ quiet < W =>
       Elapsed(now, last_degraded_ms_) = quiet

(* A standing complaint about the link is as recent as the last frame.     *)
ComplaintIsRecent ==
  /\ have_control_ = have_seq_
  /\ seq_gap_ => have_seq_
  /\ have_control_ /\ (seq_gap_ \/ crc_error_) =>
       ever_degraded_ /\ quiet <= silence + ReadSkew

ControllerInv == TypeOK /\ StampsAreTrue /\ ComplaintIsRecent

(* Boot has no complaint and no frame.                                     *)
LEMMA ControllerInit == Init => ControllerInv
<1> USE ClockAssumption, ControllerAssumption, SilenceAssumption
<1> SUFFICES ASSUME Init PROVE ControllerInv
  OBVIOUS
<1>1. TypeOK
  BY BootIsTyped DEF Init, TypeOK
<1>2. StampsAreTrue /\ ComplaintIsRecent
  BY DEF Init, BootController, StampsAreTrue, ComplaintIsRecent
<1>. QED
  BY <1>1, <1>2 DEF ControllerInv

(* A millisecond ages both stamps by one.                                  *)
LEMMA ControllerTick ==
  ASSUME NoFullTurn, ControllerInv, Tick PROVE ControllerInv'
<1> USE ClockAssumption, ControllerAssumption, SilenceAssumption
<1> USE DEF ControllerInv
<1>1. /\ now \in Stamp /\ last_control_ms_ \in Stamp
      /\ last_degraded_ms_ \in Stamp
      /\ silence \in Nat /\ quiet \in 0 .. W
      /\ now' = Advance(now, 1)
  BY DEF TypeOK, ControllerTypeOK, Tick
<1>2. UNCHANGED <<commandVars, linkVars, last_decode_, counters>>
  BY DEF Tick, controllerVars
<1>3. now' \in Stamp
  BY <1>1, AdvanceType
<1>4. TypeOK'
  BY <1>1, <1>2, <1>3 DEF TypeOK, ControllerTypeOK, Tick, AgeBy,
     commandVars, linkVars
<1>5. ASSUME have_control_'
      PROVE  silence' <= MaxSilence
             /\ Elapsed(now', last_control_ms_') = silence'
  <2>1. silence < MaxSilence /\ silence' = silence + 1
        /\ Elapsed(now, last_control_ms_) = silence
    BY <1>2, <1>5 DEF Tick, commandVars, StampsAreTrue
  <2>2. Elapsed(now', last_control_ms_) = silence + 1
    BY <1>1, <2>1, ElapsedAdvance DEF NoFullTurn
  <2>. QED
    BY <1>1, <1>2, <2>1, <2>2 DEF commandVars
<1>6. ASSUME ever_degraded_', quiet' < W
      PROVE  Elapsed(now', last_degraded_ms_') = quiet'
  <2>1. ever_degraded_ /\ quiet' = quiet + 1 /\ quiet < W
    BY <1>1, <1>2, <1>6 DEF Tick, AgeBy, linkVars
  <2>2. Elapsed(now, last_degraded_ms_) + 1 < W
    BY <1>6, <2>1 DEF StampsAreTrue
  <2>3. Elapsed(now', last_degraded_ms_) = quiet + 1
    BY <1>1, <2>1, <2>2, ElapsedAdvance DEF StampsAreTrue
  <2>. QED
    BY <1>2, <2>1, <2>3 DEF linkVars
<1>7. StampsAreTrue'
  BY <1>5, <1>6 DEF StampsAreTrue
<1>8. ComplaintIsRecent'
  BY <1>1, <1>2 DEF ComplaintIsRecent, Tick, AgeBy, commandVars, linkVars
<1>. QED
  BY <1>4, <1>7, <1>8

(* A frame for another consumer only moves a counter.                      *)
LEMMA ControllerIgnored ==
  ASSUME ControllerInv, NEW f \in Frames, Ignored(f) PROVE ControllerInv'
<1> USE DEF ControllerInv
<1>1. ControllerTypeOK'
  BY IgnoredIsTyped DEF TypeOK, Ignored
<1>2. UNCHANGED <<now, commandVars, linkVars, last_decode_, silence, quiet>>
  BY DEF Ignored, IgnoreForeign
<1>3. TypeOK'
  BY <1>1, <1>2 DEF TypeOK
<1>4. StampsAreTrue' /\ ComplaintIsRecent'
  BY <1>2 DEF StampsAreTrue, ComplaintIsRecent, commandVars, linkVars
<1>. QED
  BY <1>3, <1>4

(* A defective frame can only add a complaint, dated now.                  *)
LEMMA ControllerRejected ==
  ASSUME ControllerInv, NEW f \in Frames, Rejected(f) PROVE ControllerInv'
<1> USE ClockAssumption, ControllerAssumption
<1> USE DEF ControllerInv
<1>1. /\ UNCHANGED <<now, have_control_, last_control_, last_control_ms_,
                     have_seq_, last_seq_, seq_gap_, silence>>
      /\ now \in Stamp /\ silence \in Nat
  BY DEF Rejected, Reject, commandVars, TypeOK, ControllerTypeOK
<1>2. ControllerTypeOK'
  BY RejectedIsTyped DEF TypeOK, Rejected
<1>3. TypeOK'
  <2>1. quiet' \in 0 .. W
    BY DEF TypeOK, Rejected
  <2>. QED
    BY <1>1, <1>2, <2>1 DEF TypeOK
<1>4. StampsAreTrue'
  BY <1>1, ElapsedSelf DEF StampsAreTrue, Rejected, Reject
<1>5. ComplaintIsRecent'
  <2>1. CASE DecodeControl(f) = "BAD_CRC"
    <3>1. ever_degraded_' /\ quiet' = 0
      BY <2>1, Zenon DEF Rejected, Reject
    <3>. QED
      BY <1>1, <3>1 DEF ComplaintIsRecent
  <2>2. CASE DecodeControl(f) # "BAD_CRC"
    <3>1. (crc_error_' => crc_error_) /\ (ever_degraded_ => ever_degraded_')
          /\ quiet' = quiet
      BY <2>2, Zenon DEF Rejected, Reject
    <3>. QED
      BY <1>1, <3>1 DEF ComplaintIsRecent
  <2>. QED
    BY <2>1, <2>2
<1>. QED
  BY <1>3, <1>4, <1>5

(* A valid frame restarts the silence and dates a gap just before it.      *)
LEMMA ControllerAccepted ==
  ASSUME ControllerInv,
         NEW f \in Frames, NEW d \in 0 .. ReadSkew, Accepted(f, d)
  PROVE  ControllerInv'
<1> USE ClockAssumption, ControllerAssumption
<1> USE DEF ControllerInv
<1>1. /\ now \in Stamp /\ last_degraded_ms_ \in Stamp /\ quiet \in 0 .. W
      /\ last_seq_ \in 0 .. SeqMod - 1 /\ counters \in Counters
      /\ f.seq \in 0 .. SeqMod - 1 /\ f.msg \in ControlMsg
      /\ d \in Nat /\ d < W
      /\ now' = Advance(now, d)
  BY DEF TypeOK, ControllerTypeOK, Accepted, Accept, FrameType
<1>2. now' \in Stamp
  BY <1>1, AdvanceType
<1>3. ControllerTypeOK'
  BY AcceptedIsTyped DEF TypeOK, Accepted
<1>4. quiet' \in 0 .. W
  BY <1>1 DEF Accepted, AgeBy
<1>5. TypeOK'
  BY <1>3, <1>4 DEF TypeOK, Accepted
<1>6. Elapsed(now', now') = 0 /\ Elapsed(now', now) = d
  BY <1>1, <1>2, ElapsedSelf, ElapsedAdvance
<1>7. ASSUME ever_degraded_', quiet' < W
      PROVE  Elapsed(now', last_degraded_ms_') = quiet'
  <2>1. CASE SeqGap(f)
    BY <1>6, <2>1 DEF Accepted, Accept
  <2>2. CASE ~SeqGap(f)
    <3>1. ever_degraded_ /\ quiet' = quiet + d /\ quiet + d < W
          /\ last_degraded_ms_' = last_degraded_ms_
      <4>1. ever_degraded_ /\ last_degraded_ms_' = last_degraded_ms_
            /\ quiet' = AgeBy(quiet, d)
        BY <1>7, <2>2, Zenon DEF Accepted, Accept
      <4>. QED
        BY <1>1, <1>7, <4>1 DEF AgeBy
    <3>2. Elapsed(now, last_degraded_ms_) = quiet
      BY <1>1, <3>1 DEF StampsAreTrue
    <3>. QED
      BY <1>1, <3>1, <3>2, ElapsedAdvance
  <2>. QED
    BY <2>1, <2>2
<1>8. StampsAreTrue'
  BY <1>6, <1>7, SilenceAssumption DEF StampsAreTrue, Accepted, Accept
<1>9. ComplaintIsRecent'
  <2>1. /\ have_control_' = TRUE /\ have_seq_' = TRUE
        /\ crc_error_' = FALSE /\ silence' = 0
    BY Zenon DEF Accepted, Accept
  <2>2. seq_gap_' => SeqGap(f)
    BY Zenon DEF Accepted, Accept, ComplaintIsRecent
  <2>3. SeqGap(f) => ever_degraded_' /\ quiet' = d
    BY Zenon DEF Accepted, Accept
  <2>. QED
    BY <1>1, <2>1, <2>2, <2>3 DEF ComplaintIsRecent
<1>. QED
  BY <1>5, <1>8, <1>9

(* The invariant holds of every behaviour without a full turn of silence.  *)
LEMMA ControllerStep ==
  ASSUME NoFullTurn, ControllerInv, [Next]_vars PROVE ControllerInv'
<1>1. CASE Tick
  BY <1>1, ControllerTick
<1>2. CASE \E f \in Frames : Ignored(f) \/ Rejected(f)
  BY <1>2, ControllerIgnored, ControllerRejected
<1>3. CASE AcceptAny
  BY <1>3, ControllerAccepted DEF AcceptAny
<1>4. CASE UNCHANGED vars
  BY <1>4 DEF vars, controllerVars, commandVars, linkVars, ControllerInv,
     TypeOK, ControllerTypeOK, StampsAreTrue, ComplaintIsRecent
<1>. QED
  BY <1>1, <1>2, <1>3, <1>4 DEF Next

LEMMA ControllerInvariant ==
  ASSUME NoFullTurn PROVE Spec => []ControllerInv
<1>1. Init => ControllerInv
  BY ControllerInit
<1>2. ControllerInv /\ [Next]_vars => ControllerInv'
  BY ControllerStep
<1>. QED
  BY <1>1, <1>2, PTL DEF Spec

(* Every field of the controller keeps its type.                           *)
THEOREM TypeCorrect == ASSUME NoFullTurn PROVE Spec => []TypeOK
<1>1. ControllerInv => TypeOK
  BY DEF ControllerInv
<1>. QED
  BY <1>1, ControllerInvariant, PTL

(* The watchdog, which only has wrapping stamps to go by, trips exactly    *)
(* when no frame has arrived in time.                                      *)
LEMMA WatchdogIsExact ==
  ASSUME ControllerInv
  PROVE  WatchdogTripped(now) <=>
           ~have_control_ \/ silence >= WatchdogTimeout
BY DEF ControllerInv, StampsAreTrue, WatchdogTripped

(* A tripped watchdog is all it takes to be failed safe.                   *)
LEMMA TrippedIsSafe ==
  ASSUME NEW t, WatchdogTripped(t) PROVE FailedSafe(t)
BY Zenon DEF FailedSafe, CommandedOutputs, EffectiveStop, JetsonLinkState,
   C2LinkState, IndicatorState, FaultWord

(* SilenceFailsSafe: watchdogTripped() and everything derived from it fail *)
(* safe after WatchdogTimeout true milliseconds without a valid frame.     *)
THEOREM SilenceIsSafe == ASSUME NoFullTurn PROVE Spec => []SilenceFailsSafe
<1>1. ControllerInv => SilenceFailsSafe
  BY WatchdogIsExact, TrippedIsSafe DEF SilenceFailsSafe
<1>. QED
  BY <1>1, ControllerInvariant, PTL

(* LinkOkIsClean: jetsonLinkState() never says OK over a standing sequence *)
(* gap or CRC error, for every hold that outlasts the watchdog.            *)
THEOREM LinkIsClean ==
  ASSUME NoFullTurn, HoldOutlasts PROVE Spec => []LinkOkIsClean
<1>1. ControllerInv => LinkOkIsClean
  <2> SUFFICES ASSUME ControllerInv, NEW d \in 0 .. ReadSkew,
                      JetsonLinkState(now, Advance(now, d)) = "OK",
                      seq_gap_ \/ crc_error_
               PROVE  FALSE
    BY DEF LinkOkIsClean
  <2> USE ClockAssumption, ControllerAssumption
  <2>1. ~WatchdogTripped(now) /\ ~RecentlyDegraded(Advance(now, d))
    BY Zenon DEF JetsonLinkState
  <2>2. have_control_ /\ silence < WatchdogTimeout
    BY <2>1, WatchdogIsExact DEF ControllerInv, TypeOK
  <2>3. /\ now \in Stamp /\ last_degraded_ms_ \in Stamp
        /\ quiet \in 0 .. W /\ silence \in Nat /\ d \in Nat
    BY DEF ControllerInv, TypeOK, ControllerTypeOK
  <2>4. ever_degraded_ /\ quiet <= silence + ReadSkew
    BY <2>2 DEF ControllerInv, ComplaintIsRecent
  <2>5. quiet + d < WatchdogTimeout + 2 * ReadSkew
    BY <2>2, <2>3, <2>4
  <2>6. quiet + d < W /\ quiet < W /\ quiet + d < DegradedHold
    BY <2>3, <2>5 DEF HoldOutlasts
  <2>7. Elapsed(now, last_degraded_ms_) = quiet
    BY <2>4, <2>6 DEF ControllerInv, StampsAreTrue
  <2>8. Elapsed(Advance(now, d), last_degraded_ms_) = quiet + d
    BY <2>3, <2>6, <2>7, ElapsedAdvance
  <2>. QED
    BY <2>1, <2>4, <2>6, <2>8 DEF RecentlyDegraded
<1>. QED
  BY <1>1, ControllerInvariant, PTL

(* Between accepted frames the command state stands still, a tripped       *)
(* watchdog stays tripped, and a complaint can only be added.              *)
LEMMA OthersRestoreNothing ==
  ASSUME ControllerInv, ControllerInv', [Next]_vars, ~AcceptAny
  PROVE  /\ UNCHANGED commandVars
         /\ WatchdogTripped(now) => WatchdogTripped(now)'
         /\ (protocol_error_ => protocol_error_') /\ (crc_error_ => crc_error_')
         /\ (seq_gap_ => seq_gap_')
<1>1. CASE Tick
  <2>1. UNCHANGED <<commandVars, protocol_error_, crc_error_, seq_gap_>>
    BY <1>1 DEF Tick, controllerVars, linkVars
  <2>2. silence' = (IF have_control_ THEN silence + 1 ELSE silence)
        /\ have_control_' = have_control_ /\ silence \in Nat
    BY <1>1, <2>1 DEF Tick, commandVars, ControllerInv, TypeOK
  <2>3. WatchdogTripped(now) <=> ~have_control_ \/ silence >= WatchdogTimeout
    BY WatchdogIsExact
  <2>4. WatchdogTripped(now)' <=>
          ~have_control_' \/ silence' >= WatchdogTimeout
    BY DEF ControllerInv, StampsAreTrue, WatchdogTripped
  <2>. QED
    BY <2>1, <2>2, <2>3, <2>4, ControllerAssumption
<1>2. ASSUME NEW f \in Frames, Ignored(f) \/ Rejected(f)
      PROVE  /\ UNCHANGED <<now, commandVars>>
             /\ (protocol_error_ => protocol_error_')
             /\ (crc_error_ => crc_error_') /\ (seq_gap_ => seq_gap_')
  <2>1. CASE Ignored(f)
    <3>1. UNCHANGED <<now, commandVars>> /\ UNCHANGED linkVars
      BY <2>1 DEF Ignored, IgnoreForeign
    <3>. QED
      BY <3>1 DEF linkVars
  <2>2. CASE Rejected(f)
    <3>1. UNCHANGED <<now, commandVars>> /\ UNCHANGED seq_gap_
      BY <2>2 DEF Rejected, Reject
    <3>2. (protocol_error_ => protocol_error_') /\ (crc_error_ => crc_error_')
      BY <2>2, Zenon DEF Rejected, Reject
    <3>. QED
      BY <3>1, <3>2
  <2>. QED
    BY <1>2, <2>1, <2>2
<1>3. CASE \E f \in Frames : Ignored(f) \/ Rejected(f)
  <2>1. /\ UNCHANGED <<now, commandVars>>
        /\ (protocol_error_ => protocol_error_')
        /\ (crc_error_ => crc_error_') /\ (seq_gap_ => seq_gap_')
    BY <1>2, <1>3
  <2>. QED
    BY <2>1 DEF commandVars, WatchdogTripped
<1>4. CASE UNCHANGED vars
  BY <1>4 DEF vars, controllerVars, commandVars, linkVars, WatchdogTripped
<1>. QED
  BY <1>1, <1>3, <1>4 DEF Next

(* OnlyAFrameRestores: no rejected or foreign frame and no passage of time *)
(* starts the rover, revives a link or clears a fault.                     *)
THEOREM OnlyFramesRestore ==
  ASSUME NoFullTurn PROVE Spec => OnlyAFrameRestores
<1> DEFINE Restores ==
      /\ CommandedOutputs(now)' \in {CommandedOutputs(now), ZeroCmd}
      /\ JetsonLinkState(now, now) = "LOST"
           => JetsonLinkState(now, now)' = "LOST"
      /\ C2LinkState(now)' \in {C2LinkState(now), "NOT_REPORTED"}
      /\ FaultWord({}, now, now) \ {"C2_LINK_LOST"}
           \subseteq FaultWord({}, now, now)'
<1>1. ControllerInv /\ ControllerInv' /\ [Next]_vars
        => [~AcceptAny => Restores]_vars
  <2> SUFFICES ASSUME ControllerInv, ControllerInv', [Next]_vars, ~AcceptAny
               PROVE  Restores
    OBVIOUS
  <2>1. /\ last_control_' = last_control_
        /\ WatchdogTripped(now) => WatchdogTripped(now)'
        /\ (protocol_error_ => protocol_error_') /\ (crc_error_ => crc_error_')
        /\ (seq_gap_ => seq_gap_')
    BY OthersRestoreNothing DEF commandVars
  <2>2. CommandedOutputs(now)' \in {CommandedOutputs(now), ZeroCmd}
    BY <2>1, Zenon DEF CommandedOutputs, EffectiveStop
  <2>3. JetsonLinkState(now, now) = "LOST" => WatchdogTripped(now)
    BY DEF JetsonLinkState
  <2>4. WatchdogTripped(now)' => JetsonLinkState(now, now)' = "LOST"
    BY Zenon DEF JetsonLinkState
  <2>5. C2LinkState(now)' \in {C2LinkState(now), "NOT_REPORTED"}
    BY <2>1 DEF C2LinkState
  <2>6. FaultWord({}, now, now) \ {"C2_LINK_LOST"}
          \subseteq FaultWord({}, now, now)'
    BY <2>1 DEF FaultWord
  <2>. QED
    BY <2>1, <2>2, <2>3, <2>4, <2>5, <2>6
<1>. QED
  BY <1>1, ControllerInvariant, PTL DEF Spec, OnlyAFrameRestores

(* Reading the code's state as the switch's: the output and its age.       *)
SwitchAge == IF have_control_ /\ silence < WatchdogTimeout
               THEN silence ELSE WatchdogTimeout

(* The output, by the true silence rather than by the stamps.              *)
OutputIsTimed ==
  CommandedOutputs(now) =
    IF SwitchAge < WatchdogTimeout /\ Permits(last_control_)
      THEN last_control_.cmd ELSE ZeroCmd

(* What is commanded is what the switch may put out, and can be commanded. *)
LEMMA OutputBySilence ==
  ControllerInv => OutputIsTimed /\ CommandedOutputs(now) \in Commands
<1> SUFFICES ASSUME ControllerInv
             PROVE  OutputIsTimed /\ CommandedOutputs(now) \in Commands
  OBVIOUS
<1>1. silence \in Nat /\ WatchdogTimeout \in Nat /\ ZeroCmd \in Commands
  BY ControllerAssumption DEF ControllerInv, TypeOK
<1>2. WatchdogTripped(now) <=> ~(SwitchAge < WatchdogTimeout)
  BY <1>1, WatchdogIsExact DEF SwitchAge
<1>3. OutputIsTimed
  BY <1>2, Zenon DEF OutputIsTimed, CommandedOutputs, EffectiveStop
<1>4. last_control_.cmd \in Commands
  BY DEF ControllerInv, TypeOK, ControllerTypeOK, ControlMsg
<1>. QED
  BY <1>1, <1>3, <1>4 DEF OutputIsTimed

(* ImplementsDeadman: the controller is a dead man's switch.  Every step   *)
(* of it gives a command, ages one by a millisecond or does nothing that   *)
(* a bystander can see.                                                    *)
THEOREM ControllerIsADeadman ==
  ASSUME NoFullTurn PROVE Spec => ImplementsDeadman
<1> USE ControllerAssumption
<1>1. Init => DM!Init
  <2> SUFFICES ASSUME Init PROVE DM!Init
    OBVIOUS
  <2>1. ~have_control_
    BY DEF Init, BootController
  <2>2. CommandedOutputs(now) = ZeroCmd
    BY <2>1, Zenon DEF CommandedOutputs, EffectiveStop, WatchdogTripped
  <2>. QED
    BY <2>1, <2>2 DEF DM!Init
<1>a. ControllerInv => OutputIsTimed /\ CommandedOutputs(now) \in Commands
  BY OutputBySilence
<1>b. (ControllerInv => OutputIsTimed /\ CommandedOutputs(now) \in Commands)'
  BY <1>a, PTL
<1>2. ControllerInv /\ ControllerInv' /\ [Next]_vars => [DM!Next]_(DM!vars)
  <2> SUFFICES ASSUME ControllerInv, ControllerInv', [Next]_vars
               PROVE  [DM!Next]_(DM!vars)
    OBVIOUS
  <2>1. OutputIsTimed /\ OutputIsTimed'
        /\ CommandedOutputs(now)' \in Commands
    BY <1>a, <1>b
  <2>2. silence \in Nat /\ silence' \in Nat
    BY DEF ControllerInv, TypeOK
  <2>3. CASE AcceptAny
    <3>1. have_control_' /\ silence' = 0
      BY <2>3, Zenon DEF AcceptAny, Accepted, Accept
    <3>. QED
      BY <2>1, <3>1 DEF DM!Next, DM!Command
  <2>4. CASE Tick
    <3>1. have_control_' = have_control_ /\ last_control_' = last_control_
          /\ silence' = (IF have_control_ THEN silence + 1 ELSE silence)
      BY <2>4 DEF Tick, controllerVars, commandVars
    <3>2. CASE have_control_ /\ silence < WatchdogTimeout
      <4>1. SwitchAge = silence /\ SwitchAge' = silence + 1
        BY <2>2, <3>1, <3>2 DEF SwitchAge
      <4>2. CommandedOutputs(now)' = IF SwitchAge' = WatchdogTimeout
              THEN ZeroCmd ELSE CommandedOutputs(now)
        BY <2>1, <2>2, <3>1, <3>2, <4>1 DEF OutputIsTimed
      <4>. QED
        BY <3>2, <4>1, <4>2 DEF DM!Next, DM!Pass, SwitchAge
    <3>3. CASE ~(have_control_ /\ silence < WatchdogTimeout)
      <4>1. SwitchAge = WatchdogTimeout /\ SwitchAge' = WatchdogTimeout
        BY <2>2, <3>1, <3>3 DEF SwitchAge
      <4>2. CommandedOutputs(now)' = CommandedOutputs(now)
        BY <2>1, <4>1 DEF OutputIsTimed
      <4>. QED
        BY <4>1, <4>2 DEF DM!vars, SwitchAge
    <3>. QED
      BY <3>2, <3>3
  <2>5. ASSUME UNCHANGED <<now, commandVars, silence>>
        PROVE  [DM!Next]_(DM!vars)
    <3>1. SwitchAge' = SwitchAge /\ CommandedOutputs(now)' = CommandedOutputs(now)
      BY <2>1, <2>5 DEF commandVars, SwitchAge, OutputIsTimed
    <3>. QED
      BY <3>1 DEF DM!vars, SwitchAge
  <2>6. CASE \E f \in Frames : Ignored(f) \/ Rejected(f)
    <3>1. UNCHANGED <<now, commandVars, silence>>
      BY <2>6 DEF Ignored, IgnoreForeign, Rejected, Reject
    <3>. QED
      BY <2>5, <3>1
  <2>7. CASE UNCHANGED vars
    <3>1. UNCHANGED <<now, commandVars, silence>>
      BY <2>7 DEF vars, controllerVars
    <3>. QED
      BY <2>5, <3>1
  <2>. QED
    BY <2>3, <2>4, <2>6, <2>7 DEF Next
<1>. QED
  BY <1>1, <1>2, ControllerInvariant, PTL
     DEF Spec, ImplementsDeadman, DM!Spec
=============================================================================
