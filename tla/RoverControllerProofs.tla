------------------------ MODULE RoverControllerProofs -----------------------
(***************************************************************************)
(* What ingestFrame() preserves of the controller's state, for every       *)
(* clock width, sequence width, counter width and set of frames.           *)
(***************************************************************************)
EXTENDS RoverController, TLAPS

(* A stamp advanced by at most a full turn is a stamp.                     *)
LEMMA AdvanceType ==
  ASSUME NEW t \in Stamp, NEW d \in Nat, d <= W
  PROVE  Advance(t, d) \in Stamp
BY ClockAssumption DEF Stamp, Advance

(* An unsigned difference is a stamp.                                      *)
LEMMA ElapsedType ==
  ASSUME NEW t \in Stamp, NEW u \in Stamp
  PROVE  Elapsed(t, u) \in Stamp
BY ClockAssumption DEF Stamp, Elapsed

(* No time has elapsed since a stamp just taken.                           *)
LEMMA ElapsedSelf ==
  ASSUME NEW t \in Stamp
  PROVE  Elapsed(t, t) = 0
BY ClockAssumption DEF Stamp, Elapsed

(* Elapsed time is additive until it reaches a full turn of the clock.     *)
LEMMA ElapsedAdvance ==
  ASSUME NEW t \in Stamp, NEW u \in Stamp, NEW d \in Nat,
         Elapsed(t, u) + d < W
  PROVE  Elapsed(Advance(t, d), u) = Elapsed(t, u) + d
BY ClockAssumption DEF Stamp, Elapsed, Advance

(* decodeControl() answers one of its results.                             *)
LEMMA DecodeType == ASSUME NEW f PROVE DecodeControl(f) \in DecodeResult
BY DEF DecodeControl, DecodeResult, Defects

(* Counting keeps a counter in its width.                                  *)
LEMMA CountType ==
  ASSUME NEW c \in Counter, NEW n \in Nat PROVE Count(c, n) \in Counter
<1>1. CounterMod \in Nat \ {0} /\ c + n \in Nat
  BY ControllerAssumption DEF Counter
<1>. QED
  BY <1>1 DEF Count, Counter

(* The 8-bit difference of two sequence numbers is a natural number.       *)
LEMMA SeqDeltaType ==
  ASSUME NEW a \in 0 .. SeqMod - 1, NEW b \in 0 .. SeqMod - 1
  PROVE  SeqDelta(a, b) \in 0 .. SeqMod - 1
BY ControllerAssumption DEF SeqDelta

(* The boot state is a state of the controller.                            *)
LEMMA BootTypes ==
  /\ 0 \in Stamp /\ 0 \in 0 .. SeqMod - 1
  /\ "OK" \in DecodeResult
  /\ BootControl \in ControlMsg
  /\ NoCounts \in Counters
<1> USE ClockAssumption, ControllerAssumption
<1>1. 0 \in Stamp /\ 0 \in 0 .. SeqMod - 1 /\ 0 \in Counter
  BY DEF Stamp, Counter
<1>2. BootControl \in ControlMsg
  BY DEF BootControl, ControlMsg, Modes, Indicators
<1>. QED
  BY <1>1, <1>2 DEF DecodeResult, NoCounts, Counters

LEMMA BootIsTyped == ASSUME now = 0, BootController PROVE ControllerTypeOK
BY BootTypes, Zenon DEF BootController, ControllerTypeOK

LEMMA RebootIsTyped ==
  ASSUME now' = 0, RebootController PROVE ControllerTypeOK'
BY BootTypes, Zenon DEF RebootController, ControllerTypeOK

(* Time moves the clock alone.                                             *)
LEMMA TimeIsTyped ==
  ASSUME ControllerTypeOK, now' \in Stamp, UNCHANGED controllerVars
  PROVE  ControllerTypeOK'
BY Zenon DEF ControllerTypeOK, controllerVars, commandVars, linkVars

(* A frame for another consumer moves a counter, ...                       *)
LEMMA IgnoredIsTyped ==
  ASSUME ControllerTypeOK, NEW f, IgnoreForeign(f) PROVE ControllerTypeOK'
<1>1. counters' \in Counters
  BY CountType DEF ControllerTypeOK, IgnoreForeign, Counters
<1>2. UNCHANGED <<now, commandVars, linkVars, last_decode_>>
  BY DEF IgnoreForeign
<1>. QED
  BY <1>1, <1>2, Zenon DEF ControllerTypeOK, commandVars, linkVars

(* ... a defective frame the flags of the link, ...                        *)
LEMMA RejectedIsTyped ==
  ASSUME ControllerTypeOK, NEW f, Reject(f) PROVE ControllerTypeOK'
<1>1. counters' \in Counters
  BY CountType DEF ControllerTypeOK, Reject, Counters
<1>2. last_decode_' \in DecodeResult
  BY DecodeType DEF Reject
<1>. QED
  BY <1>1, <1>2 DEF ControllerTypeOK, Reject, commandVars

(* ... and a valid one nearly everything.                                  *)
LEMMA AcceptedIsTyped ==
  ASSUME ControllerTypeOK, NEW f \in FrameType, NEW d \in 0 .. ReadSkew,
         Accept(f, d)
  PROVE  ControllerTypeOK'
<1> USE ClockAssumption, ControllerAssumption
<1>1. /\ now \in Stamp
      /\ last_seq_ \in 0 .. SeqMod - 1 /\ counters \in Counters
      /\ f.seq \in 0 .. SeqMod - 1 /\ f.msg \in ControlMsg
      /\ d \in Nat /\ d < W
      /\ now' = Advance(now, d)
  BY DEF ControllerTypeOK, Accept, FrameType
<1>2. now' \in Stamp
  BY <1>1, AdvanceType
<1>3. counters' \in Counters
  <2> DEFINE delta == SeqDelta(last_seq_, f.seq)
             gap == SeqGap(f)
  <2>1. delta \in Nat
    <3>1. SeqDelta(last_seq_, f.seq) \in 0 .. SeqMod - 1
      BY ONLY <1>1, SeqDeltaType
    <3>. QED
      BY <3>1
  <2>2. delta > 1 => delta - 1 \in Nat
    BY <2>1
  <2>3. counters' = [counters EXCEPT !.accepted = Count(@, 1),
                       !.seq_gaps = IF gap THEN Count(@, 1) ELSE @,
                       !.lost = IF gap /\ delta > 1 THEN Count(@, delta - 1)
                                                    ELSE @]
    BY DEF Accept
  <2> HIDE DEF delta, gap
  <2>. QED
    BY <1>1, <2>2, <2>3, CountType DEF Counters
<1>4. seq_gap_' \in BOOLEAN /\ ever_degraded_' \in BOOLEAN
  BY Zenon DEF ControllerTypeOK, Accept, SeqGap
<1>5. last_degraded_ms_' \in Stamp
  BY <1>1 DEF ControllerTypeOK, Accept
<1>. QED
  BY <1>1, <1>2, <1>3, <1>4, <1>5 DEF ControllerTypeOK, Accept, DecodeResult

LEMMA IngestIsTyped ==
  ASSUME ControllerTypeOK, NEW f \in FrameType, IngestFrame(f)
  PROVE  ControllerTypeOK'
BY IgnoredIsTyped, RejectedIsTyped, AcceptedIsTyped DEF IngestFrame
=============================================================================
