------------------------ MODULE RoverFirmwareProofs -------------------------
(***************************************************************************)
(* How long the drives can stay energised, for every watchdog time, every  *)
(* queue and every set of frames, while no command is followed to the age  *)
(* of a full turn of the clock.  The clock moves by Tick alone here, so    *)
(* ReadSkew is 0.                                                          *)
(***************************************************************************)
EXTENDS RoverFirmware, RoverControllerProofs, SequenceTheorems

ClockIsTicked == ReadSkew = 0 /\ MaxAge < W

Entry == [frame : Frames, age : Nat]

(* What a queue holds, first and after it, and a queue with each entry     *)
(* replaced.                                                               *)
LEMMA QueueEntries ==
  ASSUME NEW S, NEW q \in Seq(S) PROVE \A i \in DOMAIN q : q[i] \in S
OBVIOUS

LEMMA QueueHead ==
  ASSUME NEW S, NEW q \in Seq(S), q # <<>>
  PROVE  /\ 1 \in DOMAIN q /\ Head(q) = q[1] /\ Tail(q) \in Seq(S)
         /\ \A i \in DOMAIN Tail(q) :
              i + 1 \in DOMAIN q /\ Tail(q)[i] = q[i + 1]
OBVIOUS

LEMMA QueueAppend ==
  ASSUME NEW S, NEW q \in Seq(S), NEW e \in S
  PROVE  /\ Append(q, e) \in Seq(S)
         /\ \A i \in DOMAIN Append(q, e) :
              \/ i \in DOMAIN q /\ Append(q, e)[i] = q[i]
              \/ Append(q, e)[i] = e
OBVIOUS

LEMMA QueueReplace ==
  ASSUME NEW S, NEW q \in Seq(S), NEW g,
         g = [i \in DOMAIN q |-> g[i]], \A i \in DOMAIN q : g[i] \in S
  PROVE  g \in Seq(S)
<1>1. PICK n \in Nat : DOMAIN q = 1 .. n
  OBVIOUS
<1>. QED
  BY <1>1

LEMMA Magnitudes ==
  /\ W \in Nat /\ 1 <= W /\ MaxAge \in Nat
  /\ HwWatchdog \in Nat /\ HwWatchdog > 0 /\ WatchdogTimeout \in Nat
BY ClockAssumption, ControllerAssumption, FirmwareAssumption

LEMMA StampDifference ==
  ASSUME NEW t \in Stamp, NEW u \in Stamp PROVE Elapsed(t, u) \in Nat
<1>1. Elapsed(t, u) \in Stamp
  BY ElapsedType
<1>. QED
  BY <1>1, ClockAssumption DEF Stamp

HoldTypeOK ==
  /\ now \in Stamp
  /\ last_control_ms_ \in Stamp
  /\ since_feed \in 0 .. HwWatchdog
  /\ command_age \in Nat
  /\ rx \in Seq(Entry)

(* What waits in the queue came in since it was last found empty.          *)
Within(queue, age) ==
  \A i \in DOMAIN queue :
    queue[i].frame.id = "CONTROL" /\ queue[i].age <= age
QueueAge == IF pc = "drain" THEN HwWatchdog + since_feed ELSE since_feed

(* The command is older than its stamp by no more than it waited.          *)
WaitIsBounded ==
  have_control_ =>
    /\ Elapsed(now, last_control_ms_) <= command_age
    /\ command_age <= 2 * HwWatchdog + Elapsed(now, last_control_ms_)

(* An output was read in this pass of the loop, ...                        *)
PassBound == 2 * HwWatchdog + WatchdogTimeout + since_feed
OutputIsFresh ==
  drive # ZeroCmd => pc = "motors" /\ have_control_ /\ command_age < PassBound

(* ... and the drives have it from this pass or from the one before.       *)
PinsBound ==
  IF pc \in {"drain", "outputs", "motors"} THEN PassBound + HwWatchdog
                                           ELSE PassBound
PinsAreFresh == Live => have_control_ /\ command_age < PinsBound

HoldInv ==
  /\ HoldTypeOK
  /\ Within(rx, QueueAge)
  /\ WaitIsBounded
  /\ OutputIsFresh
  /\ PinsAreFresh

LEMMA HoldStarts == Init => HoldInv
<1> SUFFICES ASSUME Init PROVE HoldInv
  OBVIOUS
<1> USE ClockAssumption, ControllerAssumption, FirmwareAssumption
<1>1. HoldTypeOK
  BY DEF Init, BootController, HoldTypeOK, Stamp
<1>2. Within(rx, QueueAge)
  BY DEF Init, Within
<1>3. ~have_control_ /\ drive = ZeroCmd /\ pins = SafePins
  BY DEF Init, BootController
<1>4. ~Live
  BY <1>3 DEF Live, SafePins
<1>. QED
  BY <1>1, <1>2, <1>3, <1>4
     DEF HoldInv, WaitIsBounded, OutputIsFresh, PinsAreFresh

(* A millisecond ages the command, which is never old enough to wrap, ...  *)
LEMMA CommandAges ==
  ASSUME ClockIsTicked, HoldInv, Tick, have_control_
  PROVE  /\ Elapsed(now, last_control_ms_) \in Nat
         /\ Elapsed(now', last_control_ms_) = Elapsed(now, last_control_ms_) + 1
<1> USE Magnitudes
<1>1. /\ now \in Stamp /\ last_control_ms_ \in Stamp /\ command_age \in Nat
      /\ command_age < MaxAge /\ now' = Advance(now, 1)
  BY DEF HoldInv, HoldTypeOK, Tick
<1>2. Elapsed(now, last_control_ms_) \in Nat
  BY <1>1, StampDifference
<1>3. Elapsed(now, last_control_ms_) + 1 < W
  BY <1>1, <1>2 DEF HoldInv, WaitIsBounded, ClockIsTicked
<1>. QED
  BY <1>1, <1>2, <1>3, ElapsedAdvance

(* ... and ages the queue and the pass alike.                              *)
LEMMA HoldTick == ASSUME ClockIsTicked, HoldInv, Tick PROVE HoldInv'
<1> USE Magnitudes
<1>1. /\ now \in Stamp /\ last_control_ms_ \in Stamp
      /\ since_feed \in 0 .. HwWatchdog /\ command_age \in Nat
      /\ rx \in Seq(Entry)
  BY DEF HoldInv, HoldTypeOK
<1>2. /\ since_feed < HwWatchdog /\ since_feed' = since_feed + 1
      /\ have_control_ => command_age < MaxAge
      /\ now' = Advance(now, 1)
      /\ rx' = [i \in DOMAIN rx |-> [rx[i] EXCEPT !.age = @ + 1]]
      /\ command_age' = IF have_control_ THEN command_age + 1 ELSE command_age
      /\ UNCHANGED <<have_control_, last_control_ms_, pc, drive, pins>>
  BY DEF Tick, controllerVars, commandVars, loopVars
<1>3. now' \in Stamp
  BY <1>1, <1>2, AdvanceType
<1>4. \A i \in DOMAIN rx : rx[i] \in Entry
  BY <1>1, QueueEntries
<1>5. /\ DOMAIN rx' = DOMAIN rx
      /\ \A i \in DOMAIN rx :
           /\ rx[i].age \in Nat /\ rx'[i] \in Entry
           /\ rx'[i].frame = rx[i].frame /\ rx'[i].age = rx[i].age + 1
  <2>1. DOMAIN rx' = DOMAIN rx
        /\ \A i \in DOMAIN rx : rx'[i] = [rx[i] EXCEPT !.age = @ + 1]
    BY <1>2
  <2>. QED
    BY <1>4, <2>1 DEF Entry
<1>6. rx' \in Seq(Entry)
  <2>1. rx' = [i \in DOMAIN rx |-> rx'[i]]
    BY <1>2
  <2>. QED
    BY <1>1, <1>5, <2>1, QueueReplace
<1>7. HoldTypeOK'
  BY <1>1, <1>2, <1>3, <1>6 DEF HoldTypeOK
<1>8. Within(rx, QueueAge)'
  <2>1. QueueAge \in Nat /\ QueueAge' = QueueAge + 1
    <3>1. since_feed \in Nat /\ since_feed' = since_feed + 1 /\ pc' = pc
      BY <1>1, <1>2
    <3>. QED
      BY <3>1 DEF QueueAge
  <2>2. \A i \in DOMAIN rx : rx[i].frame.id = "CONTROL" /\ rx[i].age <= QueueAge
    BY DEF HoldInv, Within
  <2>. QED
    BY <1>5, <2>1, <2>2 DEF Within
<1>9. WaitIsBounded'
  <2> SUFFICES ASSUME have_control_ PROVE WaitIsBounded'
    BY <1>2 DEF WaitIsBounded
  <2>1. /\ Elapsed(now, last_control_ms_) \in Nat
        /\ Elapsed(now', last_control_ms_) = Elapsed(now, last_control_ms_) + 1
    BY CommandAges
  <2>. QED
    BY <1>1, <1>2, <1>3, <2>1 DEF HoldInv, WaitIsBounded
<1>10. OutputIsFresh'
  BY <1>1, <1>2, <1>3 DEF HoldInv, OutputIsFresh, PassBound
<1>11. PinsAreFresh'
  <2>1. (PassBound \in Nat /\ PassBound' = PassBound + 1)
        /\ (PinsBound \in Nat /\ PinsBound' = PinsBound + 1)
    <3>1. since_feed \in Nat /\ since_feed' = since_feed + 1 /\ pc' = pc
      BY <1>1, <1>2
    <3>2. PassBound \in Nat /\ PassBound' = PassBound + 1
      BY <3>1 DEF PassBound
    <3>. QED
      BY <3>1, <3>2 DEF PinsBound
  <2>2. Live' <=> Live
    BY <1>2 DEF Live
  <2>. QED
    BY <1>1, <1>2, <2>1, <2>2 DEF HoldInv, PinsAreFresh
<1>. QED
  BY <1>7, <1>8, <1>9, <1>10, <1>11 DEF HoldInv

(* A reset leaves nothing energised.                                       *)
LEMMA HoldReset == ASSUME HoldInv, HwReset PROVE HoldInv'
<1> USE Magnitudes
<1>1. /\ now' = 0 /\ last_control_ms_' = 0 /\ have_control_' = FALSE
      /\ since_feed' = 0 /\ command_age' = 0 /\ rx' = <<>>
      /\ drive' = ZeroCmd /\ pins' = SafePins
  BY DEF HwReset, RebootController, PinsAtReset
<1>2. HoldTypeOK'
  BY <1>1 DEF HoldTypeOK, Stamp
<1>3. Within(rx, QueueAge)'
  BY <1>1 DEF Within
<1>4. ~Live'
  BY <1>1 DEF Live, SafePins
<1>. QED
  BY <1>1, <1>2, <1>3, <1>4
     DEF HoldInv, WaitIsBounded, OutputIsFresh, PinsAreFresh

(* A frame joins the queue with no age.                                    *)
LEMMA HoldReceive ==
  ASSUME HoldInv, NEW f \in Frames, Receive(f) PROVE HoldInv'
<1> USE Magnitudes
<1> DEFINE entry == [frame |-> f, age |-> 0]
<1>1. /\ UNCHANGED <<now, have_control_, last_control_ms_, pc, drive, pins,
                     since_feed, command_age>>
      /\ rx' = Append(rx, entry) /\ f.id = "CONTROL"
  BY DEF Receive, ctlVars, controllerVars, commandVars, loopVars, boardVars
<1>2. rx \in Seq(Entry)
      /\ since_feed \in 0 .. HwWatchdog /\ entry \in Entry
  BY DEF HoldInv, HoldTypeOK, Entry
<1>3. HoldTypeOK'
  BY <1>1, <1>2, QueueAppend DEF HoldInv, HoldTypeOK
<1>4. Within(rx, QueueAge)'
  <2>1. QueueAge' = QueueAge /\ QueueAge \in Nat
    BY <1>1, <1>2 DEF QueueAge
  <2>2. entry.frame.id = "CONTROL" /\ entry.age <= QueueAge
    BY <1>1, <2>1
  <2> HIDE DEF entry
  <2>3. \A i \in DOMAIN Append(rx, entry) :
          \/ i \in DOMAIN rx /\ Append(rx, entry)[i] = rx[i]
          \/ Append(rx, entry)[i] = entry
    BY <1>2, QueueAppend
  <2>. QED
    BY <1>1, <2>1, <2>2, <2>3 DEF HoldInv, Within
<1>. QED
  BY <1>1, <1>3, <1>4 DEF HoldInv, WaitIsBounded, OutputIsFresh, PinsAreFresh,
     PassBound, PinsBound, Live

(* A new pass: what waits may be a pass old, and so may the outputs.       *)
LEMMA HoldFeed == ASSUME HoldInv, Feed PROVE HoldInv'
<1> USE Magnitudes
<1>1. /\ UNCHANGED <<now, have_control_, last_control_ms_, drive, pins, rx,
                     command_age>>
      /\ since_feed' = 0 /\ pc = "feed" /\ pc' = "drain"
  BY DEF Feed, Goto, ctlVars, controllerVars, commandVars, rxVars
<1>2. since_feed \in 0 .. HwWatchdog /\ command_age \in Nat
      /\ rx \in Seq(Entry)
  BY DEF HoldInv, HoldTypeOK
<1>3. HoldTypeOK'
  BY <1>1 DEF HoldInv, HoldTypeOK
<1>4. Within(rx, QueueAge)'
  <2>1. \A i \in DOMAIN rx : rx[i].age \in Nat
    <3>1. \A i \in DOMAIN rx : rx[i] \in Entry
      BY <1>2, QueueEntries
    <3>. QED
      BY <3>1 DEF Entry
  <2>. QED
    BY <1>1, <1>2, <2>1 DEF HoldInv, Within, QueueAge
<1>5. OutputIsFresh' /\ PinsAreFresh'
  BY <1>1, <1>2 DEF HoldInv, OutputIsFresh, PinsAreFresh, PassBound, PinsBound, Live
<1>. QED
  BY <1>1, <1>3, <1>4, <1>5 DEF HoldInv, WaitIsBounded

(* A command is taken from the queue with the age it has there.            *)
LEMMA HoldDrainFrame ==
  ASSUME ClockIsTicked, HoldInv, DrainFrame PROVE HoldInv'
<1> USE Magnitudes
<1> DEFINE f == Head(rx).frame
           wait == Head(rx).age
<1>1. /\ now \in Stamp /\ last_control_ms_ \in Stamp
      /\ since_feed \in 0 .. HwWatchdog /\ command_age \in Nat
      /\ rx \in Seq(Entry)
  BY DEF HoldInv, HoldTypeOK
<1>2. /\ pc = "drain" /\ rx # <<>> /\ IngestFrame(f)
      /\ rx' = Tail(rx)
      /\ command_age' = IF last_decode_' = "OK" THEN wait ELSE command_age
      /\ UNCHANGED <<pc, drive, pins, since_feed>>
  BY DEF DrainFrame, loopVars, boardVars
<1>3. /\ 1 \in DOMAIN rx /\ Head(rx) = rx[1]
      /\ rx[1] \in Entry
      /\ Tail(rx) \in Seq(Entry)
      /\ \A i \in DOMAIN Tail(rx) : i + 1 \in DOMAIN rx /\ Tail(rx)[i] = rx[i + 1]
  <2>1. \A i \in DOMAIN rx : rx[i] \in Entry
    BY <1>1, QueueEntries
  <2>2. rx \in Seq(Entry) /\ rx # <<>>
    BY <1>1, <1>2
  <2>3. /\ 1 \in DOMAIN rx /\ Head(rx) = rx[1] /\ Tail(rx) \in Seq(Entry)
        /\ \A i \in DOMAIN Tail(rx) :
             i + 1 \in DOMAIN rx /\ Tail(rx)[i] = rx[i + 1]
    BY <2>2, QueueHead, Zenon
  <2>. QED
    BY <2>1, <2>3
<1>4. /\ f.id = "CONTROL" /\ wait \in Nat
      /\ wait <= HwWatchdog + since_feed
  BY <1>2, <1>3 DEF HoldInv, Within, QueueAge, Entry
<1>5. Within(rx, QueueAge)'
  BY <1>2, <1>3 DEF HoldInv, Within, QueueAge
<1>6. drive' = ZeroCmd
  BY <1>2 DEF HoldInv, OutputIsFresh
<1> HIDE DEF f, wait
<1>7. CASE Reject(f)
  <2>1. /\ UNCHANGED <<now, have_control_, last_control_ms_>>
        /\ last_decode_' # "OK"
    BY <1>7 DEF Reject, commandVars
  <2>2. command_age' = command_age
    BY <1>2, <2>1
  <2>3. HoldTypeOK'
    BY <1>1, <1>2, <1>3, <2>1, <2>2 DEF HoldTypeOK
  <2>. QED
    BY <1>2, <1>5, <1>6, <2>1, <2>2, <2>3 DEF HoldInv, WaitIsBounded,
       OutputIsFresh, PinsAreFresh, PassBound, PinsBound, Live
<1>8. CASE \E d \in 0 .. ReadSkew : Accept(f, d)
  <2>1. /\ last_decode_' = "OK" /\ have_control_'
        /\ now' = Advance(now, 0) /\ last_control_ms_' = now'
    BY <1>8 DEF Accept, ClockIsTicked
  <2>2. now' = now /\ command_age' = wait
    BY <1>1, <1>2, <2>1 DEF Advance, Stamp
  <2>3. HoldTypeOK'
    BY <1>1, <1>2, <1>3, <1>4, <2>1, <2>2 DEF HoldTypeOK
  <2>4. Elapsed(now', last_control_ms_') = 0
    BY <1>1, <2>1, <2>2, ElapsedSelf
  <2>5. WaitIsBounded'
    BY <1>1, <1>4, <2>2, <2>4 DEF WaitIsBounded
  <2>6. PinsAreFresh'
    BY <1>1, <1>2, <1>4, <2>1, <2>2 DEF PinsAreFresh, PinsBound, PassBound
  <2>. QED
    BY <1>5, <1>6, <2>3, <2>5, <2>6 DEF HoldInv, OutputIsFresh
<1>. QED
  BY <1>2, <1>4, <1>7, <1>8 DEF IngestFrame, IgnoreForeign

(* The queue is empty when the loop moves on.                              *)
LEMMA HoldDrainDone == ASSUME HoldInv, DrainDone PROVE HoldInv'
<1> USE Magnitudes
<1>1. /\ UNCHANGED <<now, have_control_, last_control_ms_, drive, pins, rx,
                     command_age, since_feed>>
      /\ rx = <<>> /\ pc = "drain" /\ pc' = "outputs"
  BY DEF DrainDone, Goto, ctlVars, controllerVars, commandVars, rxVars, boardVars
<1>2. HoldTypeOK' /\ Within(rx, QueueAge)'
  BY <1>1 DEF HoldInv, HoldTypeOK, Within
<1>. QED
  BY <1>1, <1>2 DEF HoldInv, WaitIsBounded, OutputIsFresh, PinsAreFresh,
     PassBound, PinsBound, Live

(* An output that is not zero is read before the watchdog has tripped.     *)
LEMMA HoldReadOutputs == ASSUME HoldInv, ReadOutputs PROVE HoldInv'
<1> USE Magnitudes
<1>1. /\ UNCHANGED <<now, have_control_, last_control_ms_, pins, rx,
                     command_age, since_feed>>
      /\ pc = "outputs" /\ pc' = "motors" /\ drive' = CommandedOutputs(now)
  BY DEF ReadOutputs, Goto, ctlVars, controllerVars, commandVars, rxVars, boardVars
<1>2. /\ now \in Stamp /\ last_control_ms_ \in Stamp
      /\ since_feed \in 0 .. HwWatchdog /\ command_age \in Nat
  BY DEF HoldInv, HoldTypeOK
<1>3. HoldTypeOK' /\ Within(rx, QueueAge)'
  BY <1>1 DEF HoldInv, HoldTypeOK, Within, QueueAge
<1>4. OutputIsFresh'
  <2> SUFFICES ASSUME drive' # ZeroCmd
               PROVE  have_control_ /\ command_age < PassBound
    BY <1>1 DEF OutputIsFresh, PassBound
  <2>1. have_control_ /\ ~(Elapsed(now, last_control_ms_) >= WatchdogTimeout)
    BY <1>1 DEF CommandedOutputs, EffectiveStop, WatchdogTripped
  <2>2. Elapsed(now, last_control_ms_) \in Nat
    BY <1>2, StampDifference
  <2>. QED
    BY <1>2, <2>1, <2>2 DEF HoldInv, WaitIsBounded, PassBound
<1>. QED
  BY <1>1, <1>3, <1>4 DEF HoldInv, WaitIsBounded, PinsAreFresh, PassBound,
     PinsBound, Live

(* The drives get the output of this pass.                                 *)
LEMMA HoldApplyOutputs == ASSUME HoldInv, ApplyOutputs PROVE HoldInv'
<1> USE Magnitudes
<1>1. /\ UNCHANGED <<now, have_control_, last_control_ms_, rx, command_age,
                     since_feed>>
      /\ pc = "motors" /\ pc' = "due" /\ drive' = ZeroCmd
      /\ pins' = [cmd |-> drive, stopped |-> EffectiveStop(now)]
  BY DEF ApplyOutputs, Goto, ctlVars, controllerVars, commandVars, rxVars, boardVars
<1>2. HoldTypeOK' /\ Within(rx, QueueAge)'
  BY <1>1 DEF HoldInv, HoldTypeOK, Within, QueueAge
<1>3. Live' => drive # ZeroCmd
  BY <1>1 DEF Live
<1>. QED
  BY <1>1, <1>2, <1>3 DEF HoldInv, WaitIsBounded, OutputIsFresh, PinsAreFresh,
     PassBound, PinsBound

(* Telemetry moves nothing that matters here.                              *)
LEMMA HoldTelemetry ==
  ASSUME HoldInv, NotDue \/ Due \/ SendTelemetry PROVE HoldInv'
<1>1. /\ UNCHANGED <<now, have_control_, last_control_ms_, drive, pins, rx,
                     command_age, since_feed>>
      /\ pc \notin {"drain", "outputs", "motors"}
      /\ pc' \notin {"drain", "outputs", "motors"}
  BY DEF NotDue, Due, SendTelemetry, SendDriveR, ReadFaults, SendPower,
     ReadJetsonLink, ReadC2Link, SendState, Send, Goto, ctlVars,
     controllerVars, commandVars, rxVars, boardVars
<1>2. HoldTypeOK' /\ Within(rx, QueueAge)'
  BY <1>1 DEF HoldInv, HoldTypeOK, Within, QueueAge
<1>. QED
  BY <1>1, <1>2 DEF HoldInv, WaitIsBounded, OutputIsFresh, PinsAreFresh,
     PassBound, PinsBound, Live

LEMMA HoldInvariant == ASSUME ClockIsTicked PROVE Spec => []HoldInv
<1>1. HoldInv /\ [Next]_vars => HoldInv'
  <2> SUFFICES ASSUME HoldInv, [Next]_vars PROVE HoldInv'
    OBVIOUS
  <2>1. CASE UNCHANGED vars
    BY <2>1 DEF vars, ctlVars, controllerVars, commandVars, loopVars, boardVars,
       rxVars, HoldInv, HoldTypeOK, Within, QueueAge, WaitIsBounded,
       OutputIsFresh, PinsAreFresh, PassBound, PinsBound, Live
  <2>2. CASE Loop
    BY <2>2, HoldFeed, HoldDrainFrame, HoldDrainDone, HoldReadOutputs,
       HoldApplyOutputs, HoldTelemetry DEF Loop
  <2>. QED
    BY <2>1, <2>2, HoldTick, HoldReset, HoldReceive DEF Next
<1>. QED
  BY <1>1, HoldStarts, PTL DEF Spec

(* The drives are energised only by a command that came in on the bus      *)
(* within the watchdog time and four hardware watchdog times, wherever the *)
(* loop hangs and however long the command waited in the queue.            *)
THEOREM DrivesFollowRecentCommands ==
  ASSUME ClockIsTicked PROVE Spec => []DrivenByRecentCommand
<1>1. HoldInv => DrivenByRecentCommand
  BY Magnitudes
     DEF HoldInv, HoldTypeOK, PinsAreFresh, PinsBound, PassBound,
         DrivenByRecentCommand, HoldBound
<1>. QED
  BY <1>1, HoldInvariant, PTL

(***************************************************************************)
(* Types                                                                   *)
(***************************************************************************)

LEMMA FrameIsTyped == ASSUME NEW f \in Frames PROVE f \in FrameType
BY ControllerAssumption

(* A field of the report is replaced, the other fields stay.               *)
LEMMA ReportField ==
  ASSUME DOMAIN report = DOMAIN NoReport, NEW field \in DOMAIN NoReport, NEW v
  PROVE  /\ DOMAIN [report EXCEPT ![field] = v] = DOMAIN NoReport
         /\ \A g \in DOMAIN NoReport :
              [report EXCEPT ![field] = v][g] = IF g = field THEN v ELSE report[g]
OBVIOUS

LEMMA TypeStarts == Init => TypeOK
<1> SUFFICES ASSUME Init PROVE TypeOK
  OBVIOUS
<1> USE Magnitudes
<1>1. ControllerTypeOK
  BY BootIsTyped DEF Init
<1>2. rx \in Seq(Entry) /\ Len(rx) = 0
  BY EmptySeq DEF Init
<1>3. /\ next_telemetry_ms_ \in Stamp
      /\ telemetry_seq_ \in 0 .. TelemetrySeqMod - 1
  BY BootTypes, PacerAssumption DEF Init, BootPacer
<1>4. /\ drive \in Commands /\ pins \in [cmd : Commands, stopped : BOOLEAN]
      /\ g_boot_faults \in SUBSET {"FIRMWARE_FAULT"}
      /\ since_feed \in 0 .. HwWatchdog /\ command_age \in Nat
      /\ DOMAIN report = DOMAIN NoReport /\ pc \in Steps
  BY ControllerAssumption DEF Init, SafePins, Steps
<1>. QED
  BY <1>1, <1>2, <1>3, <1>4, FirmwareAssumption DEF TypeOK, Entry

LEMMA TypeTick == ASSUME TypeOK, Tick PROVE TypeOK'
<1> USE Magnitudes
<1>1. /\ UNCHANGED <<controllerVars, pacerVars, loopVars, g_boot_faults>>
      /\ now' = Advance(now, 1)
      /\ since_feed' = since_feed + 1 /\ since_feed < HwWatchdog
      /\ rx' = [i \in DOMAIN rx |-> [rx[i] EXCEPT !.age = @ + 1]]
      /\ command_age' = IF have_control_ THEN command_age + 1 ELSE command_age
  BY DEF Tick
<1>2. /\ ControllerTypeOK /\ now \in Stamp /\ rx \in Seq(Entry)
      /\ since_feed \in 0 .. HwWatchdog /\ command_age \in Nat
  BY DEF TypeOK, ControllerTypeOK, Entry
<1>3. ControllerTypeOK'
  <2>1. now' \in Stamp
    BY <1>1, <1>2, AdvanceType
  <2>. QED
    BY <1>1, <1>2, <2>1, TimeIsTyped
<1>4. rx' \in Seq(Entry) /\ Len(rx') = Len(rx)
  <2>1. \A i \in DOMAIN rx : rx[i] \in Entry
    BY <1>2, QueueEntries
  <2>2. DOMAIN rx' = DOMAIN rx
        /\ \A i \in DOMAIN rx : rx'[i] = [rx[i] EXCEPT !.age = @ + 1]
    BY <1>1
  <2>3. \A i \in DOMAIN rx : rx'[i] \in Entry
    BY <2>1, <2>2 DEF Entry
  <2>4. rx' = [i \in DOMAIN rx |-> rx'[i]]
    BY <1>1
  <2>5. rx' \in Seq(Entry)
    BY <1>2, <2>3, <2>4, QueueReplace
  <2>. QED
    BY <1>2, <2>2, <2>5, LenProperties
<1>5. since_feed' \in 0 .. HwWatchdog /\ command_age' \in Nat
  BY <1>1, <1>2
<1>. QED
  BY <1>1, <1>3, <1>4, <1>5, Zenon DEF TypeOK, Entry, pacerVars, loopVars

LEMMA TypeReset == ASSUME TypeOK, HwReset PROVE TypeOK'
<1> USE Magnitudes
<1>1. ControllerTypeOK'
  BY RebootIsTyped DEF HwReset
<1>2. rx' \in Seq(Entry) /\ Len(rx') = 0
  BY EmptySeq DEF HwReset
<1>3. /\ next_telemetry_ms_' \in Stamp
      /\ telemetry_seq_' \in 0 .. TelemetrySeqMod - 1
  BY BootTypes, PacerAssumption DEF HwReset
<1>4. /\ drive' \in Commands /\ pins' \in [cmd : Commands, stopped : BOOLEAN]
      /\ g_boot_faults' \in SUBSET {"FIRMWARE_FAULT"}
      /\ since_feed' \in 0 .. HwWatchdog /\ command_age' \in Nat
      /\ DOMAIN report' = DOMAIN NoReport /\ pc' \in Steps
  BY ControllerAssumption DEF HwReset, PinsAtReset, SafePins, Steps
<1>. QED
  BY <1>1, <1>2, <1>3, <1>4, FirmwareAssumption DEF TypeOK, Entry

LEMMA TypeReceive == ASSUME TypeOK, NEW f \in Frames, Receive(f) PROVE TypeOK'
<1>1. /\ UNCHANGED <<ctlVars, pacerVars, loopVars, boardVars, command_age>>
      /\ rx' = Append(rx, [frame |-> f, age |-> 0]) /\ Len(rx) < RxSize
  BY DEF Receive
<1>2. rx \in Seq(Entry) /\ [frame |-> f, age |-> 0] \in Entry /\ Len(rx) \in Nat
  BY LenProperties DEF TypeOK, Entry
<1>3. rx' \in Seq(Entry) /\ Len(rx') = Len(rx) + 1
  BY <1>1, <1>2, AppendProperties
<1>4. Len(rx') <= RxSize
  BY <1>1, <1>2, <1>3, FirmwareAssumption
<1>. QED
  BY <1>1, <1>3, <1>4, Zenon
     DEF TypeOK, ControllerTypeOK, Entry, ctlVars, controllerVars, commandVars,
         linkVars, pacerVars, loopVars, boardVars

LEMMA TypeDrainFrame == ASSUME TypeOK, DrainFrame PROVE TypeOK'
<1>1. /\ UNCHANGED <<pacerVars, loopVars, boardVars>>
      /\ rx # <<>> /\ rx' = Tail(rx) /\ IngestFrame(Head(rx).frame)
      /\ command_age' = IF last_decode_' = "OK" THEN Head(rx).age ELSE command_age
  BY DEF DrainFrame
<1>2. rx \in Seq(Entry) /\ Len(rx) \in Nat /\ command_age \in Nat
  BY LenProperties DEF TypeOK, Entry
<1>3. /\ Head(rx) \in Entry /\ rx' \in Seq(Entry) /\ Len(rx') = Len(rx) - 1
  BY <1>1, <1>2, HeadTailProperties
<1>4. Head(rx).frame \in FrameType /\ Head(rx).age \in Nat
  BY <1>3, FrameIsTyped DEF Entry
<1>5. ControllerTypeOK'
  BY <1>1, <1>4, IngestIsTyped DEF TypeOK
<1>6. command_age' \in Nat
  BY <1>1, <1>2, <1>4
<1>7. Len(rx') <= RxSize
  BY <1>2, <1>3, FirmwareAssumption DEF TypeOK
<1>. QED
  BY <1>1, <1>3, <1>5, <1>6, <1>7, Zenon
     DEF TypeOK, Entry, pacerVars, loopVars, boardVars

(* The rest of the loop moves the schedule and its own locals.             *)
LEMMA TypeLoop ==
  ASSUME TypeOK,
         \/ Feed \/ DrainDone \/ ReadOutputs \/ ApplyOutputs
         \/ NotDue \/ Due \/ SendTelemetry
  PROVE  TypeOK'
<1>1. UNCHANGED <<ctlVars, g_boot_faults, rxVars>>
  BY DEF Feed, DrainDone, ReadOutputs, ApplyOutputs, NotDue, Due, SendTelemetry,
     SendDriveR, ReadFaults, SendPower, ReadJetsonLink, ReadC2Link, SendState,
     Send, boardVars
<1>2. ControllerTypeOK'
  BY <1>1, Zenon DEF TypeOK, ControllerTypeOK, ctlVars, controllerVars,
     commandVars, linkVars
<1>3. pc' \in Steps
  BY DEF Feed, DrainDone, ReadOutputs, ApplyOutputs, NotDue, Due, SendTelemetry,
     SendDriveR, ReadFaults, SendPower, ReadJetsonLink, ReadC2Link, SendState,
     Send, Goto, Steps
<1>4. since_feed' \in 0 .. HwWatchdog
  BY Magnitudes DEF TypeOK, Feed, DrainDone, ReadOutputs, ApplyOutputs, NotDue,
     Due, SendTelemetry, SendDriveR, ReadFaults, SendPower, ReadJetsonLink,
     ReadC2Link, SendState, Send, boardVars
<1>5. /\ next_telemetry_ms_' \in Stamp
      /\ telemetry_seq_' \in 0 .. TelemetrySeqMod - 1
  <2>1. CASE Due
    <3>1. /\ next_telemetry_ms_ \in Stamp /\ now \in Stamp
          /\ telemetry_seq_ \in 0 .. TelemetrySeqMod - 1
          /\ Period \in Nat /\ Period <= W
      BY PacerAssumption, ClockAssumption DEF TypeOK, ControllerTypeOK
    <3>2. Advance(next_telemetry_ms_, Period) \in Stamp /\ Advance(now, Period) \in Stamp
      BY <3>1, AdvanceType
    <3>3. NextDeadline \in Stamp
      BY <3>2 DEF NextDeadline
    <3>. QED
      BY <2>1, <3>1, <3>3, PacerAssumption DEF Due, PollDue
  <2>2. CASE ~Due
    <3>1. UNCHANGED pacerVars
      BY <2>2 DEF Feed, DrainDone, ReadOutputs, ApplyOutputs, NotDue, PollEarly,
         SendTelemetry, SendDriveR, ReadFaults, SendPower, ReadJetsonLink,
         ReadC2Link, SendState, Send, pacerVars
    <3>. QED
      BY <3>1 DEF TypeOK, pacerVars
  <2>. QED
    BY <2>1, <2>2
<1>6. /\ drive' \in Commands /\ pins' \in [cmd : Commands, stopped : BOOLEAN]
      /\ DOMAIN report' = DOMAIN NoReport
  <2>1. drive \in Commands /\ pins \in [cmd : Commands, stopped : BOOLEAN]
        /\ DOMAIN report = DOMAIN NoReport /\ ZeroCmd \in Commands
        /\ last_control_.cmd \in Commands
    BY ControllerAssumption DEF TypeOK, ControllerTypeOK, ControlMsg
  <2>2. CASE ReadOutputs
    BY <2>1, <2>2 DEF ReadOutputs, CommandedOutputs
  <2>3. CASE ApplyOutputs
    <3>1. EffectiveStop(now) \in BOOLEAN
      BY Zenon DEF EffectiveStop, WatchdogTripped
    <3>2. /\ drive' = ZeroCmd
          /\ pins' = [cmd |-> drive, stopped |-> EffectiveStop(now)]
          /\ report' = [report EXCEPT !.stopped = pins'.stopped]
      BY <2>3 DEF ApplyOutputs
    <3>. HIDE DEF EffectiveStop
    <3>. QED
      BY <2>1, <3>1, <3>2
  <2>4. CASE Feed
    BY <2>1, <2>4 DEF Feed
  <2>5. CASE DrainDone \/ NotDue \/ Due
    BY <2>1, <2>5 DEF DrainDone, NotDue, Due
  <2>6. CASE SendTelemetry
    BY <2>1, <2>6 DEF SendTelemetry, SendDriveR, ReadFaults, SendPower,
       ReadJetsonLink, ReadC2Link, SendState, Send
  <2>. QED
    BY <2>2, <2>3, <2>4, <2>5, <2>6
<1>. QED
  BY <1>1, <1>2, <1>3, <1>4, <1>5, <1>6, Zenon DEF TypeOK, rxVars

(* The queue keeps to its size and every field to its type, also through a *)
(* reset by the hardware watchdog.                                         *)
THEOREM FirmwareTypeCorrect == Spec => []TypeOK
<1>1. TypeOK /\ [Next]_vars => TypeOK'
  <2> SUFFICES ASSUME TypeOK, [Next]_vars PROVE TypeOK'
    OBVIOUS
  <2>1. CASE UNCHANGED vars
    BY <2>1, Zenon DEF vars, ctlVars, controllerVars, commandVars, linkVars,
       pacerVars, loopVars, boardVars, rxVars, TypeOK, ControllerTypeOK
  <2>2. CASE Loop
    BY <2>2, TypeDrainFrame, TypeLoop DEF Loop
  <2>. QED
    BY <2>1, <2>2, TypeTick, TypeReset, TypeReceive DEF Next
<1>. QED
  BY <1>1, TypeStarts, PTL DEF Spec

(***************************************************************************)
(* What a telemetry cycle says                                             *)
(***************************************************************************)

(* The steps at which a field of the cycle under way has been read.        *)
AgeIsRead == {"power", "power_c2", "state_jetson", "state_c2", "state_light"}
FaultsAreRead == AgeIsRead \ {"power"}
JetsonIsRead == {"state_c2", "state_light"}
C2IsRead == {"state_light"}
StopIsRead == AgeIsRead \cup {"due", "drive_r"}

Overdue == WatchdogTripped(now)

(* A field read so far that tells of a timeout is still right, and the     *)
(* fields read after it agree.                                             *)
FieldsAgree ==
  /\ pc # "feed" => report.light = "-"
  /\ pc \in AgeIsRead =>
       report.cmd_age \in Nat /\ (report.cmd_age >= WatchdogTimeout => Overdue)
  /\ pc \in FaultsAreRead =>
       /\ report.cmd_age >= WatchdogTimeout => "COMM_TIMEOUT" \in report.faults
       /\ "COMM_TIMEOUT" \in report.faults => Overdue
  /\ pc \in JetsonIsRead =>
       /\ "COMM_TIMEOUT" \in report.faults => report.jetson = "LOST"
       /\ report.jetson = "LOST" => Overdue
  /\ pc \in C2IsRead =>
       /\ report.jetson = "LOST" => report.c2 = "NOT_REPORTED"
       /\ report.c2 = "NOT_REPORTED" => Overdue
  /\ CycleNeverTakesBack

(* A stop still has the reason it was made for, ...                        *)
StopHasReason ==
  pc \in StopIsRead /\ report.stopped =>
    \/ Overdue
    \/ StopCommanded
    \/ last_control_.c2_lost /\ last_control_.mode = "MANUAL"

CycleInv == FieldsAgree /\ StopHasReason /\ StopIsShown

(* What only makes a command older, or touches none of this, keeps it all. *)
LEMMA CycleStays ==
  ASSUME CycleInv, UNCHANGED <<pc, report, last_control_, have_control_>>,
         Overdue => Overdue'
  PROVE  CycleInv'
<1>1. (Complete' <=> Complete) /\ (StopCommanded' <=> StopCommanded)
  BY DEF Complete, StopCommanded
<1>2. FieldsAgree'
  BY <1>1 DEF CycleInv, FieldsAgree, CycleNeverTakesBack
<1>3. StopHasReason' /\ StopIsShown'
  BY <1>1 DEF CycleInv, StopHasReason, StopIsShown
<1>. QED
  BY <1>2, <1>3 DEF CycleInv

(* A step before the outputs are applied, when nothing has been read yet.  *)
LEMMA CycleOutside ==
  ASSUME pc' \notin StopIsRead, pc' = "feed" => report'.light = "-",
         report'.light = "-"
  PROVE  CycleInv'
BY DEF CycleInv, FieldsAgree, StopHasReason, StopIsShown, CycleNeverTakesBack,
   Complete, StopIsRead, AgeIsRead, FaultsAreRead, JetsonIsRead, C2IsRead

LEMMA CycleTick ==
  ASSUME ClockIsTicked, HoldInv, CycleInv, Tick PROVE CycleInv'
<1>1. UNCHANGED <<pc, report, last_control_, have_control_, last_control_ms_>>
  BY DEF Tick, loopVars, controllerVars, commandVars
<1>2. Overdue => Overdue'
  <2>1. CASE have_control_
    <3>1. /\ Elapsed(now, last_control_ms_) \in Nat
          /\ Elapsed(now', last_control_ms_) = Elapsed(now, last_control_ms_) + 1
      BY <2>1, CommandAges
    <3>. QED
      BY <1>1, <3>1, Magnitudes DEF Overdue, WatchdogTripped
  <2>2. CASE ~have_control_
    BY <1>1, <2>2 DEF Overdue, WatchdogTripped
  <2>. QED
    BY <2>1, <2>2
<1>. QED
  BY <1>1, <1>2, CycleStays

(* Up to the drives' outputs nothing of a cycle is read, so a command may  *)
(* still be taken.                                                         *)
LEMMA CycleBegins ==
  ASSUME CycleInv, HwReset \/ Feed \/ DrainFrame \/ DrainDone \/ ReadOutputs
  PROVE  CycleInv'
<1>1. pc' \notin StopIsRead
  BY DEF HwReset, Feed, DrainFrame, DrainDone, ReadOutputs, Goto, loopVars,
     StopIsRead, AgeIsRead
<1>2. report'.light = "-"
  <2>1. CASE HwReset \/ Feed
    BY <2>1 DEF HwReset, Feed, NoReport
  <2>2. CASE DrainFrame \/ DrainDone \/ ReadOutputs
    <3>1. pc # "feed" /\ report' = report
      BY <2>2 DEF DrainFrame, DrainDone, ReadOutputs, Goto, loopVars
    <3>. QED
      BY <3>1 DEF CycleInv, FieldsAgree
  <2>. QED
    BY <2>1, <2>2
<1>. QED
  BY <1>1, <1>2, CycleOutside

(* A stop is applied for a reason the clock, or the command, gives.        *)
LEMMA StopReason ==
  EffectiveStop(now) =>
    \/ Overdue
    \/ StopCommanded
    \/ last_control_.c2_lost /\ last_control_.mode = "MANUAL"
BY DEF EffectiveStop, Permits, Overdue, StopCommanded, WatchdogTripped

LEMMA CycleApplyOutputs ==
  ASSUME TypeOK, CycleInv, ApplyOutputs PROVE CycleInv'
<1>1. /\ pc = "motors" /\ pc' = "due" /\ UNCHANGED ctlVars
      /\ report' = [report EXCEPT !.stopped = EffectiveStop(now)]
  BY DEF ApplyOutputs, Goto
<1>2. report'.light = report.light /\ report'.stopped = EffectiveStop(now)
  <2>1. DOMAIN report = DOMAIN NoReport
    BY DEF TypeOK
  <2>. QED
    BY <1>1, <2>1 DEF NoReport
<1>3. report'.light = "-"
  BY <1>1, <1>2 DEF CycleInv, FieldsAgree
<1>4. StopHasReason'
  <2>1. (Overdue' <=> Overdue) /\ (StopCommanded' <=> StopCommanded)
        /\ last_control_' = last_control_
    BY <1>1 DEF ctlVars, controllerVars, commandVars, Overdue, StopCommanded,
       WatchdogTripped
  <2>. QED
    BY <1>2, <2>1, StopReason DEF StopHasReason
<1>. QED
  BY <1>1, <1>3, <1>4 DEF CycleInv, FieldsAgree, StopIsShown, Complete,
     CycleNeverTakesBack, AgeIsRead, FaultsAreRead, JetsonIsRead, C2IsRead

(* Whether a cycle is due is all the same to it.                           *)
LEMMA CycleDue == ASSUME CycleInv, NotDue \/ Due PROVE CycleInv'
<1>1. /\ pc = "due" /\ pc' \in {"feed", "drive_r"}
      /\ UNCHANGED <<ctlVars, report>>
  BY DEF NotDue, Due, Goto
<1>2. report'.light = "-"
  BY <1>1 DEF CycleInv, FieldsAgree
<1>3. StopHasReason'
  <2>1. (Overdue' <=> Overdue) /\ (StopCommanded' <=> StopCommanded)
        /\ last_control_' = last_control_
    BY <1>1 DEF ctlVars, controllerVars, commandVars, Overdue, StopCommanded,
       WatchdogTripped
  <2>. QED
    BY <1>1, <2>1 DEF CycleInv, StopHasReason, StopIsRead
<1>. QED
  BY <1>1, <1>2, <1>3 DEF CycleInv, FieldsAgree, StopIsShown, Complete,
     CycleNeverTakesBack, AgeIsRead, FaultsAreRead, JetsonIsRead, C2IsRead

(* What a field says of a timeout is what the clock says then.             *)
LEMMA AgeTells ==
  ASSUME TypeOK
  PROVE  CmdAgeMs(now) \in Nat
         /\ (CmdAgeMs(now) >= WatchdogTimeout => Overdue)
<1>1. now \in Stamp /\ last_control_ms_ \in Stamp
  BY DEF TypeOK, ControllerTypeOK
<1>2. Elapsed(now, last_control_ms_) \in Nat
  BY <1>1, StampDifference
<1>. QED
  BY <1>2, ControllerAssumption
     DEF CmdAgeMs, ClampCmdAgeMs, CmdAgeUnknown, Overdue, WatchdogTripped

LEMMA FaultsTell ==
  ASSUME g_boot_faults \in SUBSET {"FIRMWARE_FAULT"}
  PROVE  /\ "COMM_TIMEOUT" \in FaultWord(g_boot_faults, now, now) \ {"C2_LINK_LOST"}
             <=> Overdue
         /\ "COMM_TIMEOUT" \notin FaultWord({}, now, now) \cap {"C2_LINK_LOST"}
BY DEF FaultWord, Overdue

LEMMA StateTells ==
  /\ JetsonLinkState(now, now) = "LOST" <=> Overdue
  /\ C2LinkState(now) = "NOT_REPORTED" <=> Overdue
  /\ Overdue => IndicatorState(now) = "FAULT"
  /\ last_control_.c2_lost /\ last_control_.mode = "MANUAL"
       => IndicatorState(now) = "FAULT"
BY DEF JetsonLinkState, C2LinkState, IndicatorState, Overdue

(* A sent field is the only thing of the report that changes.              *)
LEMMA SendSets ==
  ASSUME TypeOK, NEW from, NEW to, NEW field \in DOMAIN NoReport, NEW value,
         Send(from, to, field, value)
  PROVE  /\ pc = from /\ pc' = to
         /\ report'.stopped = IF field = "stopped" THEN value ELSE report.stopped
         /\ report'.cmd_age = IF field = "cmd_age" THEN value ELSE report.cmd_age
         /\ report'.faults = IF field = "faults" THEN value ELSE report.faults
         /\ report'.jetson = IF field = "jetson" THEN value ELSE report.jetson
         /\ report'.c2 = IF field = "c2" THEN value ELSE report.c2
         /\ report'.light = IF field = "light" THEN value ELSE report.light
         /\ Overdue' <=> Overdue
         /\ StopCommanded' <=> StopCommanded
         /\ last_control_' = last_control_
<1>1. /\ pc = from /\ pc' = to /\ UNCHANGED ctlVars
      /\ report' = [report EXCEPT ![field] = value]
  BY DEF Send, Goto
<1>2. DOMAIN report = DOMAIN NoReport
  BY DEF TypeOK
<1>3. \A g \in DOMAIN NoReport :
        report'[g] = IF g = field THEN value ELSE report[g]
  BY <1>1, <1>2, ReportField
<1>4. DOMAIN NoReport = {"stopped", "cmd_age", "faults", "jetson", "c2", "light"}
  BY DEF NoReport
<1>5. /\ (Overdue' <=> Overdue) /\ (StopCommanded' <=> StopCommanded)
      /\ last_control_' = last_control_
  BY <1>1 DEF ctlVars, controllerVars, commandVars, Overdue, StopCommanded,
     WatchdogTripped
<1>. QED
  BY <1>1, <1>3, <1>4, <1>5

(* A stop keeps its reason while the cycle is sent.                        *)
LEMMA ReasonStays ==
  ASSUME StopHasReason, pc \in StopIsRead, report'.stopped = report.stopped,
         Overdue' <=> Overdue, StopCommanded' <=> StopCommanded,
         last_control_' = last_control_
  PROVE  StopHasReason'
BY DEF StopHasReason

LEMMA CycleSendDriveR ==
  ASSUME TypeOK, CycleInv, SendDriveR PROVE CycleInv'
<1>1. /\ pc = "drive_r" /\ pc' = "power"
      /\ report'.cmd_age = CmdAgeMs(now) /\ report'.light = report.light
      /\ report'.stopped = report.stopped
      /\ Overdue' <=> Overdue
      /\ StopCommanded' <=> StopCommanded
      /\ last_control_' = last_control_
  BY SendSets DEF SendDriveR, NoReport
<1>2. StopHasReason'
  BY <1>1, ReasonStays DEF CycleInv, StopIsRead
<1>3. CmdAgeMs(now) \in Nat /\ (CmdAgeMs(now) >= WatchdogTimeout => Overdue)
  BY AgeTells
<1>4. report'.light = "-"
  BY <1>1 DEF CycleInv, FieldsAgree
<1>5. FieldsAgree'
  BY <1>1, <1>3, <1>4 DEF FieldsAgree, CycleNeverTakesBack, Complete,
     FaultsAreRead, AgeIsRead, JetsonIsRead, C2IsRead
<1>. QED
  BY <1>1, <1>2, <1>5 DEF CycleInv, StopIsShown, Complete

LEMMA CycleReadFaults ==
  ASSUME TypeOK, CycleInv, ReadFaults PROVE CycleInv'
<1>1. /\ pc = "power" /\ pc' = "power_c2"
      /\ report'.faults = FaultWord(g_boot_faults, now, now) \ {"C2_LINK_LOST"}
      /\ report'.light = report.light /\ report'.stopped = report.stopped
      /\ report'.cmd_age = report.cmd_age
      /\ Overdue' <=> Overdue
      /\ StopCommanded' <=> StopCommanded
      /\ last_control_' = last_control_
  BY SendSets DEF ReadFaults, NoReport
<1>2. StopHasReason'
  BY <1>1, ReasonStays DEF CycleInv, StopIsRead, AgeIsRead
<1>3. "COMM_TIMEOUT" \in report'.faults <=> Overdue
  BY <1>1, FaultsTell DEF TypeOK
<1>4. /\ report'.light = "-" /\ report.cmd_age \in Nat
      /\ report.cmd_age >= WatchdogTimeout => Overdue
  BY <1>1 DEF CycleInv, FieldsAgree, AgeIsRead
<1>5. FieldsAgree'
  BY <1>1, <1>3, <1>4 DEF FieldsAgree, CycleNeverTakesBack, Complete,
     FaultsAreRead, AgeIsRead, JetsonIsRead, C2IsRead
<1>. QED
  BY <1>1, <1>2, <1>5 DEF CycleInv, StopIsShown, Complete

(* The faults read so far only gain that of the base station.              *)
LEMMA CycleSendPower ==
  ASSUME TypeOK, CycleInv, SendPower PROVE CycleInv'
<1>1. /\ pc = "power_c2" /\ pc' = "state_jetson"
      /\ report'.faults = report.faults \cup
           (FaultWord({}, now, now) \cap {"C2_LINK_LOST"})
      /\ report'.light = report.light /\ report'.stopped = report.stopped
      /\ report'.cmd_age = report.cmd_age
      /\ Overdue' <=> Overdue
      /\ StopCommanded' <=> StopCommanded
      /\ last_control_' = last_control_
  BY SendSets DEF SendPower, NoReport
<1>2. StopHasReason'
  BY <1>1, ReasonStays DEF CycleInv, StopIsRead, AgeIsRead
<1>3. "COMM_TIMEOUT" \in report'.faults <=> "COMM_TIMEOUT" \in report.faults
  BY <1>1
<1>4. /\ report'.light = "-" /\ report.cmd_age \in Nat
      /\ report.cmd_age >= WatchdogTimeout => Overdue
      /\ report.cmd_age >= WatchdogTimeout => "COMM_TIMEOUT" \in report.faults
      /\ "COMM_TIMEOUT" \in report.faults => Overdue
  BY <1>1 DEF CycleInv, FieldsAgree, FaultsAreRead, AgeIsRead
<1>5. FieldsAgree'
  BY <1>1, <1>3, <1>4 DEF FieldsAgree, CycleNeverTakesBack, Complete,
     FaultsAreRead, AgeIsRead, JetsonIsRead, C2IsRead
<1>. QED
  BY <1>1, <1>2, <1>5 DEF CycleInv, StopIsShown, Complete

LEMMA CycleReadJetsonLink ==
  ASSUME TypeOK, CycleInv, ReadJetsonLink PROVE CycleInv'
<1>1. /\ pc = "state_jetson" /\ pc' = "state_c2"
      /\ report'.jetson = JetsonLinkState(now, now)
      /\ report'.light = report.light /\ report'.stopped = report.stopped
      /\ report'.cmd_age = report.cmd_age /\ report'.faults = report.faults
      /\ Overdue' <=> Overdue
      /\ StopCommanded' <=> StopCommanded
      /\ last_control_' = last_control_
  BY SendSets DEF ReadJetsonLink, NoReport
<1>2. StopHasReason'
  BY <1>1, ReasonStays DEF CycleInv, StopIsRead, AgeIsRead
<1>3. report'.jetson = "LOST" <=> Overdue
  BY <1>1, StateTells
<1>4. /\ report'.light = "-" /\ report.cmd_age \in Nat
      /\ report.cmd_age >= WatchdogTimeout => Overdue
      /\ report.cmd_age >= WatchdogTimeout => "COMM_TIMEOUT" \in report.faults
      /\ "COMM_TIMEOUT" \in report.faults => Overdue
  BY <1>1 DEF CycleInv, FieldsAgree, FaultsAreRead, AgeIsRead
<1>5. FieldsAgree'
  BY <1>1, <1>3, <1>4 DEF FieldsAgree, CycleNeverTakesBack, Complete,
     FaultsAreRead, AgeIsRead, JetsonIsRead, C2IsRead
<1>. QED
  BY <1>1, <1>2, <1>5 DEF CycleInv, StopIsShown, Complete

LEMMA CycleReadC2Link ==
  ASSUME TypeOK, CycleInv, ReadC2Link PROVE CycleInv'
<1>1. /\ pc = "state_c2" /\ pc' = "state_light"
      /\ report'.c2 = C2LinkState(now) /\ report'.jetson = report.jetson
      /\ report'.light = report.light /\ report'.stopped = report.stopped
      /\ report'.cmd_age = report.cmd_age /\ report'.faults = report.faults
      /\ Overdue' <=> Overdue
      /\ StopCommanded' <=> StopCommanded
      /\ last_control_' = last_control_
  BY SendSets DEF ReadC2Link, NoReport
<1>2. StopHasReason'
  BY <1>1, ReasonStays DEF CycleInv, StopIsRead, AgeIsRead
<1>3. report'.c2 = "NOT_REPORTED" <=> Overdue
  BY <1>1, StateTells
<1>4. /\ report'.light = "-" /\ report.cmd_age \in Nat
      /\ report.cmd_age >= WatchdogTimeout => Overdue
      /\ report.cmd_age >= WatchdogTimeout => "COMM_TIMEOUT" \in report.faults
      /\ "COMM_TIMEOUT" \in report.faults => Overdue
      /\ "COMM_TIMEOUT" \in report.faults => report.jetson = "LOST"
      /\ report.jetson = "LOST" => Overdue
  BY <1>1 DEF CycleInv, FieldsAgree, FaultsAreRead, AgeIsRead, JetsonIsRead
<1>5. FieldsAgree'
  BY <1>1, <1>3, <1>4 DEF FieldsAgree, CycleNeverTakesBack, Complete,
     FaultsAreRead, AgeIsRead, JetsonIsRead, C2IsRead
<1>. QED
  BY <1>1, <1>2, <1>5 DEF CycleInv, StopIsShown, Complete

(* The last field: the fault light is lit for every reason reported.       *)
LEMMA CycleSendState ==
  ASSUME TypeOK, CycleInv, SendState PROVE CycleInv'
<1>1. /\ pc = "state_light" /\ pc' = "feed"
      /\ report'.light = IndicatorState(now) /\ report'.stopped = report.stopped
      /\ report'.cmd_age = report.cmd_age /\ report'.faults = report.faults
      /\ report'.jetson = report.jetson /\ report'.c2 = report.c2
      /\ StopCommanded' <=> StopCommanded
  BY SendSets DEF SendState, NoReport
<1>2. /\ report.cmd_age >= WatchdogTimeout => "COMM_TIMEOUT" \in report.faults
      /\ "COMM_TIMEOUT" \in report.faults => report.jetson = "LOST"
      /\ report.jetson = "LOST" => report.c2 = "NOT_REPORTED"
      /\ report.c2 = "NOT_REPORTED" => Overdue
  BY <1>1 DEF CycleInv, FieldsAgree, FaultsAreRead, AgeIsRead, JetsonIsRead, C2IsRead
<1>3. CycleNeverTakesBack'
  BY <1>1, <1>2, StateTells DEF CycleNeverTakesBack
<1>4. StopIsShown'
  BY <1>1, StateTells DEF CycleInv, StopHasReason, StopIsShown, StopIsRead, AgeIsRead
<1>. QED
  BY <1>1, <1>3, <1>4 DEF CycleInv, FieldsAgree, StopHasReason, StopIsRead,
     AgeIsRead, FaultsAreRead, JetsonIsRead, C2IsRead

LEMMA CycleInvariant == ASSUME ClockIsTicked PROVE Spec => []CycleInv
<1>1. Init => CycleInv
  BY DEF Init, NoReport, CycleInv, FieldsAgree, StopHasReason, StopIsShown,
     CycleNeverTakesBack, Complete, StopIsRead, AgeIsRead, FaultsAreRead,
     JetsonIsRead, C2IsRead
<1>2. TypeOK /\ HoldInv /\ CycleInv /\ [Next]_vars => CycleInv'
  <2> SUFFICES ASSUME TypeOK, HoldInv, CycleInv, [Next]_vars PROVE CycleInv'
    OBVIOUS
  <2>1. CASE UNCHANGED vars \/ \E f \in Frames : Receive(f)
    <3>1. UNCHANGED <<pc, report, last_control_, have_control_,
                      last_control_ms_, now>>
      BY <2>1 DEF vars, Receive, ctlVars, controllerVars, commandVars, loopVars
    <3>2. Overdue => Overdue'
      BY <3>1 DEF Overdue, WatchdogTripped
    <3>. QED
      BY <3>1, <3>2, CycleStays
  <2>2. CASE Tick
    BY <2>2, CycleTick
  <2>3. CASE HwReset \/ Loop
    BY <2>3, CycleBegins, CycleApplyOutputs, CycleDue, CycleSendDriveR,
       CycleReadFaults, CycleSendPower, CycleReadJetsonLink, CycleReadC2Link,
       CycleSendState DEF Loop, SendTelemetry
  <2>. QED
    BY <2>1, <2>2, <2>3 DEF Next
<1>. QED
  BY <1>1, <1>2, FirmwareTypeCorrect, HoldInvariant, PTL DEF Spec

(* Wherever in a cycle the timeout falls, the fields of its four frames    *)
(* that are read later agree with those read before.                       *)
THEOREM CycleIsConsistent ==
  ASSUME ClockIsTicked PROVE Spec => []CycleNeverTakesBack
<1>1. CycleInv => CycleNeverTakesBack
  BY DEF CycleInv, FieldsAgree
<1>. QED
  BY <1>1, CycleInvariant, PTL

(* A stop the rover makes on its own account lights the fault light in the *)
(* same cycle.                                                             *)
THEOREM OwnStopIsShown == ASSUME ClockIsTicked PROVE Spec => []StopIsShown
<1>1. CycleInv => StopIsShown
  BY DEF CycleInv
<1>. QED
  BY <1>1, CycleInvariant, PTL
=============================================================================
