--------------------------- MODULE RoverFirmware ----------------------------
(***************************************************************************)
(* The firmware's main loop (firmware/rover_firmware.ino): feed the        *)
(* hardware watchdog, drain the CAN receive queue into the controller,     *)
(* apply its outputs to the drives and, when a cycle is due, send the four *)
(* telemetry frames.  The CAN interrupt, the clock and the hardware        *)
(* watchdog run beside the loop and may act between any two of its steps;  *)
(* a step is what the loop does between two readings of the clock.         *)
(***************************************************************************)
EXTENDS RoverController, TelemetryPacer, Sequences

CONSTANTS
  HwWatchdog,  \* HW_WATCHDOG_MS, 1000
  RxSize,      \* frames the receive queue holds, 256
  MaxAge       \* environment: the age to which a command is followed

VARIABLES
  pc,             \* where loop() stands
  rx,             \* the CAN receive queue: frames, with their true age
  drive,          \* loop()'s local: what commandedOutputs() gave
  pins,           \* what setMotorOutputs() was last told
  g_boot_faults,
  since_feed,     \* ms since wdt.feed(), as the hardware watchdog counts
  report,         \* the telemetry cycle being sent or just sent
  command_age     \* history: true ms since last_control_ came in on the bus

pacerVars == <<next_telemetry_ms_, telemetry_seq_>>
loopVars == <<pc, drive, pins, report>>
boardVars == <<g_boot_faults, since_feed>>
rxVars == <<rx, command_age>>
ctlVars == <<now, controllerVars>>
vars == <<ctlVars, pacerVars, loopVars, boardVars, rxVars>>

ASSUME FirmwareAssumption ==
  HwWatchdog \in Nat \ {0} /\ RxSize \in Nat \ {0} /\ MaxAge \in Nat

Steps == {"feed", "drain", "outputs", "motors", "due", "drive_r", "power",
          "power_c2", "state_jetson", "state_c2", "state_light"}

(* A field of the report is "-" until its frame is sent.                   *)
NoReport == [stopped |-> FALSE, cmd_age |-> "-", faults |-> "-",
             jetson |-> "-", c2 |-> "-", light |-> "-"]

SafePins == [cmd |-> ZeroCmd, stopped |-> TRUE]

(* Whether the drives are energised.                                       *)
Live == pins.cmd # ZeroCmd /\ ~pins.stopped

TypeOK ==
  /\ ControllerTypeOK
  /\ next_telemetry_ms_ \in Stamp
  /\ telemetry_seq_ \in 0 .. TelemetrySeqMod - 1
  /\ pc \in Steps
  /\ rx \in Seq([frame : Frames, age : Nat])
  /\ Len(rx) <= RxSize
  /\ drive \in Commands
  /\ pins \in [cmd : Commands, stopped : BOOLEAN]
  /\ g_boot_faults \in SUBSET {"FIRMWARE_FAULT"}
  /\ since_feed \in 0 .. HwWatchdog
  /\ DOMAIN report = DOMAIN NoReport
  /\ command_age \in Nat

(***************************************************************************)
(* Beside the loop                                                         *)
(***************************************************************************)

(* The CAN interrupt queues a frame that passes the id filter of setup().  *)
ReceiveUnbounded(f) ==  \* mutant: no room needed
  /\ f.id = "CONTROL"
  /\ Len(rx) <= RxSize
  /\ rx' = Append(rx, [frame |-> f, age |-> 0])
  /\ UNCHANGED <<ctlVars, pacerVars, loopVars, boardVars, command_age>>
Receive(f) ==
  /\ f.id = "CONTROL"
  /\ Len(rx) < RxSize
  /\ rx' = Append(rx, [frame |-> f, age |-> 0])
  /\ UNCHANGED <<ctlVars, pacerVars, loopVars, boardVars, command_age>>

(* A millisecond passes.  It cannot pass the moment the watchdog bites.    *)
Tick ==
  /\ since_feed < HwWatchdog
  /\ since_feed' = since_feed + 1
  /\ have_control_ => command_age < MaxAge
  /\ now' = Advance(now, 1)
  /\ rx' = [i \in DOMAIN rx |-> [rx[i] EXCEPT !.age = @ + 1]]
  /\ command_age' = IF have_control_ THEN command_age + 1 ELSE command_age
  /\ UNCHANGED <<controllerVars, pacerVars, loopVars, g_boot_faults>>

(* The pins of a reset chip float, and nothing in setup() drives them.     *)
PinsLatched == pins' = pins  \* mutant: the drives stay energised
PinsAtReset == pins' = SafePins

(* The loop was not fed for HwWatchdog ms: the board resets, its outputs   *)
(* go safe, millis() restarts and detectBootFault() finds the cause.       *)
HwReset ==
  /\ since_feed = HwWatchdog
  /\ now' = 0
  /\ RebootController
  /\ next_telemetry_ms_' = now'
  /\ telemetry_seq_' = 0
  /\ pc' = "feed"
  /\ rx' = <<>>
  /\ drive' = ZeroCmd
  /\ PinsAtReset
  /\ since_feed' = 0
  /\ report' = NoReport
  /\ command_age' = 0
  /\ g_boot_faults' = {"FIRMWARE_FAULT"}

(***************************************************************************)
(* loop()                                                                  *)
(***************************************************************************)

Goto(from, to) == pc = from /\ pc' = to

Feed ==
  /\ Goto("feed", "drain")
  /\ since_feed' = 0
  /\ report' = NoReport
  /\ UNCHANGED <<ctlVars, pacerVars, drive, pins, g_boot_faults, rxVars>>

(* while (Can.read(rx)) ctl->ingestFrame(...)                              *)
DrainFrame ==
  /\ pc = "drain"
  /\ rx # <<>>
  /\ IngestFrame(Head(rx).frame)
  /\ rx' = Tail(rx)
  /\ command_age' = IF last_decode_' = "OK" THEN Head(rx).age ELSE command_age
  /\ UNCHANGED <<pacerVars, loopVars, boardVars>>

DrainDone ==
  /\ Goto("drain", "outputs")
  /\ rx = <<>>
  /\ UNCHANGED <<ctlVars, pacerVars, drive, pins, report, boardVars, rxVars>>

ReadOutputs ==
  /\ Goto("outputs", "motors")
  /\ drive' = CommandedOutputs(now)
  /\ UNCHANGED <<ctlVars, pacerVars, pins, report, boardVars, rxVars>>

(* effectiveStop() reads the clock again; readSensors() and                *)
(* setMotorOutputs() take both answers.                                    *)
ApplyOutputs ==
  /\ Goto("motors", "due")
  /\ pins' = [cmd |-> drive, stopped |-> EffectiveStop(now)]
  /\ drive' = ZeroCmd
  /\ report' = [report EXCEPT !.stopped = pins'.stopped]
  /\ UNCHANGED <<ctlVars, pacerVars, boardVars, rxVars>>

NotDue ==
  /\ Goto("due", "feed")
  /\ PollEarly
  /\ UNCHANGED <<ctlVars, drive, pins, report, boardVars, rxVars>>

Due ==
  /\ Goto("due", "drive_r")
  /\ PollDue
  /\ UNCHANGED <<ctlVars, drive, pins, report, boardVars, rxVars>>

(* The steps of sendTelemetry() that read the clock, in order.             *)
Send(from, to, field, value) ==
  /\ Goto(from, to)
  /\ report' = [report EXCEPT ![field] = value]
  /\ UNCHANGED <<ctlVars, pacerVars, drive, pins, boardVars, rxVars>>

(* DRIVE_L carries no clock reading and leaves with DRIVE_R.               *)
SendDriveR == Send("drive_r", "power", "cmd_age", CmdAgeMs(now))

(* faultWord() reads the clock for COMM_TIMEOUT, and again, inside         *)
(* c2LinkState(), for C2_LINK_LOST.                                        *)
ReadFaults ==
  Send("power", "power_c2", "faults",
       FaultWord(g_boot_faults, now, now) \ {"C2_LINK_LOST"})
SendPower ==
  Send("power_c2", "state_jetson", "faults",
       report.faults \cup
         (FaultWord({}, now, now) \cap {"C2_LINK_LOST"}))

(* The three readings of buildState().                                     *)
ReadJetsonLink ==
  Send("state_jetson", "state_c2", "jetson", JetsonLinkState(now, now))
ReadC2Link == Send("state_c2", "state_light", "c2", C2LinkState(now))
SendState == Send("state_light", "feed", "light", IndicatorState(now))

SendTelemetry ==
  \/ SendDriveR \/ ReadFaults \/ SendPower
  \/ ReadJetsonLink \/ ReadC2Link \/ SendState

Loop ==
  \/ Feed \/ DrainFrame \/ DrainDone \/ ReadOutputs \/ ApplyOutputs
  \/ NotDue \/ Due \/ SendTelemetry

Init ==
  /\ now = 0
  /\ BootController
  /\ BootPacer
  /\ pc = "feed"
  /\ rx = <<>>
  /\ drive = ZeroCmd
  /\ pins = SafePins
  /\ since_feed = 0
  /\ report = NoReport
  /\ command_age = 0
  /\ g_boot_faults = {}

Next == Tick \/ HwReset \/ Loop \/ \E f \in Frames : Receive(f)

Spec == Init /\ [][Next]_vars

(* The clock runs and the hardware watchdog bites.  Nothing is promised    *)
(* about the loop: it may hang anywhere, for good.                         *)
FairSpec == Spec /\ WF_vars(Tick) /\ WF_vars(HwReset)

(***************************************************************************)
(* Properties                                                              *)
(***************************************************************************)

(* All fields of a cycle have been sent.                                   *)
Complete == pc = "feed" /\ report.light # "-"

(* The accepted command itself says to stand still.                        *)
StopCommanded ==
  /\ have_control_
  /\ \/ last_control_.stop
     \/ ~ModePermitsMotion(last_control_.mode)
     \/ last_control_.autonomy_abort /\ last_control_.mode = "AUTONOMOUS"

(* The four frames of a cycle read the clock six times, and a timeout may  *)
(* fall between any two.  Later fields never take back what an earlier one *)
(* reported: an overdue command age is followed by COMM_TIMEOUT, that by a *)
(* LOST link, that by an unreported C2 and that by the fault light.        *)
CycleNeverTakesBack ==
  Complete =>
    /\ report.cmd_age >= WatchdogTimeout => "COMM_TIMEOUT" \in report.faults
    /\ "COMM_TIMEOUT" \in report.faults => report.jetson = "LOST"
    /\ report.jetson = "LOST" => report.c2 = "NOT_REPORTED"
    /\ report.c2 = "NOT_REPORTED" => report.light = "FAULT"

(* A rover that this pass of the loop stopped on its own account, for a    *)
(* silent Jetson or a lost base station, shows the fault light in the same *)
(* cycle, whenever the timeout falls.                                      *)
StopIsShown == Complete /\ report.stopped /\ ~StopCommanded
                 => report.light = "FAULT"

(* The drives are never energised for longer than HoldBound after the      *)
(* command came in on the bus, however long it waited in the queue and     *)
(* wherever the loop hangs, and never across a reset before a new command: *)
(* the software watchdog bounds the age a pass of the loop may act on, and *)
(* the hardware watchdog how long its outputs may stay.                    *)
HoldBound == WatchdogTimeout + 4 * HwWatchdog
DrivenByRecentCommand == Live => have_control_ /\ command_age < HoldBound

(* Whatever step the loop hangs at, the drives of a rover that receives    *)
(* nothing more are de-energised for good.                                 *)
HangIsSurvived ==
  []<><<\E f \in Frames : Receive(f)>>_vars \/ <>[]~Live

(* rover_controller.cpp:191 "Without these the rover could halt or degrade *)
(* while telemetry read "no faults, link healthy" -- a silent stop is its  *)
(* own hazard": a rover stopped on its own account has a fault bit saying  *)
(* why in the same cycle.                                                  *)
StopIsFaulted ==
  Complete /\ report.stopped /\ ~StopCommanded
    => report.faults \cap {"COMM_TIMEOUT", "C2_LINK_LOST"} # {}
=============================================================================
