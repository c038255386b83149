------------------------------ MODULE RoverLink -----------------------------
(***************************************************************************)
(* The command path end to end: base station, Jetson program, CAN bus and  *)
(* controller.  The bus keeps frames in order, delays them by up to        *)
(* MaxTransit and loses some (or damages them, which moves nothing of the  *)
(* command state: see OnlyAFrameRestores of ControllerTiming).  The run is *)
(* shorter than a turn of the clock, whose wrap is ControllerTiming's.     *)
(* What comes back to the Jetson is any frame at any time; what it makes   *)
(* of telemetry is TelemetryLink's.                                        *)
(***************************************************************************)
EXTENDS RoverController, JetsonHost

CONSTANTS
  MaxStall,    \* environment: longest time between two passes of run()
  MaxTransit,  \* environment: longest time a frame is on its way
  MaxLost,     \* environment: frames lost in a row
  MaxStops,    \* bound: times the Jetson program ends
  MaxFlips,    \* bound: times the base station comes or goes
  MaxInbox,    \* bound: frames that wait for the Jetson to read them
  MaxTime      \* bound: length of the run

ASSUME RoverLinkAssumption ==
  /\ {MaxStall, MaxTransit, MaxLost, MaxStops, MaxFlips, MaxInbox, MaxTime}
       \subseteq Nat
  /\ MaxTime < W
  /\ TxSeqMod = SeqMod
  /\ \E c \in Commands : c # ZeroCmd

VARIABLES
  wire,        \* CONTROL frames on their way, with their age
  since_loop,  \* ms since the loop of run() last read its clock
  c2_since,    \* history: true ms since the base station came or went
  heard_ago,   \* history: true ms since telemetry arrived at this process
  lost_run,    \* history: frames lost since the last one accepted
  lost_total,  \* history: frames lost before the last one accepted
  stops,       \* times the Jetson program ended
  flips        \* times the base station came or went

lossVars == <<lost_run, lost_total>>
boundVars == <<stops, flips>>
ctlVars == <<now, controllerVars>>
vars == <<ctlVars, hostVars, wire, since_loop, c2_since, heard_ago, lossVars,
          boundVars>>

(* What run() sends: MANUAL and moving.                                    *)
ManualCommand(c2_lost) ==
  [cmd |-> CHOOSE c \in Commands : c # ZeroCmd, mode |-> "MANUAL",
   stop |-> FALSE, autonomy_abort |-> FALSE, c2_lost |-> c2_lost,
   indicator_request |-> "TELEOP"]

ControlFrame(msg, seq) ==
  [id |-> "CONTROL", msg |-> msg, seq |-> seq, defects |-> {}]

(* True times are not told apart beyond what the properties ask of them.   *)
LongAgo == MaxTime
OneMore(ms, most) == IF ms >= most THEN ms ELSE ms + 1

TypeOK ==
  /\ ControllerTypeOK
  /\ HostTypeOK
  /\ wire \in Seq([frame : FrameType, age : 0 .. MaxTransit])
  /\ since_loop \in 0 .. MaxStall
  /\ {c2_since, heard_ago} \subseteq 0 .. LongAgo
  /\ lost_run \in 0 .. MaxLost
  /\ lost_total \in Nat
  /\ stops \in 0 .. MaxStops
  /\ flips \in 0 .. MaxFlips

Init ==
  /\ now = 0
  /\ BootController
  /\ HostOff
  /\ wire = <<>>
  /\ since_loop = 0
  /\ c2_since = LongAgo
  /\ heard_ago = LongAgo
  /\ lost_run = 0
  /\ lost_total = 0
  /\ stops = 0
  /\ flips = 0

(* A millisecond passes.                                                   *)
Tick ==
  /\ now < MaxTime
  /\ host_pc # "off" => since_loop < MaxStall
  /\ \A i \in DOMAIN wire : wire[i].age < MaxTransit
  /\ now' = now + 1
  /\ since_loop' = IF host_pc = "off" THEN 0 ELSE since_loop + 1
  /\ wire' = [i \in DOMAIN wire |-> [wire[i] EXCEPT !.age = @ + 1]]
  /\ c2_since' = OneMore(c2_since, IF connected THEN MaxTransit + 1 ELSE LongAgo)
  /\ heard_ago' = OneMore(heard_ago, LongAgo)
  /\ UNCHANGED <<controllerVars, hostVars, lossVars, boundVars>>

Start ==
  /\ HostStart
  /\ since_loop' = 0
  /\ heard_ago' = LongAgo
  /\ UNCHANGED <<ctlVars, wire, c2_since, lossVars, boundVars>>

Stop ==
  /\ stops < MaxStops
  /\ HostStop
  /\ since_loop' = 0
  /\ stops' = stops + 1
  /\ UNCHANGED <<ctlVars, wire, c2_since, heard_ago, lossVars, flips>>

BaseStation ==
  /\ flips < MaxFlips
  /\ Connect \/ Disconnect
  /\ flips' = flips + 1
  /\ c2_since' = 0
  /\ UNCHANGED <<ctlVars, host_pc, loop_now, senderVars, last_rx_time,
                 monitorVars, inbox, wire, since_loop, heard_ago, lossVars,
                 stops>>

Loop ==
  /\ LoopTop
  /\ since_loop' = 0
  /\ UNCHANGED <<ctlVars, wire, c2_since, heard_ago, lossVars, boundVars>>

Send ==
  /\ SendControl
  /\ wire' = Append(wire,
               [frame |-> ControlFrame(ManualCommand(C2Lost), tx_seq'),
                age |-> 0])
  /\ UNCHANGED <<ctlVars, since_loop, c2_since, heard_ago, lossVars,
                 boundVars>>

Receive ==
  /\ Poll
  /\ UNCHANGED <<ctlVars, wire, since_loop, c2_since, heard_ago, lossVars,
                 boundVars>>

(* A frame reaches the Jetson's interface; nobody keeps it if no process   *)
(* runs.                                                                   *)
Arrive(kind) ==
  /\ host_pc # "off"
  /\ Len(inbox) < MaxInbox
  /\ inbox' = Append(inbox, kind)
  /\ heard_ago' = IF kind = "OTHER" THEN heard_ago ELSE 0
  /\ UNCHANGED <<ctlVars, host_pc, loop_now, senderVars, last_rx_time,
                 monitorVars, connected, wire, since_loop, c2_since, lossVars,
                 boundVars>>

(* The oldest frame reaches the controller.                                *)
Deliver ==
  /\ wire # <<>>
  /\ IngestFrame(Head(wire).frame)
  /\ wire' = Tail(wire)
  /\ lost_total' = IF have_control_ THEN lost_total + lost_run ELSE lost_total
  /\ lost_run' = 0
  /\ UNCHANGED <<hostVars, since_loop, c2_since, heard_ago, boundVars>>

Lose ==
  /\ wire # <<>>
  /\ lost_run < MaxLost
  /\ wire' = Tail(wire)
  /\ lost_run' = lost_run + 1
  /\ UNCHANGED <<ctlVars, hostVars, since_loop, c2_since, heard_ago,
                 lost_total, boundVars>>

(* The bounded run is over.                                                *)
Ended == now = MaxTime /\ UNCHANGED vars

Next ==
  \/ Tick \/ Start \/ Stop \/ BaseStation \/ Loop \/ Send \/ Receive
  \/ Deliver \/ Lose \/ Ended
  \/ \E kind \in Kinds : Arrive(kind)

Spec == Init /\ [][Next]_vars

(***************************************************************************)
(* Properties                                                              *)
(***************************************************************************)

(* A rover under manual control stands still, and telemetry stops calling  *)
(* the base station OK, C2LossBound after the base station was last heard, *)
(* whether the Jetson reports the loss, stalls, dies or is cut off, and    *)
(* however frames are delayed or lost.  Neither timeout gives this alone:  *)
(* the Jetson's bounds the age of the report, the controller's watchdog    *)
(* how long a report is believed.  Each acts in the millisecond that       *)
(* reaches it, hence - 1 twice.                                            *)
C2LossBound == C2Timeout - 1 + MaxStall + MaxTransit + WatchdogTimeout - 1
NoDriveWithoutBaseStation ==
  CommandedOutputs(now) # ZeroCmd \/ C2LinkState(now) = "OK"
    => connected \/ c2_since <= C2LossBound

(* A running Jetson is silent for no longer than its lost frames, one      *)
(* delay and two stalls take: the loop may stall before it sees that a     *)
(* frame is due, and again between reading its clock and sending.  The     *)
(* send times after a stall do not drift, so no further stall adds to it,  *)
(* while none is longer than a period: longer ones, one after the other,   *)
(* leave the loop no pass in which to catch up.                            *)
SilenceBound ==
  (MaxLost + 1) * ControlPeriod + 2 * MaxStall - 1 + MaxTransit
NoNuisanceTrip ==
  /\ have_control_
  /\ stops = 0
  /\ MaxStall <= ControlPeriod
  => now - last_control_ms_ <= SilenceBound

(* frames_lost_estimate_ is exact on a bus that keeps order, while fewer   *)
(* frames are lost in a row than the sequence number can count and the     *)
(* Jetson program does not start over.                                     *)
LossIsCounted == stops = 0 => counters.lost = lost_total % CounterMod

(* Recovery: a base station that is back for longer than a frame is on its *)
(* way is believed with the first frame that arrives; no report from       *)
(* before its return is sent, and none is remembered, after it.            *)
ReviveOnReturn ==
  [][ Deliver /\ connected /\ c2_since > MaxTransit
      => CommandedOutputs(now)' # ZeroCmd /\ C2LinkState(now)' = "OK" ]_vars

(* rover_controller.cpp:74: a loss so long that the sequence number comes  *)
(* round to the expected value, and no gap is seen, has tripped the        *)
(* watchdog before the next frame is accepted, if the watchdog is shorter  *)
(* than the least time such a loss can take.  The frame before the loss    *)
(* may have been sent late, by what the schedule has not dropped, and      *)
(* that much shortens it.                                                  *)
MostLate == IF MaxStall <= ControlPeriod THEN MaxStall ELSE 2 * ControlPeriod
HiddenLossTime ==
  (SeqMod + 1) * ControlPeriod - MostLate - MaxStall - MaxTransit
HiddenLossTripsWatchdog ==
  [][ /\ Deliver
      /\ have_control_ /\ lost_run > 0 /\ stops = 0 /\ ~seq_gap_'
      /\ WatchdogTimeout <= HiddenLossTime
      => WatchdogTripped(now) ]_vars

(* link_up dates telemetry by when it was read, not by when it came in, so *)
(* a frame that sat in the queue makes the link look younger than it is;   *)
(* but by no more than the two passes a frame can wait to be read.         *)
ReadDelay == 2 * MaxStall
LinkUpIsRecent == LinkUp => heard_ago < LinkTimeout + ReadDelay

(* A program that is running and has had the time to read does not call    *)
(* the link down while telemetry keeps coming.                             *)
LinkDownIsSilence ==
  host_pc # "off" /\ heard_ago > ReadDelay /\ heard_ago < LinkTimeout => LinkUp
=============================================================================
