--------------------------- MODULE RoverLinkProofs --------------------------
(***************************************************************************)
(* How long the rover can go on without its base station, for every        *)
(* timeout, send period, stall, delay and loss, whatever becomes of the    *)
(* Jetson program; what it makes of its link, and what becomes of its      *)
(* frames; and that all of it is a bus as ControllerTiming has it.  The    *)
(* clock moves by Tick alone here, so ReadSkew is 0.                       *)
(***************************************************************************)
EXTENDS RoverLink, RoverControllerProofs, SequenceTheorems

ClockIsTicked == ReadSkew = 0

(* The frames run() sends, and where they are on the bus.                  *)
Reports == {ControlFrame(ManualCommand(l), s) :
              l \in BOOLEAN, s \in 0 .. TxSeqMod - 1}
Item == [frame : Reports, age : 0 .. MaxTransit]

PathTypeOK ==
  /\ now \in 0 .. MaxTime
  /\ last_control_ms_ \in Nat /\ last_control_ms_ <= now
  /\ loop_now \in Nat
  /\ last_C2_time_s \in Nat
  /\ tx_seq \in 0 .. TxSeqMod - 1
  /\ host_pc \in {"off", "top", "send", "poll"}
  /\ c2_since \in Nat
  /\ since_loop \in 0 .. MaxStall
  /\ wire \in Seq(Item)

(* The loop works with a clock reading of this pass ...                    *)
LoopIsRecent == host_pc # "off" => loop_now + since_loop = now

(* ... and has not heard the base station since it left.                   *)
MonitorIsHonest ==
  host_pc # "off" => last_C2_time_s <= loop_now
    /\ (have_connection /\ ~connected => c2_since <= now - last_C2_time_s)

(* How old a good report can be when it is sent, on the bus, and stored.   *)
SentBound == C2Timeout - 1 + MaxStall
WireIsRecent ==
  ~connected =>
    \A i \in DOMAIN wire :
      ~wire[i].frame.msg.c2_lost => c2_since <= SentBound + wire[i].age

CommandIsRecent ==
  have_control_ =>
    /\ last_control_.mode = "MANUAL"
    /\ ~connected /\ ~last_control_.c2_lost =>
         c2_since <= SentBound + MaxTransit + (now - last_control_ms_)

ReportInv ==
  /\ PathTypeOK
  /\ LoopIsRecent
  /\ MonitorIsHonest
  /\ WireIsRecent
  /\ CommandIsRecent

LEMMA PathMagnitudes ==
  /\ MaxStall \in Nat /\ MaxTransit \in Nat
  /\ MaxTime \in Nat /\ W \in Nat /\ MaxTime < W
  /\ C2Timeout \in Nat /\ C2Timeout > 0
  /\ WatchdogTimeout \in Nat /\ WatchdogTimeout > 0
  /\ TxSeqMod \in Nat /\ TxSeqMod > 0
BY RoverLinkAssumption, HostAssumption, ControllerAssumption, ClockAssumption

LEMMA ReportSays ==
  ASSUME NEW f \in Reports
  PROVE  /\ f.id = "CONTROL"
         /\ f.msg.mode = "MANUAL"
         /\ f.msg.c2_lost \in BOOLEAN
         /\ f.defects = {} /\ f.seq \in 0 .. TxSeqMod - 1
         /\ f.msg = ManualCommand(f.msg.c2_lost)
<1>1. PICK l \in BOOLEAN, n \in 0 .. TxSeqMod - 1 :
        f = ControlFrame(ManualCommand(l), n)
  BY DEF Reports
<1>2. f.id = "CONTROL" /\ f.msg = ManualCommand(l) /\ f.seq = n /\ f.defects = {}
  BY <1>1 DEF ControlFrame
<1>3. ManualCommand(l).mode = "MANUAL" /\ ManualCommand(l).c2_lost = l
  BY DEF ManualCommand
<1>. QED
  BY <1>2, <1>3

(* A queue with each entry replaced.                                       *)
LEMMA QueueReplace ==
  ASSUME NEW S, NEW q \in Seq(S), NEW g,
         g = [i \in DOMAIN q |-> g[i]], \A i \in DOMAIN q : g[i] \in S
  PROVE  g \in Seq(S)
<1>1. PICK n \in Nat : DOMAIN q = 1 .. n
  OBVIOUS
<1>. QED
  BY <1>1

LEMMA ReportStarts == Init => ReportInv
<1> SUFFICES ASSUME Init PROVE ReportInv
  OBVIOUS
<1> USE PathMagnitudes
<1>1. PathTypeOK
  <2>1. wire \in Seq(Item)
    BY EmptySeq DEF Init
  <2>2. LongAgo \in Nat
    BY DEF LongAgo
  <2>. QED
    BY <2>1, <2>2 DEF Init, BootController, HostOff, PathTypeOK
<1>2. LoopIsRecent /\ MonitorIsHonest /\ CommandIsRecent
  BY DEF Init, BootController, HostOff, LoopIsRecent, MonitorIsHonest,
     CommandIsRecent
<1>3. WireIsRecent
  BY DEF Init, WireIsRecent
<1>. QED
  BY <1>1, <1>2, <1>3 DEF ReportInv

(* Time makes a report and what it is about older at the same rate.        *)
LEMMA ReportTick == ASSUME ReportInv, Tick PROVE ReportInv'
<1> USE PathMagnitudes
<1>1. /\ now' = now + 1 /\ now < MaxTime
      /\ UNCHANGED <<controllerVars, hostVars>>
      /\ host_pc # "off" =>
           since_loop' = since_loop + 1 /\ since_loop < MaxStall
      /\ host_pc = "off" => since_loop' = 0
  BY DEF Tick
<1>2. c2_since \in Nat /\ c2_since' \in Nat /\ c2_since' <= c2_since + 1
  <2>1. c2_since \in Nat
    BY DEF ReportInv, PathTypeOK
  <2>. QED
    BY <2>1 DEF Tick, OneMore, LongAgo
<1>3. wire \in Seq(Item) /\ \A i \in DOMAIN wire : wire[i] \in Item
  BY ElementOfSeq, LenProperties DEF ReportInv, PathTypeOK
<1>4. /\ wire' = [i \in DOMAIN wire |-> [wire[i] EXCEPT !.age = @ + 1]]
      /\ \A i \in DOMAIN wire : wire[i].age < MaxTransit
  BY DEF Tick
<1>5. DOMAIN wire' = DOMAIN wire
      /\ \A i \in DOMAIN wire :
           /\ wire'[i] \in Item
           /\ wire'[i].frame = wire[i].frame
           /\ wire[i].age \in Nat /\ wire'[i].age = wire[i].age + 1
  BY <1>3, <1>4 DEF Item
<1>6. wire' \in Seq(Item)
  BY <1>3, <1>4, <1>5, QueueReplace
<1>7. PathTypeOK'
  BY <1>1, <1>2, <1>6 DEF ReportInv, PathTypeOK, controllerVars, commandVars,
     hostVars, senderVars, monitorVars
<1>8. LoopIsRecent' /\ MonitorIsHonest' /\ CommandIsRecent'
  BY <1>1, <1>2 DEF ReportInv, PathTypeOK, LoopIsRecent, MonitorIsHonest,
     CommandIsRecent, SentBound, controllerVars, commandVars, hostVars,
     senderVars, monitorVars
<1>9. WireIsRecent'
  BY <1>1, <1>2, <1>5 DEF ReportInv, WireIsRecent, SentBound, hostVars
<1>. QED
  BY <1>7, <1>8, <1>9 DEF ReportInv

(* The base station goes, and nothing is known to be older; or it comes.   *)
LEMMA ReportBaseStation == ASSUME ReportInv, BaseStation PROVE ReportInv'
<1> USE PathMagnitudes
<1>1. /\ UNCHANGED <<ctlVars, host_pc, loop_now, senderVars, monitorVars, wire,
                     since_loop>>
      /\ c2_since' = 0
      /\ connected' \in BOOLEAN
  BY DEF BaseStation, Connect, Disconnect
<1>2. PathTypeOK'
  BY <1>1 DEF ReportInv, PathTypeOK, ctlVars, controllerVars, commandVars,
     senderVars, monitorVars
<1>3. LoopIsRecent' /\ MonitorIsHonest' /\ CommandIsRecent'
  BY <1>1 DEF ReportInv, PathTypeOK, LoopIsRecent, MonitorIsHonest,
     CommandIsRecent, SentBound, ctlVars, controllerVars, commandVars,
     senderVars, monitorVars
<1>4. \A i \in DOMAIN wire : wire[i].age \in Nat
  <2>1. \A i \in DOMAIN wire : wire[i] \in Item
    BY ElementOfSeq, LenProperties DEF ReportInv, PathTypeOK
  <2>. QED
    BY <2>1 DEF Item
<1>5. WireIsRecent'
  BY <1>1, <1>4 DEF WireIsRecent, SentBound
<1>. QED
  BY <1>2, <1>3, <1>5 DEF ReportInv

(* The process starts, ends, reads its clock or its inbox.                 *)
LEMMA ReportHost ==
  ASSUME ReportInv, Start \/ Stop \/ Loop \/ Receive
           \/ (\E kind \in Kinds : Arrive(kind))
  PROVE  ReportInv'
<1> USE PathMagnitudes
<1>1. /\ UNCHANGED <<ctlVars, wire, c2_since, connected>>
      /\ tx_seq' = tx_seq \/ tx_seq' = 0
  BY DEF Start, HostStart, Stop, HostStop, Loop, LoopTop, Receive, Poll, Arrive,
     senderVars
<1>2. WireIsRecent' /\ CommandIsRecent'
  BY <1>1 DEF ReportInv, WireIsRecent, CommandIsRecent, ctlVars,
     controllerVars, commandVars
<1>3. PathTypeOK'
  BY <1>1 DEF ReportInv, PathTypeOK, Start, HostStart, Stop, HostStop, Loop,
     LoopTop, Receive, Poll, Arrive, ctlVars, controllerVars, commandVars,
     senderVars, monitorVars
<1>4. LoopIsRecent' /\ MonitorIsHonest'
  BY <1>1 DEF ReportInv, PathTypeOK, LoopIsRecent, MonitorIsHonest, Start,
     HostStart, Stop, HostStop, Loop, LoopTop, Receive, Poll, Arrive, ctlVars,
     controllerVars, commandVars, senderVars, monitorVars
<1>. QED
  BY <1>2, <1>3, <1>4 DEF ReportInv

(* A good report is sent on a good verdict, and that is a recent one.      *)
LEMMA ReportSend == ASSUME ReportInv, Send PROVE ReportInv'
<1> USE PathMagnitudes
<1> DEFINE lost == C2Lost
           report == ControlFrame(ManualCommand(lost), tx_seq')
           item == [frame |-> report, age |-> 0]
<1>1. /\ UNCHANGED <<ctlVars, since_loop, c2_since, loop_now, connected>>
      /\ host_pc = "send" /\ host_pc' = "poll"
      /\ have_connection' => have_connection \/ connected
      /\ last_C2_time_s' = IF connected THEN loop_now ELSE last_C2_time_s
      /\ tx_seq' = (tx_seq + 1) % TxSeqMod
      /\ wire' = Append(wire, item)
  BY DEF Send, SendControl, NextTxSeq
<1>2. /\ lost \in BOOLEAN
      /\ ~lost => have_connection' /\ loop_now - last_C2_time_s' < C2Timeout
  <2>1. lost \in BOOLEAN
    BY Zenon DEF C2Lost, NoConnection
  <2>2. loop_now \in Int /\ last_C2_time_s' \in Int /\ C2Timeout \in Int
    BY <1>1 DEF ReportInv, PathTypeOK
  <2>3. ~lost => have_connection' /\ ~(loop_now - last_C2_time_s' >= C2Timeout)
    BY Zenon DEF C2Lost, NoConnection
  <2>4. \A t, u, d \in Int : ~(t - u >= d) => t - u < d
    OBVIOUS
  <2>. QED
    BY <2>1, <2>2, <2>3, <2>4, Zenon
<1>3. tx_seq' \in 0 .. TxSeqMod - 1
  BY <1>1 DEF ReportInv, PathTypeOK
<1>4. item \in Item /\ item.age = 0 /\ item.frame.msg.c2_lost = lost
  <2>1. report \in Reports
    <3> HIDE DEF lost
    <3>. QED
      BY <1>2, <1>3 DEF Reports
  <2>2. report.msg.c2_lost = lost
    BY Zenon DEF ControlFrame, ManualCommand
  <2>. HIDE DEF report, lost
  <2>. QED
    BY <2>1, <2>2, PathMagnitudes DEF Item
<1> HIDE DEF lost, report, item
<1>5. wire' \in Seq(Item)
  BY <1>1, <1>4, AppendProperties DEF ReportInv, PathTypeOK
<1>6. PathTypeOK'
  BY <1>1, <1>3, <1>5 DEF ReportInv, PathTypeOK, ctlVars, controllerVars,
     commandVars
<1>7. LoopIsRecent' /\ MonitorIsHonest' /\ CommandIsRecent'
  BY <1>1 DEF ReportInv, PathTypeOK, LoopIsRecent, MonitorIsHonest,
     CommandIsRecent, ctlVars, controllerVars, commandVars
<1>8. WireIsRecent'
  <2> SUFFICES ASSUME ~connected, NEW i \in DOMAIN wire',
                      ~wire'[i].frame.msg.c2_lost
               PROVE  c2_since <= SentBound + wire'[i].age
    BY <1>1 DEF WireIsRecent, SentBound
  <2>1. \/ i \in DOMAIN wire /\ wire'[i] = wire[i]
        \/ wire'[i] = item
    BY <1>1, <1>4, AppendProperties, LenProperties DEF ReportInv, PathTypeOK
  <2>2. CASE i \in DOMAIN wire /\ wire'[i] = wire[i]
    BY <2>2 DEF ReportInv, WireIsRecent
  <2>3. CASE wire'[i] = item
    BY <1>1, <1>2, <1>4, <2>3
       DEF ReportInv, PathTypeOK, LoopIsRecent, MonitorIsHonest, SentBound
  <2>. QED
    BY <2>1, <2>2, <2>3
<1>. QED
  BY <1>6, <1>7, <1>8 DEF ReportInv

(* Frames leave the bus at its head.                                       *)
LEMMA BusMoves ==
  ASSUME ReportInv, wire # <<>>, wire' = Tail(wire),
         UNCHANGED <<hostVars, c2_since>>
  PROVE  /\ wire' \in Seq(Item) /\ WireIsRecent'
         /\ Head(wire) \in Item /\ 1 \in DOMAIN wire /\ Head(wire) = wire[1]
<1>1. wire \in Seq(Item) /\ DOMAIN wire = 1 .. Len(wire) /\ Len(wire) \in Nat
  BY LenProperties DEF ReportInv, PathTypeOK
<1>2. /\ Tail(wire) \in Seq(Item) /\ Head(wire) \in Item
      /\ Len(Tail(wire)) = Len(wire) - 1
      /\ \A i \in 1 .. Len(Tail(wire)) : Tail(wire)[i] = wire[i + 1]
  BY <1>1, HeadTailProperties
<1>3. Len(wire) # 0 /\ Head(wire) = wire[1]
  BY <1>1
<1>4. \A i \in DOMAIN wire' : i + 1 \in DOMAIN wire /\ wire'[i] = wire[i + 1]
  BY <1>1, <1>2, LenProperties
<1>5. WireIsRecent'
  BY <1>4 DEF ReportInv, WireIsRecent, SentBound, hostVars
<1>. QED
  BY <1>1, <1>2, <1>3, <1>5

LEMMA ReportLose == ASSUME ReportInv, Lose PROVE ReportInv'
<1>1. /\ wire # <<>> /\ wire' = Tail(wire)
      /\ UNCHANGED <<ctlVars, hostVars, since_loop, c2_since>>
  BY DEF Lose
<1>2. PathTypeOK'
  BY <1>1, BusMoves DEF ReportInv, PathTypeOK, ctlVars, controllerVars,
     commandVars, hostVars, senderVars, monitorVars
<1>3. LoopIsRecent' /\ MonitorIsHonest' /\ CommandIsRecent'
  BY <1>1 DEF ReportInv, LoopIsRecent, MonitorIsHonest, CommandIsRecent,
     ctlVars, controllerVars, commandVars, hostVars, senderVars, monitorVars
<1>. QED
  BY <1>1, <1>2, <1>3, BusMoves DEF ReportInv

(* A frame that run() sent and that arrives is always accepted.            *)
LEMMA DeliverAccepts ==
  ASSUME ClockIsTicked, ReportInv, Deliver
  PROVE  /\ 1 \in DOMAIN wire /\ wire[1] \in Item /\ wire' = Tail(wire)
         /\ Accept(wire[1].frame, 0) /\ now' = now
<1>1. /\ wire \in Seq(Item) /\ wire # <<>> /\ wire' = Tail(wire)
      /\ IngestFrame(Head(wire).frame)
  BY DEF Deliver, ReportInv, PathTypeOK
<1>2. /\ Head(wire) \in Item /\ 1 \in DOMAIN wire /\ Head(wire) = wire[1]
  BY <1>1, HeadTailProperties, LenProperties
<1> DEFINE f == wire[1].frame
<1>3. f \in Reports /\ IngestFrame(f)
  BY <1>1, <1>2 DEF Item
<1> HIDE DEF f
<1>4. f.id = "CONTROL" /\ f.defects = {}
  BY <1>3, ReportSays
<1>5. DecodeControl(f) = "OK"
  BY <1>4 DEF DecodeControl
<1>6. ~IgnoreForeign(f) /\ ~Reject(f)
  BY <1>4, <1>5 DEF IgnoreForeign, Reject
<1>7. PICK d \in 0 .. ReadSkew : Accept(f, d)
  BY <1>3, <1>6 DEF IngestFrame
<1>8. d = 0
  BY <1>7 DEF ClockIsTicked
<1>9. Accept(f, 0)
  BY <1>7, <1>8
<1>10. now' = now
  <2>1. now \in 0 .. W - 1 /\ now' = Advance(now, 0)
    BY <1>9, PathMagnitudes DEF Accept, ReportInv, PathTypeOK
  <2>. QED
    BY <2>1, PathMagnitudes DEF Advance
<1>. QED
  BY <1>1, <1>2, <1>9, <1>10 DEF f

(* The controller takes over a report that is as old as its way was long.  *)
LEMMA ReportDeliver == ASSUME ClockIsTicked, ReportInv, Deliver PROVE ReportInv'
<1> USE PathMagnitudes
<1> DEFINE f == Head(wire).frame
<1>1. /\ wire # <<>> /\ wire' = Tail(wire)
      /\ UNCHANGED <<hostVars, since_loop, c2_since>>
      /\ IngestFrame(f)
  BY DEF Deliver
<1>2. /\ f \in Reports
      /\ Head(wire).age \in Nat /\ Head(wire).age <= MaxTransit
      /\ ~connected /\ ~f.msg.c2_lost =>
           c2_since <= SentBound + Head(wire).age
  BY <1>1, BusMoves DEF Item, ReportInv, WireIsRecent
<1>3. /\ now' = now /\ have_control_' = TRUE /\ last_control_ms_' = now
      /\ last_control_' = f.msg
  BY <1>1, BusMoves, DeliverAccepts DEF Accept
<1>4. PathTypeOK'
  BY <1>1, <1>3, BusMoves DEF ReportInv, PathTypeOK, hostVars, senderVars,
     monitorVars
<1>5. LoopIsRecent' /\ MonitorIsHonest'
  BY <1>1, <1>3 DEF ReportInv, LoopIsRecent, MonitorIsHonest, hostVars,
     senderVars, monitorVars
<1>6. CommandIsRecent'
  <2>1. last_control_'.mode = "MANUAL"
    BY <1>2, <1>3, ReportSays
  <2>. QED
    BY <1>1, <1>2, <1>3, <2>1
       DEF ReportInv, PathTypeOK, CommandIsRecent, SentBound, hostVars
<1>. QED
  BY <1>1, <1>4, <1>5, <1>6, BusMoves DEF ReportInv

LEMMA ReportInvariant == ASSUME ClockIsTicked PROVE Spec => []ReportInv
<1>1. ReportInv /\ [Next]_vars => ReportInv'
  <2> SUFFICES ASSUME ReportInv, [Next]_vars PROVE ReportInv'
    OBVIOUS
  <2>1. CASE UNCHANGED vars
    BY <2>1 DEF vars, ctlVars, controllerVars, commandVars, hostVars,
       senderVars, monitorVars, ReportInv, PathTypeOK, LoopIsRecent,
       MonitorIsHonest, WireIsRecent, CommandIsRecent
  <2>2. Ended => UNCHANGED vars
    BY DEF Ended
  <2>. QED
    BY <2>1, <2>2, ReportTick, ReportBaseStation, ReportHost, ReportSend,
       ReportDeliver, ReportLose DEF Next
<1>. QED
  BY <1>1, ReportStarts, PTL DEF Spec

(* A manual rover stands still, and its telemetry stops calling the base   *)
(* station OK, within the two timeouts, a stall and a delay of losing the  *)
(* base station, whatever the Jetson program and the bus do.               *)
THEOREM RoverStopsWithoutBaseStation ==
  ASSUME ClockIsTicked PROVE Spec => []NoDriveWithoutBaseStation
<1>1. ReportInv => NoDriveWithoutBaseStation
  <2> SUFFICES ASSUME ReportInv, ~connected,
                      CommandedOutputs(now) # ZeroCmd \/ C2LinkState(now) = "OK"
               PROVE  c2_since <= C2LossBound
    BY DEF NoDriveWithoutBaseStation
  <2>1. /\ have_control_
        /\ Elapsed(now, last_control_ms_) < WatchdogTimeout
    <3>1. ~WatchdogTripped(now)
      BY DEF CommandedOutputs, EffectiveStop, C2LinkState
    <3>2. Elapsed(now, last_control_ms_) \in Int
      BY PathMagnitudes DEF ReportInv, PathTypeOK, Elapsed
    <3>. QED
      BY <3>1, <3>2, PathMagnitudes DEF WatchdogTripped
  <2>2. ~last_control_.c2_lost
    BY <2>1 DEF CommandedOutputs, EffectiveStop, Permits, C2LinkState,
       WatchdogTripped, ReportInv, CommandIsRecent
  <2>3. now - last_control_ms_ < WatchdogTimeout
    BY <2>1, PathMagnitudes DEF ReportInv, PathTypeOK, Elapsed
  <2>. QED
    BY <2>1, <2>2, <2>3, PathMagnitudes
       DEF ReportInv, PathTypeOK, CommandIsRecent, SentBound, C2LossBound
<1>. QED
  BY <1>1, ReportInvariant, PTL

(***************************************************************************)
(* Types                                                                   *)
(***************************************************************************)

(* What run() sends is a command of the protocol, and it moves.            *)
LEMMA ManualCommandIsTyped ==
  ASSUME NEW l \in BOOLEAN
  PROVE  ManualCommand(l) \in ControlMsg /\ ManualCommand(l).cmd # ZeroCmd
<1> DEFINE go == CHOOSE c \in Commands : c # ZeroCmd
<1>1. go \in Commands /\ go # ZeroCmd
  BY RoverLinkAssumption
<1> HIDE DEF go
<1>2. ManualCommand(l) =
        [cmd |-> go, mode |-> "MANUAL", stop |-> FALSE,
         autonomy_abort |-> FALSE, c2_lost |-> l,
         indicator_request |-> "TELEOP"]
  BY DEF ManualCommand, go
<1>. QED
  BY <1>1, <1>2 DEF ControlMsg, Modes, Indicators

LEMMA ReportsAreFrames == Reports \subseteq FrameType
<1> SUFFICES ASSUME NEW l \in BOOLEAN, NEW n \in 0 .. TxSeqMod - 1
             PROVE  ControlFrame(ManualCommand(l), n) \in FrameType
  BY DEF Reports
<1>1. ManualCommand(l) \in ControlMsg /\ n \in 0 .. SeqMod - 1
  BY ManualCommandIsTyped, RoverLinkAssumption
<1>. QED
  BY <1>1, Zenon DEF ControlFrame, FrameType

LEMMA SeqOfLarger ==
  ASSUME NEW S, NEW T, S \subseteq T, NEW q \in Seq(S) PROVE q \in Seq(T)
OBVIOUS

(* The time since the base station came is no longer than the run.         *)
TypeInv ==
  /\ TypeOK
  /\ now <= MaxTime
  /\ connected => c2_since <= now

LEMMA TypeStarts == Init => TypeInv
<1> SUFFICES ASSUME Init PROVE TypeInv
  OBVIOUS
<1> USE PathMagnitudes
<1>1. ControllerTypeOK
  BY BootIsTyped DEF Init
<1>2. HostTypeOK
  <2>1. inbox \in Seq(Kinds)
    BY EmptySeq DEF Init, HostOff
  <2>2. /\ host_pc = "off" /\ loop_now = 0 /\ t_next = 0 /\ last_C2_time_s = 0
        /\ tx_seq = 0 /\ last_rx_time = Never /\ have_connection = FALSE
        /\ connected = FALSE
    BY DEF Init, HostOff
  <2>3. have_connection \in BOOLEAN /\ connected \in BOOLEAN
    BY <2>2
  <2>4. tx_seq \in 0 .. TxSeqMod - 1 /\ {loop_now, t_next, last_C2_time_s} \subseteq Nat
    BY <2>2
  <2>5. last_rx_time \in Nat \cup {Never} /\ host_pc \in {"off", "top", "send", "poll"}
    BY <2>2
  <2>. QED
    BY <2>1, <2>3, <2>4, <2>5, Zenon DEF HostTypeOK
<1>3. wire \in Seq([frame : FrameType, age : 0 .. MaxTransit])
  BY EmptySeq DEF Init
<1>. QED
  BY <1>1, <1>2, <1>3, RoverLinkAssumption
     DEF Init, HostOff, TypeInv, TypeOK, LongAgo

(* The controller moves with the clock and with what is delivered.         *)
LEMMA ControllerSteps ==
  ASSUME ReportInv, TypeInv, Next PROVE ControllerTypeOK'
<1>1. ControllerTypeOK
  BY DEF TypeInv, TypeOK
<1>2. CASE Tick
  <2>1. now' \in Stamp
    <3>1. now \in 0 .. MaxTime /\ now < MaxTime /\ now' = now + 1
      BY <1>2 DEF Tick, ReportInv, PathTypeOK
    <3>. QED
      BY <3>1, PathMagnitudes DEF Stamp
  <2>. QED
    BY <1>1, <1>2, <2>1, TimeIsTyped DEF Tick
<1>3. CASE Deliver
  <2>1. wire # <<>> /\ wire \in Seq(Item) /\ IngestFrame(Head(wire).frame)
    BY <1>3 DEF Deliver, ReportInv, PathTypeOK
  <2>2. Head(wire) \in Item
    BY <2>1, HeadTailProperties
  <2>3. Head(wire).frame \in FrameType
    BY <2>2, ReportsAreFrames DEF Item
  <2>. QED
    BY <1>1, <2>1, <2>3, IngestIsTyped
<1>4. CASE UNCHANGED ctlVars
  BY <1>1, <1>4, Zenon DEF ControllerTypeOK, ctlVars, controllerVars,
     commandVars, linkVars
<1>. QED
  BY <1>2, <1>3, <1>4 DEF Next, Start, Stop, BaseStation, Loop, Send, Receive,
     Arrive, Lose, Ended, vars

LEMMA HostSteps ==
  ASSUME ReportInv, ReportInv', TypeInv, Next PROVE HostTypeOK'
<1> USE PathMagnitudes
<1>1. /\ host_pc' \in {"off", "top", "send", "poll"}
      /\ loop_now' \in Nat /\ last_C2_time_s' \in Nat
      /\ tx_seq' \in 0 .. TxSeqMod - 1
  BY DEF ReportInv, PathTypeOK
<1>2. HostTypeOK /\ now \in Nat /\ loop_now \in Nat /\ t_next \in Nat
  BY DEF TypeInv, TypeOK, HostTypeOK, ReportInv, PathTypeOK
<1>3. t_next' \in Nat
  <2>1. CASE Send
    BY <2>1, <1>2, HostAssumption DEF Send, SendControl, NextSend
  <2>2. CASE Start
    BY <2>2, <1>2 DEF Start, HostStart
  <2>3. CASE t_next' = t_next
    BY <2>3, <1>2
  <2>. QED
    BY <2>1, <2>2, <2>3 DEF Next, Tick, Stop, HostStop, BaseStation, Loop,
       LoopTop, Receive, Poll, Arrive, Deliver, Lose, Ended, vars, hostVars,
       senderVars
<1>4. inbox' \in Seq(Kinds)
  <2>1. CASE Start \/ Receive
    BY <2>1, EmptySeq DEF Start, HostStart, Receive, Poll
  <2>2. ASSUME NEW kind \in Kinds, Arrive(kind) PROVE inbox' \in Seq(Kinds)
    BY <1>2, <2>2, AppendProperties DEF Arrive, HostTypeOK
  <2>3. CASE inbox' = inbox
    BY <1>2, <2>3 DEF HostTypeOK
  <2>. QED
    BY <2>1, <2>2, <2>3 DEF Next, Tick, Stop, HostStop, BaseStation, Loop,
       LoopTop, Send, SendControl, Deliver, Lose, Ended, vars, hostVars
<1>5. last_rx_time' \in Nat \cup {Never}
  BY <1>2 DEF HostTypeOK, Next, Tick, Start, HostStart, Stop, HostStop,
     BaseStation, Loop, LoopTop, Send, SendControl, Receive, Poll, Arrive,
     Deliver, Lose, Ended, vars, hostVars
<1>6. connected' \in BOOLEAN /\ have_connection' \in BOOLEAN
  <2>1. connected \in BOOLEAN /\ have_connection \in BOOLEAN
    BY <1>2 DEF HostTypeOK
  <2>2. connected' \in {connected, TRUE, FALSE}
    BY <2>1 DEF Next, Tick, Start, HostStart, Stop, HostStop,
       BaseStation, Connect, Disconnect, Loop, LoopTop, Send, SendControl,
       Receive, Poll, Arrive, Deliver, Lose, Ended, vars, hostVars
  <2>3. have_connection' \in {have_connection, FALSE, have_connection \/ connected}
    BY <2>1 DEF Next, Tick, Start, HostStart, Stop, HostStop,
       BaseStation, Loop, LoopTop, Send, SendControl, Receive, Poll, Arrive,
       Deliver, Lose, Ended, vars, hostVars, monitorVars
  <2>. QED
    BY <2>1, <2>2, <2>3
<1>. QED
  BY <1>1, <1>3, <1>4, <1>5, <1>6 DEF HostTypeOK

LEMMA HistorySteps ==
  ASSUME ReportInv, TypeInv, Next
  PROVE  /\ c2_since' \in 0 .. LongAgo /\ heard_ago' \in 0 .. LongAgo
         /\ lost_run' \in 0 .. MaxLost /\ lost_total' \in Nat
         /\ stops' \in 0 .. MaxStops /\ flips' \in 0 .. MaxFlips
         /\ Tick /\ connected' => c2_since' <= now'
         /\ ~Tick /\ connected' => c2_since' <= now
<1>1. /\ MaxTime \in Nat /\ MaxLost \in Nat /\ MaxStops \in Nat
      /\ MaxFlips \in Nat /\ MaxTransit \in Nat
  BY RoverLinkAssumption
<1>2. /\ c2_since \in 0 .. LongAgo /\ heard_ago \in 0 .. LongAgo
      /\ lost_run \in 0 .. MaxLost /\ lost_total \in Nat
      /\ stops \in 0 .. MaxStops /\ flips \in 0 .. MaxFlips
      /\ connected => c2_since <= now
      /\ now \in 0 .. MaxTime
  BY DEF TypeInv, TypeOK, ReportInv, PathTypeOK
<1>3. CASE Tick
  <2>1. /\ now' = now + 1 /\ now < MaxTime
        /\ c2_since' = OneMore(c2_since, IF connected THEN MaxTransit + 1 ELSE LongAgo)
        /\ heard_ago' = OneMore(heard_ago, LongAgo)
        /\ UNCHANGED <<connected, lost_run, lost_total, stops, flips>>
    BY <1>3 DEF Tick, lossVars, boundVars, hostVars
  <2>. QED
    BY <1>1, <1>2, <1>3, <2>1 DEF OneMore, LongAgo
<1>4. CASE ~Tick
  <2>1. /\ \/ c2_since' = c2_since /\ connected' = connected
           \/ c2_since' = 0
        /\ heard_ago' \in {heard_ago, 0, LongAgo}
        /\ \/ lost_run' \in {lost_run, 0}
           \/ lost_run < MaxLost /\ lost_run' = lost_run + 1
        /\ lost_total' \in {lost_total, lost_total + lost_run}
        /\ \/ stops' = stops
           \/ stops < MaxStops /\ stops' = stops + 1
        /\ \/ flips' = flips
           \/ flips < MaxFlips /\ flips' = flips + 1
    BY <1>4 DEF Next, Start, HostStart, Stop, HostStop, BaseStation, Loop,
       LoopTop, Send, SendControl, Receive, Poll, Arrive, Deliver, Lose, Ended,
       vars, lossVars, boundVars, hostVars
  <2>. QED
    BY <1>1, <1>2, <1>4, <2>1 DEF LongAgo
<1>. QED
  BY <1>3, <1>4

LEMMA TypeNext ==
  ASSUME ClockIsTicked, ReportInv, ReportInv', TypeInv, [Next]_vars
  PROVE  TypeInv'
<1>1. CASE UNCHANGED vars
  BY <1>1, Zenon DEF vars, ctlVars, controllerVars, commandVars, linkVars,
     hostVars, senderVars, monitorVars, lossVars, boundVars, TypeInv, TypeOK,
     ControllerTypeOK, HostTypeOK, LongAgo
<1>2. CASE Next
  <2>1. ControllerTypeOK' /\ HostTypeOK'
    BY <1>2, ControllerSteps, HostSteps
  <2>2. /\ since_loop' \in 0 .. MaxStall /\ now' \in 0 .. MaxTime
        /\ wire' \in Seq(Item)
    BY DEF ReportInv, PathTypeOK
  <2>3. wire' \in Seq([frame : FrameType, age : 0 .. MaxTransit])
    <3>1. Item \subseteq [frame : FrameType, age : 0 .. MaxTransit]
      BY ReportsAreFrames, Zenon DEF Item
    <3>. QED
      BY <2>2, <3>1, SeqOfLarger
  <2>4. /\ {c2_since, heard_ago}' \subseteq 0 .. LongAgo
        /\ lost_run' \in 0 .. MaxLost /\ lost_total' \in Nat
        /\ stops' \in 0 .. MaxStops /\ flips' \in 0 .. MaxFlips
    BY <1>2, HistorySteps
  <2>5. connected' => c2_since' <= now'
    <3>1. CASE Tick
      BY <1>2, <3>1, HistorySteps
    <3>2. CASE Deliver
      <4>1. now' = now
        BY <3>2, DeliverAccepts
      <4>. QED
        BY <3>2, <4>1 DEF Deliver, hostVars, TypeInv
    <3>3. CASE ~Tick /\ ~Deliver
      <4>1. now' = now
        BY <1>2, <3>3 DEF Next, Start, Stop, BaseStation, Loop, Send, Receive,
           Arrive, Lose, Ended, vars, ctlVars
      <4>. QED
        BY <1>2, <3>3, <4>1, HistorySteps
    <3>. QED
      BY <3>1, <3>2, <3>3
  <2>. QED
    BY <2>1, <2>2, <2>3, <2>4, <2>5 DEF TypeInv, TypeOK, LongAgo
<1>. QED
  BY <1>1, <1>2

LEMMA TypeInvariant == ASSUME ClockIsTicked PROVE Spec => []TypeInv
BY TypeStarts, TypeNext, ReportInvariant, PTL DEF Spec

(* Every field of the two programs, of the bus and of the histories keeps  *)
(* to its type.                                                            *)
THEOREM LinkTypeCorrect == ASSUME ClockIsTicked PROVE Spec => []TypeOK
<1>1. TypeInv => TypeOK
  BY DEF TypeInv
<1>. QED
  BY <1>1, TypeInvariant, PTL

(***************************************************************************)
(* What link_up says                                                       *)
(***************************************************************************)

(* A frame that waits to be read came in since the last poll(): in this    *)
(* pass of the loop, or in the one before.                                 *)
WaitBound == IF host_pc = "top" THEN since_loop ELSE MaxStall + since_loop

(* The date of the last sign of life is at most a wait late, and nothing   *)
(* but what still waits is younger.                                        *)
HeardInv ==
  /\ last_rx_time # Never =>
       last_rx_time <= now /\ heard_ago <= now - last_rx_time + ReadDelay
  /\ host_pc # "off" /\ SignOfLife => heard_ago <= WaitBound
  /\ host_pc # "off" /\ heard_ago < LongAgo =>
       SignOfLife \/ (last_rx_time # Never /\ now - last_rx_time <= heard_ago)

LEMMA HeardTypes ==
  ASSUME ReportInv, TypeInv
  PROVE  /\ MaxStall \in Nat /\ now \in Nat /\ loop_now \in Nat
         /\ heard_ago \in 0 .. LongAgo /\ LongAgo \in Nat
         /\ since_loop \in 0 .. MaxStall
         /\ last_rx_time \in Nat \cup {Never} /\ Never \notin Nat
         /\ inbox \in Seq(Kinds)
         /\ host_pc \in {"off", "top", "send", "poll"}
BY PathMagnitudes, HostAssumption
   DEF ReportInv, PathTypeOK, TypeInv, TypeOK, HostTypeOK, LongAgo

LEMMA HeardTick ==
  ASSUME ReportInv, TypeInv, HeardInv, Tick PROVE HeardInv'
<1>1. /\ now' = now + 1
      /\ heard_ago' = IF heard_ago >= LongAgo THEN heard_ago ELSE heard_ago + 1
      /\ host_pc # "off" => since_loop' = since_loop + 1
      /\ UNCHANGED <<last_rx_time, inbox, host_pc>>
  BY DEF Tick, OneMore, hostVars
<1>2. SignOfLife' = SignOfLife
  BY <1>1 DEF SignOfLife
<1>3. /\ MaxStall \in Nat /\ now \in Nat /\ since_loop \in 0 .. MaxStall
      /\ heard_ago \in 0 .. LongAgo /\ LongAgo \in Nat
      /\ last_rx_time \in Nat \cup {Never} /\ Never \notin Nat
  BY HeardTypes
<1>4. (last_rx_time # Never =>
         last_rx_time <= now /\ heard_ago <= now - last_rx_time + ReadDelay)'
  BY <1>1, <1>3 DEF HeardInv, ReadDelay
<1>5. (host_pc # "off" /\ SignOfLife => heard_ago <= WaitBound)'
  BY <1>1, <1>2, <1>3 DEF HeardInv, WaitBound
<1>6. (host_pc # "off" /\ heard_ago < LongAgo =>
         SignOfLife \/ (last_rx_time # Never /\ now - last_rx_time <= heard_ago))'
  BY <1>1, <1>2, <1>3 DEF HeardInv, LongAgo
<1>. QED
  BY <1>4, <1>5, <1>6 DEF HeardInv

(* A process starts with nothing heard and nothing waiting; one that has   *)
(* ended reads no more.                                                    *)
LEMMA HeardStartStop ==
  ASSUME ReportInv, TypeInv, HeardInv, Start \/ Stop PROVE HeardInv'
<1>1. CASE Start
  <2>1. /\ last_rx_time' = Never /\ inbox' = <<>> /\ heard_ago' = LongAgo
    BY <1>1 DEF Start, HostStart
  <2>2. ~SignOfLife'
    BY <2>1 DEF SignOfLife
  <2>3. ~(heard_ago' < LongAgo')
    BY <2>1, HeardTypes DEF LongAgo
  <2>. QED
    BY <2>1, <2>2, <2>3 DEF HeardInv
<1>2. CASE Stop
  <2>1. host_pc' = "off" /\ UNCHANGED <<now, last_rx_time, heard_ago>>
    BY <1>2 DEF Stop, HostStop, ctlVars
  <2>. QED
    BY <2>1 DEF HeardInv, ReadDelay
<1>. QED
  BY <1>1, <1>2

(* A new pass begins within a stall.                                       *)
LEMMA HeardLoop ==
  ASSUME ReportInv, TypeInv, HeardInv, Loop PROVE HeardInv'
<1>1. /\ host_pc = "top" /\ host_pc' \in {"send", "poll"} /\ since_loop' = 0
      /\ UNCHANGED <<now, last_rx_time, inbox, heard_ago>>
  BY DEF Loop, LoopTop, ctlVars
<1>2. SignOfLife' = SignOfLife
  BY <1>1 DEF SignOfLife
<1>. QED
  BY <1>1, <1>2, HeardTypes DEF HeardInv, WaitBound, ReadDelay, LongAgo

(* A frame that comes in waits; telemetry among it is young.               *)
LEMMA HeardArrive ==
  ASSUME ReportInv, TypeInv, HeardInv, NEW kind \in Kinds, Arrive(kind)
  PROVE  HeardInv'
<1>1. /\ inbox' = Append(inbox, kind)
      /\ heard_ago' = IF kind = "OTHER" THEN heard_ago ELSE 0
      /\ UNCHANGED <<now, last_rx_time, host_pc, since_loop>>
  BY DEF Arrive, ctlVars
<1>2. SignOfLife' <=> SignOfLife \/ kind # "OTHER"
  <2>1. /\ Len(inbox) \in Nat /\ DOMAIN inbox = 1 .. Len(inbox)
        /\ DOMAIN inbox' = 1 .. Len(inbox) + 1
        /\ \A i \in 1 .. Len(inbox) : inbox'[i] = inbox[i]
        /\ inbox'[Len(inbox) + 1] = kind
    BY <1>1, HeardTypes, AppendProperties, LenProperties
  <2>2. \A n \in Nat : 1 .. n + 1 = 1 .. n \cup {n + 1}
    OBVIOUS
  <2>. QED
    BY <2>1, <2>2 DEF SignOfLife
<1>3. /\ MaxStall \in Nat /\ now \in Nat /\ since_loop \in 0 .. MaxStall
      /\ last_rx_time \in Nat \cup {Never} /\ Never \notin Nat
  BY HeardTypes
<1>. QED
  BY <1>1, <1>2, <1>3 DEF HeardInv, WaitBound, ReadDelay, LongAgo

(* poll() dates what waited, and leaves nothing.                           *)
LEMMA HeardReceive ==
  ASSUME ReportInv, TypeInv, HeardInv, Receive PROVE HeardInv'
<1>1. /\ host_pc = "poll" /\ host_pc' = "top" /\ inbox' = <<>>
      /\ last_rx_time' = IF SignOfLife THEN now ELSE last_rx_time
      /\ UNCHANGED <<now, since_loop, heard_ago>>
  BY DEF Receive, Poll, ctlVars
<1>2. ~SignOfLife'
  BY <1>1 DEF SignOfLife
<1>3. /\ MaxStall \in Nat /\ now \in Nat /\ since_loop \in 0 .. MaxStall
      /\ heard_ago \in 0 .. LongAgo /\ LongAgo \in Nat /\ Never \notin Nat
  BY HeardTypes
<1>4. CASE SignOfLife
  <2>1. heard_ago <= 2 * MaxStall /\ last_rx_time' = now /\ now # Never
    BY <1>1, <1>3, <1>4 DEF HeardInv, WaitBound
  <2>. QED
    BY <1>1, <1>2, <1>3, <2>1 DEF HeardInv, ReadDelay, LongAgo
<1>5. CASE ~SignOfLife
  BY <1>1, <1>2, <1>3, <1>5 DEF HeardInv, ReadDelay, LongAgo
<1>. QED
  BY <1>4, <1>5

LEMMA HeardInvariant == ASSUME ClockIsTicked PROVE Spec => []HeardInv
<1>1. Init => HeardInv
  <2> SUFFICES ASSUME Init PROVE HeardInv
    OBVIOUS
  <2>1. last_rx_time = Never /\ host_pc = "off"
    BY DEF Init, HostOff
  <2>. QED
    BY <2>1 DEF HeardInv
<1>2. ReportInv /\ TypeInv /\ HeardInv /\ [Next]_vars => HeardInv'
  <2> SUFFICES ASSUME ReportInv, TypeInv, HeardInv, [Next]_vars PROVE HeardInv'
    OBVIOUS
  <2>1. CASE UNCHANGED vars \/ BaseStation \/ Deliver \/ Lose \/ Ended
    <3>1. UNCHANGED <<last_rx_time, inbox, host_pc, since_loop, heard_ago>>
      BY <2>1 DEF vars, hostVars, BaseStation, Deliver, Lose, Ended
    <3>2. now' = now
      <4>1. CASE Deliver
        BY <4>1, DeliverAccepts
      <4>2. CASE ~Deliver
        BY <2>1, <4>2 DEF vars, BaseStation, Lose, Ended, ctlVars
      <4>. QED
        BY <4>1, <4>2
    <3>3. SignOfLife' = SignOfLife
      BY <3>1 DEF SignOfLife
    <3>. QED
      BY <3>1, <3>2, <3>3, Zenon DEF HeardInv, WaitBound, ReadDelay, LongAgo
  <2>2. CASE Send
    <3>1. /\ host_pc = "send" /\ host_pc' = "poll"
          /\ UNCHANGED <<now, last_rx_time, inbox, since_loop, heard_ago>>
      BY <2>2 DEF Send, SendControl, ctlVars
    <3>2. SignOfLife' = SignOfLife
      BY <3>1 DEF SignOfLife
    <3>. QED
      BY <3>1, <3>2 DEF HeardInv, WaitBound, ReadDelay, LongAgo
  <2>. QED
    BY <2>1, <2>2, HeardTick, HeardStartStop, HeardLoop, HeardArrive,
       HeardReceive DEF Next
<1>. QED
  BY <1>1, <1>2, ReportInvariant, TypeInvariant, PTL DEF Spec

(* link_up makes the link look younger by two passes of the loop at most,  *)
(* whatever the frames, and whenever the program starts or ends.           *)
THEOREM LinkUpIsTrusted == ASSUME ClockIsTicked PROVE Spec => []LinkUpIsRecent
<1>1. ReportInv /\ TypeInv /\ HeardInv => LinkUpIsRecent
  BY HeardTypes, HostAssumption DEF HeardInv, LinkUp, LinkUpIsRecent, ReadDelay
<1>. QED
  BY <1>1, ReportInvariant, TypeInvariant, HeardInvariant, PTL

(* It does not call a link down on which telemetry keeps coming, in a run  *)
(* longer than the link's timeout: what was heard is not told apart beyond *)
(* the length of the run.                                                  *)
THEOREM LinkDownIsTrusted ==
  ASSUME ClockIsTicked, LinkTimeout <= MaxTime
  PROVE  Spec => []LinkDownIsSilence
<1>1. ReportInv /\ TypeInv /\ HeardInv => LinkDownIsSilence
  <2> SUFFICES ASSUME ReportInv, TypeInv, HeardInv, host_pc # "off",
                      heard_ago > ReadDelay, heard_ago < LinkTimeout
               PROVE  LinkUp
    BY DEF LinkDownIsSilence
  <2>1. /\ MaxStall \in Nat /\ since_loop \in 0 .. MaxStall
        /\ heard_ago \in Nat /\ MaxTime \in Nat /\ LinkTimeout \in Nat
        /\ now \in Nat /\ last_rx_time \in Nat \cup {Never}
    BY HeardTypes, PathMagnitudes, HostAssumption
  <2>2. heard_ago < LongAgo
    BY <2>1 DEF LongAgo
  <2>3. ~SignOfLife
    BY <2>1 DEF HeardInv, WaitBound, ReadDelay
  <2>. QED
    BY <2>1, <2>2, <2>3 DEF HeardInv, LinkUp
<1>. QED
  BY <1>1, ReportInvariant, TypeInvariant, HeardInvariant, PTL

(***************************************************************************)
(* The frames on the bus, one by one                                       *)
(***************************************************************************)

LEMMA WireHolds ==
  ASSUME ReportInv
  PROVE  /\ Len(wire) \in Nat /\ DOMAIN wire = 1 .. Len(wire)
         /\ \A i \in 1 .. Len(wire) :
              /\ wire[i].frame \in Reports
              /\ wire[i].age \in Nat /\ wire[i].age <= MaxTransit
<1>1. wire \in Seq(Item)
  BY DEF ReportInv, PathTypeOK
<1>2. Len(wire) \in Nat /\ DOMAIN wire = 1 .. Len(wire)
      /\ \A i \in 1 .. Len(wire) : wire[i] \in Item
  BY <1>1, LenProperties, ElementOfSeq
<1>. QED
  BY <1>2, PathMagnitudes DEF Item

LEMMA WireTicks ==
  ASSUME ReportInv, Tick
  PROVE  /\ Len(wire') = Len(wire)
         /\ \A i \in 1 .. Len(wire) :
              wire'[i].frame = wire[i].frame /\ wire'[i].age = wire[i].age + 1
<1>1. /\ wire \in Seq(Item) /\ DOMAIN wire = 1 .. Len(wire) /\ Len(wire) \in Nat
      /\ \A i \in 1 .. Len(wire) : wire[i] \in Item
  BY LenProperties, ElementOfSeq DEF ReportInv, PathTypeOK
<1>2. /\ DOMAIN wire' = 1 .. Len(wire)
      /\ \A i \in 1 .. Len(wire) : wire'[i] = [wire[i] EXCEPT !.age = @ + 1]
  BY <1>1 DEF Tick
<1>3. \A i \in 1 .. Len(wire) :
        wire'[i].frame = wire[i].frame /\ wire'[i].age = wire[i].age + 1
  BY <1>1, <1>2 DEF Item
<1>4. wire' \in Seq(Item)
  <2>1. ReportInv'
    BY ReportTick
  <2>. QED
    BY <2>1 DEF ReportInv, PathTypeOK
<1>. QED
  BY <1>1, <1>2, <1>3, <1>4, LenProperties

LEMMA WireGrows ==
  ASSUME ReportInv, Send
  PROVE  /\ Len(wire') = Len(wire) + 1
         /\ \A i \in 1 .. Len(wire) : wire'[i] = wire[i]
         /\ wire'[Len(wire) + 1].age = 0
         /\ wire'[Len(wire) + 1].frame.seq = tx_seq'
         /\ wire'[Len(wire) + 1].frame.msg.c2_lost = C2Lost
<1> DEFINE lost == C2Lost
           item == [frame |-> ControlFrame(ManualCommand(lost), tx_seq'), age |-> 0]
<1>1. wire' = Append(wire, item)
  BY DEF Send
<1>2. item.age = 0 /\ item.frame.seq = tx_seq' /\ item.frame.msg.c2_lost = lost
  BY Zenon DEF ControlFrame, ManualCommand
<1> HIDE DEF item, lost
<1>3. wire \in Seq(Item \cup {item}) /\ Len(wire) \in Nat
  BY SeqOfLarger, LenProperties DEF ReportInv, PathTypeOK
<1>4. /\ Len(wire') = Len(wire) + 1 /\ wire'[Len(wire) + 1] = item
      /\ \A i \in 1 .. Len(wire) : wire'[i] = wire[i]
  BY <1>1, <1>3, AppendProperties
<1>. QED
  BY <1>2, <1>4 DEF lost

LEMMA WireShrinks ==
  ASSUME ReportInv, Deliver \/ Lose
  PROVE  /\ Len(wire) > 0 /\ Len(wire') = Len(wire) - 1
         /\ \A i \in 1 .. Len(wire) - 1 : wire'[i] = wire[i + 1]
<1>1. wire \in Seq(Item) /\ wire # <<>> /\ wire' = Tail(wire) /\ Len(wire) \in Nat
  BY LenProperties DEF Deliver, Lose, ReportInv, PathTypeOK
<1>2. /\ Len(Tail(wire)) = Len(wire) - 1
      /\ \A i \in 1 .. Len(Tail(wire)) : Tail(wire)[i] = wire[i + 1]
  BY <1>1, HeadTailProperties
<1>3. Len(wire) # 0
  BY <1>1
<1>. QED
  BY <1>1, <1>2, <1>3

(* The other actions leave the bus, the controller and its losses alone.   *)
LEMMA PathStays ==
  ASSUME [Next]_vars, ~Tick, ~Send, ~Deliver, ~Lose
  PROVE  UNCHANGED <<now, wire, lost_run, lost_total, have_control_,
                     last_control_ms_, have_seq_, last_seq_, counters>>
BY DEF Next, Start, Stop, BaseStation, Loop, Receive, Arrive, Ended, vars,
   ctlVars, controllerVars, commandVars, linkVars, lossVars

(***************************************************************************)
(* Recovery                                                                *)
(***************************************************************************)

(* A report of a lost base station that is still on its way was sent       *)
(* before the base station came back.                                      *)
NoStaleVerdict ==
  connected =>
    \A i \in DOMAIN wire :
      wire[i].frame.msg.c2_lost => c2_since <= wire[i].age

LEMMA VerdictSend ==
  ASSUME ReportInv, NoStaleVerdict, Send PROVE NoStaleVerdict'
<1>1. connected' = connected /\ c2_since' = c2_since
  BY DEF Send, SendControl
<1>2. SUFFICES ASSUME connected, NEW i \in DOMAIN wire',
                      wire'[i].frame.msg.c2_lost
               PROVE  c2_since <= wire'[i].age
  BY <1>1 DEF NoStaleVerdict
<1>3. ~C2Lost
  <2>1. have_connection' /\ last_C2_time_s' = loop_now
    BY <1>2 DEF Send, SendControl
  <2>2. loop_now \in Int /\ C2Timeout \in Int /\ C2Timeout > 0
    BY PathMagnitudes DEF ReportInv, PathTypeOK
  <2>3. ~(loop_now - last_C2_time_s' >= C2Timeout)
    BY <2>1, <2>2
  <2>. QED
    BY <2>1, <2>3, Zenon DEF C2Lost, NoConnection
<1>4. i \in 1 .. Len(wire) /\ wire'[i] = wire[i] /\ i \in DOMAIN wire
  <2>1. wire' \in Seq(Item)
    BY ReportSend DEF ReportInv, PathTypeOK
  <2>2. i \in 1 .. Len(wire) + 1 /\ Len(wire) \in Nat /\ DOMAIN wire = 1 .. Len(wire)
    BY <2>1, WireGrows, WireHolds, LenProperties
  <2>3. i # Len(wire) + 1
    BY <1>2, <1>3, WireGrows
  <2>4. i \in 1 .. Len(wire)
    BY <2>2, <2>3
  <2>. QED
    BY <2>2, <2>4, WireGrows
<1>. QED
  BY <1>2, <1>4 DEF NoStaleVerdict

LEMMA VerdictInvariant == ASSUME ClockIsTicked PROVE Spec => []NoStaleVerdict
<1>1. Init => NoStaleVerdict
  BY DEF Init, HostOff, NoStaleVerdict
<1>2. ReportInv /\ ReportInv' /\ TypeInv /\ NoStaleVerdict /\ [Next]_vars
        => NoStaleVerdict'
  <2> SUFFICES ASSUME ReportInv, ReportInv', TypeInv, NoStaleVerdict, [Next]_vars
               PROVE  NoStaleVerdict'
    OBVIOUS
  <2> USE PathMagnitudes
  <2>1. CASE Tick
    <3>1. connected' = connected /\ c2_since \in Nat /\ c2_since' <= c2_since + 1
      <4>1. c2_since \in Nat
        BY DEF ReportInv, PathTypeOK
      <4>. QED
        BY <2>1, <4>1 DEF Tick, OneMore, LongAgo, hostVars
    <3>2. DOMAIN wire' = DOMAIN wire
      BY <2>1 DEF Tick
    <3>3. c2_since' \in Nat
      BY DEF ReportInv, PathTypeOK
    <3>. QED
      BY <2>1, <3>1, <3>2, <3>3, WireTicks, WireHolds DEF NoStaleVerdict
  <2>2. CASE Send
    BY <2>2, VerdictSend
  <2>3. CASE Deliver \/ Lose
    <3>1. UNCHANGED <<connected, c2_since>>
      BY <2>3 DEF Deliver, Lose, hostVars
    <3>2. wire' \in Seq(Item)
      BY DEF ReportInv, PathTypeOK
    <3>3. \A i \in DOMAIN wire' : i + 1 \in DOMAIN wire /\ wire'[i] = wire[i + 1]
      <4>1. /\ DOMAIN wire' = 1 .. Len(wire') /\ DOMAIN wire = 1 .. Len(wire)
            /\ Len(wire) \in Nat
        BY <3>2, LenProperties, WireHolds
      <4>2. /\ Len(wire') = Len(wire) - 1
            /\ \A i \in 1 .. Len(wire) - 1 : wire'[i] = wire[i + 1]
        BY <2>3, WireShrinks
      <4>3. \A n \in Nat : \A i \in 1 .. n - 1 : i + 1 \in 1 .. n
        OBVIOUS
      <4>. QED
        BY <4>1, <4>2, <4>3
    <3>. QED
      BY <3>1, <3>3 DEF NoStaleVerdict
  <2>4. CASE BaseStation
    <3>1. c2_since' = 0 /\ wire' = wire
      BY <2>4 DEF BaseStation
    <3>. QED
      BY <3>1, WireHolds DEF NoStaleVerdict
  <2>5. CASE ~Tick /\ ~Send /\ ~Deliver /\ ~Lose /\ ~BaseStation
    <3>1. UNCHANGED <<connected, c2_since>>
      BY <2>5 DEF Next, Start, HostStart, Stop, HostStop, Loop, LoopTop, Receive,
         Poll, Arrive, Ended, vars, hostVars
    <3>. QED
      BY <2>5, <3>1, PathStays DEF NoStaleVerdict
  <2>. QED
    BY <2>1, <2>2, <2>3, <2>4, <2>5
<1>. QED
  BY <1>1, <1>2, ReportInvariant, TypeInvariant, PTL DEF Spec

(* A base station that is back for longer than a frame is on its way is    *)
(* believed, and the rover drives, with the first frame that arrives.      *)
THEOREM BaseStationIsBelieved == ASSUME ClockIsTicked PROVE Spec => ReviveOnReturn
<1>1. ReportInv /\ NoStaleVerdict /\ [Next]_vars
        => [ Deliver /\ connected /\ c2_since > MaxTransit
             => CommandedOutputs(now)' # ZeroCmd /\ C2LinkState(now)' = "OK" ]_vars
  <2> SUFFICES ASSUME ReportInv, NoStaleVerdict, Deliver, connected,
                      c2_since > MaxTransit
               PROVE  CommandedOutputs(now)' # ZeroCmd /\ C2LinkState(now)' = "OK"
    OBVIOUS
  <2>1. /\ 1 \in DOMAIN wire /\ Accept(wire[1].frame, 0) /\ now' = now
        /\ wire[1].frame \in Reports
        /\ wire[1].age \in Nat /\ wire[1].age <= MaxTransit
    BY DeliverAccepts DEF Item
  <2>2. ~wire[1].frame.msg.c2_lost
    <3>1. c2_since \in Nat /\ MaxTransit \in Nat
      BY PathMagnitudes DEF ReportInv, PathTypeOK
    <3>. QED
      BY <2>1, <3>1 DEF NoStaleVerdict
  <2>3. wire[1].frame.msg = ManualCommand(FALSE)
    <3>1. wire[1].frame.msg.c2_lost \in BOOLEAN
          /\ wire[1].frame.msg = ManualCommand(wire[1].frame.msg.c2_lost)
      BY <2>1, ReportSays
    <3>2. wire[1].frame.msg.c2_lost = FALSE
      BY <2>2, <3>1
    <3>. QED
      BY <3>1, <3>2
  <2>4. /\ last_control_' = ManualCommand(FALSE) /\ have_control_' = TRUE
        /\ last_control_ms_' = now'
    BY <2>1, <2>3 DEF Accept
  <2>5. ~WatchdogTripped(now)'
    <3>1. Elapsed(now', last_control_ms_') = 0
      BY <2>1, <2>4, PathMagnitudes DEF ReportInv, PathTypeOK, Elapsed
    <3>. QED
      BY <2>4, <3>1, PathMagnitudes DEF WatchdogTripped
  <2>6. /\ ManualCommand(FALSE).mode = "MANUAL" /\ ManualCommand(FALSE).stop = FALSE
        /\ ManualCommand(FALSE).autonomy_abort = FALSE
        /\ ManualCommand(FALSE).c2_lost = FALSE
    BY DEF ManualCommand
  <2>7. ~EffectiveStop(now)'
    BY <2>4, <2>5, <2>6 DEF EffectiveStop, Permits, ModePermitsMotion
  <2>. QED
    BY <2>4, <2>5, <2>6, <2>7, ManualCommandIsTyped
       DEF CommandedOutputs, C2LinkState
<1>. QED
  BY <1>1, ReportInvariant, VerdictInvariant, PTL DEF Spec, ReviveOnReturn

(***************************************************************************)
(* Sequence numbers                                                        *)
(***************************************************************************)

(* The number after n, and the one k further on, for k up to SeqMod.       *)
Follows(n) == IF n = SeqMod - 1 THEN 0 ELSE n + 1
After(n, k) == IF n + k < SeqMod THEN n + k ELSE n + k - SeqMod

(* The number of the i-th frame on the bus; the last one is still to be    *)
(* sent.                                                                   *)
Upcoming(i) == IF i > Len(wire) THEN Follows(tx_seq) ELSE wire[i].frame.seq

(* While one program runs its numbers follow each other on the bus, and    *)
(* the first is as far from the last accepted as frames were lost between. *)
NumbersFollow ==
  stops = 0 =>
    /\ host_pc = "off" => wire = <<>> /\ ~have_control_
    /\ \A i \in 1 .. Len(wire) : Upcoming(i + 1) = Follows(Upcoming(i))
    /\ have_control_ /\ lost_run < SeqMod =>
         Upcoming(1) = After(last_seq_, lost_run + 1)
NumbersInv == have_seq_ = have_control_ /\ NumbersFollow

LEMMA NumberTypes ==
  ASSUME ReportInv, TypeInv
  PROVE  /\ SeqMod \in Nat /\ SeqMod > 0 /\ TxSeqMod = SeqMod
         /\ tx_seq \in 0 .. SeqMod - 1 /\ last_seq_ \in 0 .. SeqMod - 1
         /\ lost_run \in 0 .. MaxLost /\ MaxLost \in Nat
         /\ stops \in Nat
         /\ \A i \in 1 .. Len(wire) : wire[i].frame.seq \in 0 .. SeqMod - 1
<1>1. TxSeqMod = SeqMod /\ SeqMod \in Nat /\ SeqMod > 0 /\ MaxLost \in Nat
      /\ MaxStops \in Nat
  BY RoverLinkAssumption, ControllerAssumption
<1>2. \A i \in 1 .. Len(wire) : wire[i].frame.seq \in 0 .. SeqMod - 1
  BY <1>1, WireHolds, ReportSays
<1>. QED
  BY <1>1, <1>2 DEF ReportInv, PathTypeOK, TypeInv, TypeOK, ControllerTypeOK

(* 8-bit counting: one more, and how far apart two numbers are.            *)
LEMMA NumberCounts ==
  ASSUME SeqMod \in Nat, SeqMod > 0, NEW n \in 0 .. SeqMod - 1
  PROVE  /\ Follows(n) \in 0 .. SeqMod - 1
         /\ (n + 1) % SeqMod = Follows(n)
         /\ After(n, 1) = Follows(n)
         /\ \A k \in Nat : k < SeqMod =>
              /\ After(n, k) \in 0 .. SeqMod - 1
              /\ After(n, k + 1) = Follows(After(n, k))
              /\ SeqDelta(n, After(n, k)) = k
<1>1. (n + 1) % SeqMod = Follows(n)
  <2>1. CASE n = SeqMod - 1
    BY <2>1 DEF Follows
  <2>2. CASE n < SeqMod - 1
    BY <2>2 DEF Follows
  <2>. QED
    BY <2>1, <2>2
<1>. QED
  BY <1>1 DEF Follows, After, SeqDelta

(* The bus takes the next number at its end ...                            *)
LEMMA NumbersSend ==
  ASSUME ReportInv, TypeInv, NumbersInv, Send PROVE NumbersInv'
<1>1. /\ UNCHANGED <<have_seq_, have_control_, last_seq_, lost_run, stops>>
      /\ host_pc = "send" /\ host_pc' = "poll" /\ tx_seq' = (tx_seq + 1) % TxSeqMod
  BY DEF Send, SendControl, NextTxSeq, ctlVars, controllerVars, commandVars,
     linkVars, lossVars, boundVars
<1>2. tx_seq' = Follows(tx_seq)
  BY <1>1, NumberTypes, NumberCounts
<1>3. PICK n \in Nat : Len(wire) = n /\ Len(wire') = n + 1
  BY WireGrows, WireHolds
<1>4. \A i \in 1 .. n + 1 : Upcoming(i)' = Upcoming(i)
  <2> SUFFICES ASSUME NEW i \in 1 .. n + 1 PROVE Upcoming(i)' = Upcoming(i)
    OBVIOUS
  <2>1. CASE i \in 1 .. n
    BY <1>3, <2>1, WireGrows DEF Upcoming
  <2>2. CASE i = n + 1
    BY <1>2, <1>3, <2>2, WireGrows DEF Upcoming
  <2>. QED
    BY <2>1, <2>2
<1>5. Upcoming(n + 2)' = Follows(tx_seq')
  BY <1>3 DEF Upcoming
<1>6. Upcoming(n + 1)' = tx_seq'
  <2>1. n + 1 \in 1 .. n + 1 /\ Upcoming(n + 1) = Follows(tx_seq)
    BY <1>3 DEF Upcoming
  <2>. QED
    BY <1>2, <1>4, <2>1
<1>7. ASSUME stops = 0, NEW i \in 1 .. n + 1
      PROVE  Upcoming(i + 1)' = Follows(Upcoming(i)')
  <2>1. CASE i \in 1 .. n
    <3>1. i \in 1 .. n + 1 /\ i + 1 \in 1 .. n + 1
      BY <2>1
    <3>2. Upcoming(i + 1) = Follows(Upcoming(i))
      BY <1>3, <1>7, <2>1 DEF NumbersInv, NumbersFollow
    <3>. QED
      BY <1>4, <3>1, <3>2
  <2>2. CASE i = n + 1
    <3>1. i + 1 = n + 2
      BY <2>2
    <3>. QED
      BY <1>5, <1>6, <2>2, <3>1
  <2>. QED
    BY <1>7, <2>1, <2>2
<1>8. Upcoming(1)' = Upcoming(1)
  BY <1>3, <1>4
<1>. QED
  BY <1>1, <1>3, <1>7, <1>8 DEF NumbersInv, NumbersFollow

(* ... and gives the first away.                                           *)
LEMMA NumbersShrink ==
  ASSUME ReportInv, TypeInv, NumbersInv, Deliver \/ Lose, stops = 0
  PROVE  /\ \A i \in 1 .. Len(wire') : Upcoming(i + 1)' = Follows(Upcoming(i)')
         /\ Upcoming(1)' = Follows(Upcoming(1))
         /\ Upcoming(1) = wire[1].frame.seq
         /\ host_pc # "off"
<1>1. /\ Len(wire) > 0 /\ Len(wire) \in Nat /\ Len(wire') = Len(wire) - 1
      /\ \A i \in 1 .. Len(wire) - 1 : wire'[i] = wire[i + 1]
      /\ tx_seq' = tx_seq
  BY WireShrinks, WireHolds DEF Deliver, Lose, hostVars, senderVars
<1>2. \A i \in 1 .. Len(wire) : Upcoming(i)' = Upcoming(i + 1)
  <2> SUFFICES ASSUME NEW i \in 1 .. Len(wire) PROVE Upcoming(i)' = Upcoming(i + 1)
    OBVIOUS
  <2>1. CASE i \in 1 .. Len(wire) - 1
    BY <1>1, <2>1 DEF Upcoming
  <2>2. CASE i = Len(wire)
    BY <1>1, <2>2 DEF Upcoming, Follows
  <2>. QED
    BY <1>1, <2>1, <2>2
<1>3. \A i \in 1 .. Len(wire) : Upcoming(i + 1) = Follows(Upcoming(i))
  BY DEF NumbersInv, NumbersFollow
<1>4. ASSUME NEW i \in 1 .. Len(wire')
      PROVE  Upcoming(i + 1)' = Follows(Upcoming(i)')
  <2>1. i \in 1 .. Len(wire) /\ i + 1 \in 1 .. Len(wire)
    BY <1>1, <1>4
  <2>. QED
    BY <1>2, <1>3, <2>1
<1>5. 1 \in 1 .. Len(wire) /\ Upcoming(1) = wire[1].frame.seq
  BY <1>1 DEF Upcoming
<1>6. host_pc # "off"
  <2>1. wire # <<>>
    BY <1>1
  <2>. QED
    BY <2>1 DEF NumbersInv, NumbersFollow
<1>. QED
  BY <1>2, <1>3, <1>4, <1>5, <1>6

LEMMA NumbersLose ==
  ASSUME ReportInv, TypeInv, NumbersInv, Lose PROVE NumbersInv'
<1>1. /\ UNCHANGED <<have_seq_, have_control_, last_seq_, stops, host_pc>>
      /\ lost_run' = lost_run + 1
  BY DEF Lose, ctlVars, controllerVars, commandVars, linkVars, boundVars, hostVars
<1>2. ASSUME stops = 0, have_control_, lost_run + 1 < SeqMod
      PROVE  Upcoming(1)' = After(last_seq_, lost_run + 2)
  <2>1. /\ SeqMod \in Nat /\ SeqMod > 0 /\ last_seq_ \in 0 .. SeqMod - 1
        /\ lost_run \in Nat
    BY NumberTypes
  <2>2. Upcoming(1) = After(last_seq_, lost_run + 1)
    BY <1>2, <2>1 DEF NumbersInv, NumbersFollow
  <2>3. After(last_seq_, (lost_run + 1) + 1) = Follows(After(last_seq_, lost_run + 1))
    BY <1>2, <2>1, NumberCounts
  <2>4. (lost_run + 1) + 1 = lost_run + 2
    BY <2>1
  <2>. QED
    BY <1>2, <2>2, <2>3, <2>4, NumbersShrink
<1>3. lost_run' + 1 = lost_run + 2
  BY <1>1, NumberTypes
<1>. QED
  BY <1>1, <1>2, <1>3, NumbersShrink DEF NumbersInv, NumbersFollow

LEMMA NumbersDeliver ==
  ASSUME ClockIsTicked, ReportInv, TypeInv, NumbersInv, Deliver
  PROVE  NumbersInv'
<1>1. /\ have_seq_' = TRUE /\ have_control_' = TRUE /\ lost_run' = 0
      /\ last_seq_' = wire[1].frame.seq /\ UNCHANGED <<stops, host_pc>>
  BY DeliverAccepts DEF Accept, Deliver, boundVars, hostVars
<1>2. ASSUME stops = 0 PROVE Upcoming(1)' = After(last_seq_', 0 + 1)
  <2>1. wire[1].frame.seq \in 0 .. SeqMod - 1 /\ SeqMod \in Nat /\ SeqMod > 0
    <3>1. 1 \in 1 .. Len(wire)
      BY WireShrinks, WireHolds
    <3>. QED
      BY <3>1, NumberTypes
  <2>2. Upcoming(1)' = Follows(last_seq_')
    BY <1>1, <1>2, NumbersShrink
  <2>3. After(last_seq_', 1) = Follows(last_seq_')
    BY <1>1, <2>1, NumberCounts
  <2>. QED
    BY <2>2, <2>3
<1>. QED
  BY <1>1, <1>2, NumbersShrink DEF NumbersInv, NumbersFollow

LEMMA NumbersInvariant == ASSUME ClockIsTicked PROVE Spec => []NumbersInv
<1>1. Init => NumbersInv
  <2> SUFFICES ASSUME Init PROVE NumbersInv
    OBVIOUS
  <2>1. /\ wire = <<>> /\ Len(wire) = 0 /\ have_seq_ = FALSE /\ have_control_ = FALSE
    BY EmptySeq DEF Init, BootController
  <2>2. 1 .. Len(wire) = {}
    BY <2>1
  <2>3. ~have_control_ /\ have_seq_ = have_control_
    BY <2>1, Zenon
  <2>. QED
    BY <2>1, <2>2, <2>3, Zenon DEF NumbersInv, NumbersFollow
<1>2. ReportInv /\ TypeInv /\ NumbersInv /\ [Next]_vars => NumbersInv'
  <2> SUFFICES ASSUME ReportInv, TypeInv, NumbersInv, [Next]_vars PROVE NumbersInv'
    OBVIOUS
  <2>1. CASE Tick
    <3>1. UNCHANGED <<have_seq_, have_control_, last_seq_, lost_run, stops,
                      host_pc, tx_seq>>
      BY <2>1 DEF Tick, controllerVars, commandVars, linkVars, lossVars,
         boundVars, hostVars, senderVars
    <3>2. Len(wire') = Len(wire) /\ Len(wire) \in Nat
          /\ \A i \in 1 .. Len(wire) : wire'[i].frame.seq = wire[i].frame.seq
      BY <2>1, WireTicks, WireHolds
    <3>3. \A i \in 1 .. Len(wire) + 1 : Upcoming(i)' = Upcoming(i)
      BY <3>1, <3>2 DEF Upcoming, Follows
    <3>4. \A i \in 1 .. Len(wire) :
            i \in 1 .. Len(wire) + 1 /\ i + 1 \in 1 .. Len(wire) + 1
      BY <3>2
    <3>5. 1 \in 1 .. Len(wire) + 1
      BY <3>2
    <3>6. wire = <<>> => wire' = <<>>
      BY <2>1 DEF Tick
    <3>. QED
      BY <3>1, <3>2, <3>3, <3>4, <3>5, <3>6 DEF NumbersInv, NumbersFollow
  <2>2. CASE Start
    <3>1. /\ UNCHANGED <<have_seq_, have_control_, last_seq_, lost_run, stops, wire>>
          /\ host_pc = "off"
      BY <2>2 DEF Start, HostStart, ctlVars, controllerVars, commandVars,
         linkVars, lossVars, boundVars
    <3>2. wire = <<>> => Len(wire) = 0
      OBVIOUS
    <3>. QED
      BY <3>1, <3>2 DEF NumbersInv, NumbersFollow
  <2>3. CASE Stop
    <3>1. have_seq_' = have_seq_ /\ have_control_' = have_control_ /\ stops' # 0
      BY <2>3, NumberTypes DEF Stop, ctlVars, controllerVars, commandVars, linkVars
    <3>. QED
      BY <3>1 DEF NumbersInv, NumbersFollow
  <2>4. CASE ~Tick /\ ~Send /\ ~Deliver /\ ~Lose /\ ~Start /\ ~Stop
    <3>1. /\ UNCHANGED <<stops, tx_seq>>
          /\ host_pc' = "off" => host_pc = "off"
      BY <2>4 DEF Next, Loop, LoopTop, BaseStation, Receive, Poll, Arrive, Ended,
         vars, hostVars, senderVars, boundVars
    <3>2. UNCHANGED <<wire, lost_run, have_control_, have_seq_, last_seq_>>
      BY <2>4, PathStays
    <3>. QED
      BY <3>1, <3>2 DEF NumbersInv, NumbersFollow, Upcoming, Follows, After
  <2>. QED
    BY <2>1, <2>2, <2>3, <2>4, NumbersSend, NumbersLose, NumbersDeliver
<1>. QED
  BY <1>1, <1>2, ReportInvariant, TypeInvariant, PTL DEF Spec

(* The distance of two numbers tells how many frames were lost between     *)
(* them, up to a turn of the sequence number.                              *)
LEMMA DistanceIsLoss ==
  ASSUME ReportInv, TypeInv, NumbersInv, Deliver, stops = 0, have_control_,
         lost_run < SeqMod
  PROVE  /\ SeqDelta(last_seq_, wire[1].frame.seq) \in Nat
         /\ lost_run + 1 < SeqMod =>
              SeqDelta(last_seq_, wire[1].frame.seq) = lost_run + 1
         /\ lost_run > 0 => SeqDelta(last_seq_, wire[1].frame.seq) # 1
<1>1. /\ SeqMod \in Nat /\ SeqMod > 0 /\ last_seq_ \in 0 .. SeqMod - 1
      /\ lost_run \in Nat
  BY NumberTypes
<1>2. wire[1].frame.seq = After(last_seq_, lost_run + 1)
  BY <1>1, NumbersShrink DEF NumbersInv, NumbersFollow
<1>3. CASE lost_run + 1 < SeqMod
  <2>1. SeqDelta(last_seq_, wire[1].frame.seq) = lost_run + 1
    BY <1>1, <1>2, <1>3, NumberCounts
  <2>. QED
    BY <1>1, <2>1
<1>4. CASE lost_run + 1 = SeqMod
  <2>1. wire[1].frame.seq = last_seq_
    BY <1>1, <1>2, <1>4 DEF After
  <2>. QED
    BY <1>1, <1>4, <2>1 DEF SeqDelta
<1>. QED
  BY <1>1, <1>3, <1>4

(* A remainder may be taken before or after adding.                        *)
LEMMA RemainderIsUnique ==
  ASSUME NEW m \in Nat, m > 0, NEW q \in Int, NEW r \in Int, 0 <= r, r < m,
         NEW p \in Int, NEW t \in Int, 0 <= t, t < m, m * q + r = m * p + t
  PROVE  r = t
<1>1. m * (q - p) = t - r
  OBVIOUS
<1>2. CASE q - p >= 1
  <2>1. m * (q - p) >= m
    BY <1>2
  <2>. QED
    BY <1>1, <2>1
<1>3. CASE p - q >= 1
  <2>1. m * (p - q) >= m
    BY <1>3
  <2>2. m * (p - q) = r - t
    OBVIOUS
  <2>. QED
    BY <2>1, <2>2
<1>4. CASE p = q
  BY <1>1, <1>4
<1>. QED
  BY <1>2, <1>3, <1>4

LEMMA RemainderAdds ==
  ASSUME NEW m \in Nat, m > 0, NEW a \in Nat, NEW b \in Nat
  PROVE  ((a % m) + b) % m = (a + b) % m
<1>1. \A x \in Nat : \E q \in Int : x = m * q + (x % m) /\ x % m \in 0 .. m - 1
  <2> SUFFICES ASSUME NEW x \in Nat
               PROVE  \E q \in Int : x = m * q + (x % m) /\ x % m \in 0 .. m - 1
    OBVIOUS
  <2>1. x = m * (x \div m) + (x % m) /\ x % m \in 0 .. m - 1 /\ x \div m \in Int
    OBVIOUS
  <2>. QED
    BY <2>1
<1>2. PICK q \in Int : a = m * q + (a % m) /\ a % m \in 0 .. m - 1
  BY <1>1
<1> DEFINE c == a % m
<1>3. c \in Nat /\ a = m * q + c
  BY <1>2
<1> HIDE DEF c
<1>4. PICK p \in Int : c + b = m * p + ((c + b) % m) /\ (c + b) % m \in 0 .. m - 1
  BY <1>1, <1>3
<1>5. PICK s \in Int : a + b = m * s + ((a + b) % m) /\ (a + b) % m \in 0 .. m - 1
  BY <1>1
<1> DEFINE r == (c + b) % m
           t == (a + b) % m
<1>6. r \in 0 .. m - 1 /\ t \in 0 .. m - 1 /\ c + b = m * p + r /\ a + b = m * s + t
  BY <1>4, <1>5
<1> HIDE DEF r, t
<1>7. m * (p + q) + r = m * s + t
  <2>1. m * (p + q) = m * p + m * q
    OBVIOUS
  <2>. QED
    BY <1>3, <1>6, <2>1
<1>8. r = t
  <2>1. /\ p + q \in Int /\ s \in Int /\ r \in Int /\ t \in Int
        /\ 0 <= r /\ r < m /\ 0 <= t /\ t < m
    BY <1>6
  <2>. QED
    BY <1>7, <2>1, RemainderIsUnique, Zenon
<1>. QED
  BY <1>8 DEF r, t, c

(* frames_lost_estimate_ takes over exactly what was lost.                 *)
LEMMA LossDeliver ==
  ASSUME ClockIsTicked, MaxLost + 1 < SeqMod, ReportInv, TypeInv, NumbersInv,
         LossIsCounted, Deliver
  PROVE  LossIsCounted'
<1> SUFFICES ASSUME stops = 0 PROVE counters'.lost = lost_total' % CounterMod
  BY DEF LossIsCounted, Deliver, boundVars
<1> DEFINE f == wire[1].frame
<1>1. /\ lost_run \in 0 .. MaxLost /\ MaxLost \in Nat /\ SeqMod \in Nat
      /\ lost_total \in Nat /\ CounterMod \in Nat /\ CounterMod > 0
      /\ DOMAIN counters = {"accepted", "ignored", "seq_gaps", "crc_errors", "lost"}
  BY RoverLinkAssumption, ControllerAssumption
     DEF TypeInv, TypeOK, ControllerTypeOK, Counters
<1>2. /\ counters.lost = lost_total % CounterMod
      /\ lost_total' = IF have_control_ THEN lost_total + lost_run ELSE lost_total
      /\ have_seq_ = have_control_
  BY DEF LossIsCounted, Deliver, NumbersInv
<1>3. Accept(f, 0)
  BY DeliverAccepts
<1>4. counters'.lost = IF SeqGap(f) /\ SeqDelta(last_seq_, f.seq) > 1
                         THEN Count(counters.lost, SeqDelta(last_seq_, f.seq) - 1)
                         ELSE counters.lost
  BY <1>1, <1>3 DEF Accept
<1>5. CASE ~have_control_
  <2>1. ~SeqGap(f)
    BY <1>2, <1>5 DEF SeqGap
  <2>. QED
    BY <1>2, <1>4, <1>5, <2>1
<1>6. CASE have_control_
  <2>1. SeqDelta(last_seq_, f.seq) = lost_run + 1
    BY <1>1, <1>6, DistanceIsLoss
  <2>2. SeqGap(f) <=> lost_run # 0
    BY <1>1, <1>2, <1>6, <2>1 DEF SeqGap
  <2>3. CASE lost_run = 0
    BY <1>1, <1>2, <1>4, <1>6, <2>2, <2>3
  <2>4. CASE lost_run # 0
    <3>1. counters'.lost = ((lost_total % CounterMod) + lost_run) % CounterMod
      BY <1>1, <1>2, <1>4, <2>1, <2>2, <2>4 DEF Count
    <3>2. ((lost_total % CounterMod) + lost_run) % CounterMod
            = (lost_total + lost_run) % CounterMod
      <4>1. lost_run \in Nat
        BY <1>1
      <4>. QED
        BY <1>1, <4>1, RemainderAdds, Zenon
    <3>3. lost_total' = lost_total + lost_run
      BY <1>2, <1>6
    <3>. QED
      BY <3>1, <3>2, <3>3, Zenon
  <2>. QED
    BY <2>3, <2>4
<1>. QED
  BY <1>5, <1>6

(* While fewer frames are lost in a row than the sequence number can tell, *)
(* and the Jetson program does not start over, frames_lost_estimate_ is no *)
(* estimate, for every width of the number and of the counter.             *)
THEOREM LossIsExact ==
  ASSUME ClockIsTicked, MaxLost + 1 < SeqMod PROVE Spec => []LossIsCounted
<1>1. Init => LossIsCounted
  <2> SUFFICES ASSUME Init PROVE LossIsCounted
    OBVIOUS
  <2>1. counters.lost = 0 /\ lost_total = 0
    BY DEF Init, BootController, NoCounts
  <2>2. 0 % CounterMod = 0
    BY ControllerAssumption
  <2>. QED
    BY <2>1, <2>2 DEF LossIsCounted
<1>2. ReportInv /\ TypeInv /\ NumbersInv /\ LossIsCounted /\ [Next]_vars
        => LossIsCounted'
  <2> SUFFICES ASSUME ReportInv, TypeInv, NumbersInv, LossIsCounted, [Next]_vars
               PROVE  LossIsCounted'
    OBVIOUS
  <2>1. CASE ~Deliver
    <3>1. UNCHANGED <<counters, lost_total>>
      BY <2>1 DEF Next, Tick, Start, Stop, BaseStation, Loop, Send, Receive,
         Arrive, Lose, Ended, vars, ctlVars, controllerVars, lossVars
    <3>2. stops' = 0 => stops = 0
      <4>1. stops \in Nat
        BY NumberTypes
      <4>2. stops' = stops \/ stops' = stops + 1
        BY <2>1 DEF Next, Tick, Start, Stop, BaseStation, Loop, Send, Receive,
           Arrive, Lose, Ended, vars, boundVars
      <4>. QED
        BY <4>1, <4>2
    <3>. QED
      BY <3>1, <3>2 DEF LossIsCounted
  <2>. QED
    BY <2>1, LossDeliver
<1>. QED
  BY <1>1, <1>2, ReportInvariant, TypeInvariant, NumbersInvariant, PTL DEF Spec

(***************************************************************************)
(* The send schedule                                                       *)
(***************************************************************************)

(* The loop finds a frame due at its time or, when no stall is longer than *)
(* a period, at most a stall later.                                        *)
DueInv ==
  host_pc # "off" =>
    /\ host_pc = "send" => t_next <= loop_now
    /\ MaxStall <= ControlPeriod =>
         loop_now <= t_next + IF host_pc = "send" THEN MaxStall ELSE 0

Slots(k) == k * ControlPeriod
Later(a, b) == IF a >= b THEN a ELSE b

(* The next frame is sent by then, a stall after the reading that finds it *)
(* due, which is the next one or the first that reaches t_next.            *)
NextBy ==
  IF host_pc = "send" THEN loop_now + MaxStall
  ELSE Later(loop_now + MaxStall, t_next + MaxStall - 1) + MaxStall

(* How far sends may stray from their slots, forth and back.               *)
Spread == 2 * MaxStall - 1
Lag == MostLate + MaxStall

(* A frame sent between lo and hi has the next one to send k slots on.     *)
OnTime(lo, hi, k) ==
  /\ lo - Lag + Slots(k) <= t_next
  /\ MaxStall <= ControlPeriod =>
       t_next <= hi + Slots(k) /\ NextBy <= hi + Slots(k) + Spread

(* A frame sent between lo and hi is followed by one k slots on, sent at u.*)
Apart(lo, hi, u, k) ==
  /\ lo - Lag + Slots(k) <= u
  /\ MaxStall <= ControlPeriod => u <= hi + Slots(k) + Spread

SentAt(i) == now - wire[i].age

(* While one program runs, its frames on the bus, the last one accepted    *)
(* and the next one to send keep their distances.                          *)
ScheduleInv ==
  stops = 0 /\ host_pc # "off" =>
    /\ \A i \in 1 .. Len(wire) :
         OnTime(SentAt(i), SentAt(i), Len(wire) - i + 1)
    /\ \A i \in 1 .. Len(wire) : \A j \in i + 1 .. Len(wire) :
         Apart(SentAt(i), SentAt(i), SentAt(j), j - i)
    /\ have_control_ =>
         /\ OnTime(last_control_ms_ - MaxTransit, last_control_ms_,
                   lost_run + Len(wire) + 1)
         /\ \A j \in 1 .. Len(wire) :
              Apart(last_control_ms_ - MaxTransit, last_control_ms_, SentAt(j),
                    lost_run + j)

LEMMA ScheduleTypes ==
  ASSUME ReportInv, TypeInv
  PROVE  /\ ControlPeriod \in Nat /\ ControlPeriod > 0
         /\ MaxStall \in Nat /\ MaxTransit \in Nat
         /\ MostLate \in Nat /\ Lag \in Nat /\ Spread \in Int
         /\ now \in Nat /\ loop_now \in Nat /\ t_next \in Nat
         /\ last_control_ms_ \in Nat /\ last_control_ms_ <= now
         /\ lost_run \in Nat /\ stops \in Nat
         /\ host_pc \in {"off", "top", "send", "poll"}
         /\ since_loop \in 0 .. MaxStall
         /\ host_pc # "off" => loop_now + since_loop = now
         /\ \A i \in 1 .. Len(wire) : SentAt(i) \in Int
<1>1. /\ ControlPeriod \in Nat /\ ControlPeriod > 0
      /\ MaxStall \in Nat /\ MaxTransit \in Nat /\ MaxLost \in Nat
      /\ MaxStops \in Nat
  BY HostAssumption, RoverLinkAssumption
<1>2. MostLate \in Nat /\ Lag \in Nat /\ Spread \in Int
  BY <1>1 DEF MostLate, Lag, Spread
<1>3. /\ now \in Nat /\ loop_now \in Nat /\ t_next \in Nat
      /\ last_control_ms_ \in Nat /\ last_control_ms_ <= now
      /\ lost_run \in Nat /\ stops \in Nat
      /\ host_pc \in {"off", "top", "send", "poll"}
      /\ since_loop \in 0 .. MaxStall
      /\ host_pc # "off" => loop_now + since_loop = now
  BY <1>1 DEF ReportInv, PathTypeOK, LoopIsRecent, TypeInv, TypeOK, HostTypeOK
<1>4. \A i \in 1 .. Len(wire) : SentAt(i) \in Int
  BY <1>3, WireHolds DEF SentAt
<1>. QED
  BY <1>1, <1>2, <1>3, <1>4

LEMMA SlotsCount ==
  /\ Slots(1) = ControlPeriod
  /\ \A k \in Nat : Slots(k) \in Nat /\ Slots(k + 1) = Slots(k) + ControlPeriod
  /\ \A j \in Nat : \A k \in Nat : j <= k => Slots(j) <= Slots(k)
<1>1. ControlPeriod \in Nat
  BY HostAssumption
<1>2. \A k \in Nat : Slots(k) \in Nat /\ Slots(k + 1) = Slots(k) + ControlPeriod
  BY <1>1 DEF Slots
<1>3. ASSUME NEW j \in Nat, NEW k \in Nat, j <= k PROVE Slots(j) <= Slots(k)
  <2>1. k - j \in Nat /\ (k - j) * ControlPeriod \in Nat
    BY <1>1, <1>3
  <2>2. (k - j) * ControlPeriod = Slots(k) - Slots(j)
    BY <1>1, <1>3 DEF Slots
  <2>. QED
    BY <1>2, <1>3, <2>1, <2>2
<1>. QED
  BY <1>1, <1>2, <1>3 DEF Slots

LEMMA DueInvariant == ASSUME ClockIsTicked PROVE Spec => []DueInv
<1>1. Init => DueInv
  BY DEF Init, HostOff, DueInv
<1>2. ReportInv /\ TypeInv /\ DueInv /\ [Next]_vars => DueInv'
  <2> SUFFICES ASSUME ReportInv, TypeInv, DueInv, [Next]_vars PROVE DueInv'
    OBVIOUS
  <2>1. /\ ControlPeriod \in Nat /\ MaxStall \in Nat /\ now \in Nat
        /\ loop_now \in Nat /\ t_next \in Nat /\ since_loop \in 0 .. MaxStall
        /\ host_pc # "off" => loop_now + since_loop = now
    BY ScheduleTypes
  <2>2. CASE Start
    BY <2>1, <2>2 DEF Start, HostStart, DueInv
  <2>3. CASE Stop
    BY <2>3 DEF Stop, HostStop, DueInv
  <2>4. CASE Loop
    BY <2>1, <2>4 DEF Loop, LoopTop, senderVars, DueInv
  <2>5. CASE Send
    <3>1. /\ host_pc = "send" /\ host_pc' = "poll" /\ loop_now' = loop_now
          /\ t_next' = NextSend
      BY <2>5 DEF Send, SendControl
    <3>. QED
      BY <2>1, <3>1 DEF NextSend, DueInv
  <2>6. CASE Receive
    <3>1. /\ host_pc = "poll" /\ host_pc' = "top"
          /\ UNCHANGED <<loop_now, t_next>>
      BY <2>6 DEF Receive, Poll, senderVars
    <3>. QED
      BY <2>1, <3>1 DEF DueInv
  <2>7. CASE UNCHANGED <<host_pc, loop_now, t_next>>
    BY <2>7 DEF DueInv
  <2>. QED
    BY <2>2, <2>3, <2>4, <2>5, <2>6, <2>7 DEF Next, Tick, BaseStation, Arrive,
       Deliver, Lose, Ended, vars, hostVars, senderVars
<1>. QED
  BY <1>1, <1>2, ReportInvariant, TypeInvariant, PTL DEF Spec

(* Reading the clock, or polling, brings the next send nearer at most.     *)
LEMMA OnTimeStays ==
  ASSUME ReportInv, TypeInv, [Next]_vars, ~Send, ~Start, ~Stop,
         host_pc # "off", NEW lo \in Int, NEW hi \in Int, NEW k \in Nat,
         OnTime(lo, hi, k)
  PROVE  OnTime(lo, hi, k)'
<1>1. /\ MaxStall \in Nat /\ now \in Nat /\ loop_now \in Nat /\ t_next \in Nat
      /\ since_loop \in 0 .. MaxStall /\ loop_now + since_loop = now
      /\ Slots(k) \in Nat /\ Spread \in Int
  BY ScheduleTypes, SlotsCount
<1>2. t_next' = t_next
  BY DEF Next, Tick, BaseStation, Loop, LoopTop, Receive, Poll, Arrive, Deliver,
     Lose, Ended, vars, hostVars, senderVars
<1>3. NextBy \in Int /\ NextBy' \in Int /\ NextBy' <= NextBy
  <2>1. CASE Loop
    <3>1. /\ host_pc = "top" /\ loop_now' = now
          /\ host_pc' = IF now >= t_next THEN "send" ELSE "poll"
      BY <2>1 DEF Loop, LoopTop
    <3>. QED
      BY <1>1, <1>2, <3>1 DEF NextBy, Later
  <2>2. CASE Receive
    <3>1. host_pc = "poll" /\ host_pc' = "top" /\ loop_now' = loop_now
      BY <2>2 DEF Receive, Poll
    <3>. QED
      BY <1>1, <1>2, <3>1 DEF NextBy, Later
  <2>3. CASE UNCHANGED <<host_pc, loop_now>>
    BY <1>1, <1>2, <2>3 DEF NextBy, Later
  <2>. QED
    BY <2>1, <2>2, <2>3 DEF Next, Tick, BaseStation, Arrive, Deliver, Lose,
       Ended, vars, hostVars
<1> HIDE DEF NextBy, Slots, Spread
<1>. QED
  BY <1>1, <1>2, <1>3 DEF OnTime, Lag, MostLate, Slots, Spread

LEMMA SendFacts ==
  ASSUME ReportInv, TypeInv, DueInv, Send
  PROVE  /\ t_next <= loop_now /\ loop_now <= now /\ now <= loop_now + MaxStall
         /\ MaxStall <= ControlPeriod => loop_now <= t_next + MaxStall
         /\ NextBy = loop_now + MaxStall
         /\ NextBy' = Later(loop_now + MaxStall, t_next' + MaxStall - 1) + MaxStall
         /\ t_next' = IF loop_now - (t_next + ControlPeriod) > ControlPeriod
                       THEN loop_now + ControlPeriod ELSE t_next + ControlPeriod
<1>1. /\ host_pc = "send" /\ host_pc' = "poll" /\ loop_now' = loop_now
      /\ t_next' = NextSend
  BY DEF Send, SendControl
<1>2. /\ MaxStall \in Nat /\ now \in Nat /\ loop_now \in Nat /\ t_next \in Nat
      /\ since_loop \in 0 .. MaxStall /\ loop_now + since_loop = now
  BY <1>1, ScheduleTypes
<1>. QED
  BY <1>1, <1>2 DEF DueInv, NextBy, NextSend

(* A send is a slot on from every frame before it, ...                     *)
LEMMA OnTimeSend ==
  ASSUME ReportInv, TypeInv, DueInv, Send, NEW lo \in Int, NEW hi \in Int,
         NEW k \in Nat, OnTime(lo, hi, k), NEW t, t = now
  PROVE  OnTime(lo, hi, k + 1)' /\ Apart(lo, hi, t, k)
<1>1. /\ ControlPeriod \in Nat /\ ControlPeriod > 0 /\ MaxStall \in Nat
      /\ now \in Nat /\ loop_now \in Nat /\ t_next \in Nat /\ Lag \in Nat
      /\ Slots(k) \in Nat /\ Slots(k + 1) = Slots(k) + ControlPeriod
  BY ScheduleTypes, SlotsCount
<1>2. /\ lo - Lag + Slots(k) <= t_next
      /\ MaxStall <= ControlPeriod =>
           /\ t_next <= hi + Slots(k)
           /\ loop_now + MaxStall <= hi + Slots(k) + (2 * MaxStall - 1)
  BY SendFacts DEF OnTime, Spread
<1>3. Apart(lo, hi, t, k)
  BY <1>1, <1>2, SendFacts DEF Apart, Spread
<1>4. lo - Lag + Slots(k + 1) <= t_next'
  BY <1>1, <1>2, SendFacts
<1>5. ASSUME MaxStall <= ControlPeriod
      PROVE  /\ t_next' <= hi + Slots(k + 1)
             /\ NextBy' <= hi + Slots(k + 1) + (2 * MaxStall - 1)
  <2>1. t_next' = t_next + ControlPeriod
    BY <1>1, <1>5, SendFacts
  <2>2. NextBy' = Later(loop_now + MaxStall, t_next' + MaxStall - 1) + MaxStall
    BY SendFacts
  <2>. QED
    BY <1>1, <1>2, <1>5, <2>1, <2>2 DEF Later
<1>. QED
  BY <1>3, <1>4, <1>5 DEF OnTime, Spread, Lag, MostLate, Slots

(* ... and has the next one a slot on.                                     *)
LEMMA OnTimeNew ==
  ASSUME ReportInv, TypeInv, DueInv, Send, NEW t, t = now
  PROVE  OnTime(t, t, 1)'
<1>1. /\ ControlPeriod \in Nat /\ ControlPeriod > 0 /\ MaxStall \in Nat
      /\ now \in Nat /\ loop_now \in Nat /\ t_next \in Nat
      /\ Slots(1) = ControlPeriod
  BY ScheduleTypes, SlotsCount
<1>2. t - Lag + Slots(1) <= t_next'
  BY <1>1, SendFacts DEF Lag, MostLate
<1>3. ASSUME MaxStall <= ControlPeriod
      PROVE  /\ t_next' <= t + Slots(1)
             /\ NextBy' <= t + Slots(1) + (2 * MaxStall - 1)
  <2>1. t_next' = t_next + ControlPeriod
    BY <1>1, <1>3, SendFacts
  <2>2. NextBy' = Later(loop_now + MaxStall, t_next' + MaxStall - 1) + MaxStall
    BY SendFacts
  <2>. QED
    BY <1>1, <1>3, <2>1, <2>2, SendFacts DEF Later
<1>. QED
  BY <1>2, <1>3 DEF OnTime, Spread, Lag, MostLate, Slots

(* The steps that neither fill nor empty the bus change none of this.      *)
LEMMA ScheduleQuiet ==
  ASSUME ReportInv, TypeInv, ScheduleInv, [Next]_vars,
         ~Send, ~Deliver, ~Lose, ~Start, ~Stop
  PROVE  ScheduleInv'
<1>1. stops' = stops /\ (host_pc' # "off" => host_pc # "off")
  BY DEF Next, Tick, Loop, LoopTop, BaseStation, Receive, Poll, Arrive, Ended,
     vars, hostVars, boundVars
<1>2. SUFFICES ASSUME stops = 0, host_pc # "off" PROVE ScheduleInv'
  BY <1>1 DEF ScheduleInv
<1>3. /\ Len(wire) \in Nat /\ Len(wire') = Len(wire)
      /\ \A i \in 1 .. Len(wire) : SentAt(i)' = SentAt(i)
      /\ UNCHANGED <<lost_run, have_control_, last_control_ms_>>
  <2>1. CASE Tick
    <3>1. now' = now + 1 /\ UNCHANGED <<lost_run, have_control_, last_control_ms_>>
      BY <2>1 DEF Tick, controllerVars, commandVars, lossVars
    <3>2. now \in Nat
      BY ScheduleTypes
    <3>. QED
      BY <2>1, <3>1, <3>2, WireTicks, WireHolds DEF SentAt
  <2>2. CASE ~Tick
    BY <2>2, PathStays, WireHolds DEF SentAt
  <2>. QED
    BY <2>1, <2>2
<1>4. \A lo \in Int : \A hi \in Int : \A k \in Nat :
        OnTime(lo, hi, k) => OnTime(lo, hi, k)'
  BY <1>2, OnTimeStays
<1>5. ASSUME NEW i \in 1 .. Len(wire)
      PROVE  OnTime(SentAt(i), SentAt(i), Len(wire) - i + 1)'
  <2>1. SentAt(i) \in Int /\ Len(wire) - i + 1 \in Nat
    BY <1>3, ScheduleTypes
  <2> PICK t \in Int, k \in Nat : t = SentAt(i) /\ k = Len(wire) - i + 1
    BY <2>1, Zenon
  <2>2. OnTime(t, t, k)
    BY <1>2, <2>1 DEF ScheduleInv
  <2>3. OnTime(t, t, k)' /\ t = SentAt(i)' /\ k = Len(wire') - i + 1
    BY <1>3, <1>4, <2>1, <2>2
  <2>. QED
    BY <2>3
<1>6. have_control_ => OnTime(last_control_ms_ - MaxTransit, last_control_ms_,
                              lost_run + Len(wire) + 1)'
  <2>1. /\ last_control_ms_ - MaxTransit \in Int /\ last_control_ms_ \in Int
        /\ lost_run + Len(wire) + 1 \in Nat
    BY <1>3, ScheduleTypes
  <2> PICK lo \in Int, hi \in Int, k \in Nat :
        /\ lo = last_control_ms_ - MaxTransit /\ hi = last_control_ms_
        /\ k = lost_run + Len(wire) + 1
    BY <2>1, Zenon
  <2>2. have_control_ => OnTime(lo, hi, k)
    BY <1>2, <2>1 DEF ScheduleInv
  <2>3. /\ have_control_ => OnTime(lo, hi, k)'
        /\ lo = last_control_ms_' - MaxTransit /\ hi = last_control_ms_'
        /\ k = lost_run' + Len(wire') + 1
    BY <1>3, <1>4, <2>1, <2>2
  <2>. QED
    BY <2>3
<1>7. \A i \in 1 .. Len(wire) : \A j \in i + 1 .. Len(wire) :
        Apart(SentAt(i)', SentAt(i)', SentAt(j)', j - i)
  <2>1. \A i \in 1 .. Len(wire) : \A j \in i + 1 .. Len(wire) :
          j \in 1 .. Len(wire)
    BY <1>3
  <2>. QED
    BY <1>2, <1>3, <2>1 DEF ScheduleInv
<1>. QED
  BY <1>2, <1>3, <1>5, <1>6, <1>7 DEF ScheduleInv, Apart, Lag, MostLate, Slots, Spread

(* An interval may be widened.                                             *)
LEMMA ScheduleWidens ==
  ASSUME ReportInv, TypeInv, NEW t \in Int, NEW lo \in Int, NEW hi \in Int,
         lo <= t, t <= hi, NEW k \in Nat
  PROVE  /\ OnTime(t, t, k) => OnTime(lo, hi, k)
         /\ \A u \in Int : Apart(t, t, u, k) => Apart(lo, hi, u, k)
<1>1. /\ Lag \in Nat /\ Spread \in Int /\ Slots(k) \in Nat /\ t_next \in Nat
      /\ MaxStall \in Nat /\ loop_now \in Nat
  BY ScheduleTypes, SlotsCount
<1>2. NextBy \in Int
  BY <1>1 DEF NextBy, Later
<1> HIDE DEF Lag, Spread, Slots, NextBy
<1>. QED
  BY <1>1, <1>2 DEF OnTime, Apart

(* Sending takes every frame before a slot on.                             *)
LEMMA ScheduleSend ==
  ASSUME ReportInv, TypeInv, DueInv, ScheduleInv, Send PROVE ScheduleInv'
<1>1. /\ stops' = stops /\ host_pc = "send" /\ now' = now
      /\ UNCHANGED <<lost_run, have_control_, last_control_ms_>>
  BY DEF Send, SendControl, boundVars, lossVars, ctlVars, controllerVars,
     commandVars
<1>2. SUFFICES ASSUME stops = 0 PROVE ScheduleInv'
  BY <1>1 DEF ScheduleInv
<1>3. PICK n \in Nat : n = Len(wire)
  BY WireHolds
<1>4. PICK t \in Nat : t = now
  BY ScheduleTypes
<1>5. /\ Len(wire') = n + 1
      /\ \A i \in 1 .. n : SentAt(i)' = SentAt(i) /\ SentAt(i) \in Int
      /\ SentAt(n + 1)' = t
  BY <1>1, <1>3, <1>4, WireGrows, ScheduleTypes DEF SentAt
<1>6. ASSUME NEW i \in 1 .. n
      PROVE  /\ OnTime(SentAt(i), SentAt(i), (n + 1) - i + 1)'
             /\ Apart(SentAt(i), SentAt(i), SentAt(n + 1), (n + 1) - i)'
  <2>1. PICK u \in Int : u = SentAt(i)
    BY <1>5
  <2>2. PICK k \in Nat : k = n - i + 1
    BY <1>3
  <2>3. OnTime(u, u, k)
    BY <1>1, <1>2, <1>3, <2>1, <2>2 DEF ScheduleInv
  <2>4. OnTime(u, u, k + 1)' /\ Apart(u, u, t, k)
    BY <1>4, <2>3, OnTimeSend
  <2>5. k + 1 = (n + 1) - i + 1 /\ k = (n + 1) - i
    BY <2>2
  <2>6. u = SentAt(i)' /\ t = SentAt(n + 1)'
    BY <1>5, <2>1
  <2>7. Apart(u, u, t, k)'
    BY <2>4 DEF Apart, Lag, MostLate, Slots, Spread
  <2>. QED
    BY <2>4, <2>5, <2>6, <2>7
<1>7. OnTime(t, t, 1)'
  BY <1>4, OnTimeNew
<1>8. ASSUME NEW i \in 1 .. n + 1
      PROVE  OnTime(SentAt(i), SentAt(i), (n + 1) - i + 1)'
  <2>1. CASE i \in 1 .. n
    BY <1>6, <2>1
  <2>2. CASE i = n + 1
    <3>1. (n + 1) - i + 1 = 1 /\ SentAt(i)' = t
      BY <1>5, <2>2
    <3>. QED
      BY <1>7, <3>1
  <2>. QED
    BY <2>1, <2>2
<1>9. ASSUME NEW i \in 1 .. n + 1, NEW j \in i + 1 .. n + 1
      PROVE  Apart(SentAt(i), SentAt(i), SentAt(j), j - i)'
  <2>1. CASE j \in i + 1 .. n
    <3>1. i \in 1 .. n /\ j \in 1 .. n
      BY <2>1
    <3>2. Apart(SentAt(i), SentAt(i), SentAt(j), j - i)
      BY <1>1, <1>2, <1>3, <2>1, <3>1 DEF ScheduleInv
    <3>. QED
      BY <1>5, <3>1, <3>2 DEF Apart, Lag, MostLate, Slots, Spread
  <2>2. CASE j = n + 1
    <3>1. i \in 1 .. n
      BY <2>2
    <3>. QED
      BY <1>6, <2>2, <3>1
  <2>. QED
    BY <2>1, <2>2
<1>10. ASSUME have_control_
       PROVE  /\ OnTime(last_control_ms_ - MaxTransit, last_control_ms_,
                        lost_run + (n + 1) + 1)'
              /\ \A j \in 1 .. n + 1 :
                   Apart(last_control_ms_ - MaxTransit, last_control_ms_,
                         SentAt(j), lost_run + j)'
  <2>1. /\ last_control_ms_ \in Nat /\ last_control_ms_ - MaxTransit \in Int
        /\ lost_run \in Nat
    BY ScheduleTypes
  <2>2. PICK lo \in Int : lo = last_control_ms_ - MaxTransit
    BY <2>1
  <2>3. PICK hi \in Int : hi = last_control_ms_
    BY <2>1
  <2>4. PICK k \in Nat : k = lost_run + n + 1
    BY <2>1
  <2>5. OnTime(lo, hi, k)
    BY <1>1, <1>2, <1>3, <1>10, <2>2, <2>3, <2>4 DEF ScheduleInv
  <2>6. OnTime(lo, hi, k + 1)' /\ Apart(lo, hi, t, k)
    BY <1>4, <2>5, OnTimeSend
  <2>7. lo = last_control_ms_' - MaxTransit /\ hi = last_control_ms_'
        /\ k + 1 = lost_run' + (n + 1) + 1 /\ k = lost_run' + (n + 1)
    BY <1>1, <2>1, <2>2, <2>3, <2>4
  <2>8. ASSUME NEW j \in 1 .. n + 1
        PROVE  Apart(last_control_ms_ - MaxTransit, last_control_ms_,
                     SentAt(j), lost_run + j)'
    <3>1. CASE j \in 1 .. n
      <4>1. Apart(last_control_ms_ - MaxTransit, last_control_ms_, SentAt(j),
                  lost_run + j)
        BY <1>1, <1>2, <1>3, <1>10, <3>1 DEF ScheduleInv
      <4>. QED
        BY <1>1, <1>5, <3>1, <4>1 DEF Apart, Lag, MostLate, Slots, Spread
    <3>2. CASE j = n + 1
      <4>1. Apart(lo, hi, t, k)'
        BY <2>6 DEF Apart, Lag, MostLate, Slots, Spread
      <4>. QED
        BY <1>5, <2>7, <3>2, <4>1
    <3>. QED
      BY <3>1, <3>2
  <2>. QED
    BY <2>6, <2>7, <2>8
<1>. QED
  BY <1>1, <1>5, <1>8, <1>9, <1>10 DEF ScheduleInv

(* With the first frame off the bus the others keep their distances.       *)
LEMMA ScheduleShrinks ==
  ASSUME ReportInv, TypeInv, ScheduleInv, Deliver \/ Lose, now' = now,
         stops = 0, host_pc # "off", NEW n \in Nat, n = Len(wire)
  PROVE  /\ n > 0 /\ Len(wire') = n - 1
         /\ \A i \in 1 .. n - 1 :
              SentAt(i)' = SentAt(i + 1) /\ SentAt(i + 1) \in Int
         /\ \A lo \in Int : \A hi \in Int : \A k \in Nat :
              OnTime(lo, hi, k) => OnTime(lo, hi, k)'
         /\ \A i \in 1 .. n - 1 : OnTime(SentAt(i), SentAt(i), (n - 1) - i + 1)'
         /\ \A i \in 1 .. n - 1 : \A j \in i + 1 .. n - 1 :
              Apart(SentAt(i), SentAt(i), SentAt(j), j - i)'
<1>1. /\ n > 0 /\ Len(wire') = n - 1
      /\ \A i \in 1 .. n - 1 : wire'[i] = wire[i + 1]
  BY WireShrinks
<1>2. \A i \in 1 .. n - 1 :
        SentAt(i)' = SentAt(i + 1) /\ SentAt(i + 1) \in Int
  <2> SUFFICES ASSUME NEW i \in 1 .. n - 1
               PROVE  SentAt(i)' = SentAt(i + 1) /\ SentAt(i + 1) \in Int
    OBVIOUS
  <2>1. i + 1 \in 1 .. n
    OBVIOUS
  <2>2. SentAt(i + 1) \in Int
    BY <2>1, ScheduleTypes
  <2>. QED
    BY <1>1, <2>2 DEF SentAt
<1>3. \A lo \in Int : \A hi \in Int : \A k \in Nat :
        OnTime(lo, hi, k) => OnTime(lo, hi, k)'
  <2>1. wire' # wire /\ Len(wire') # Len(wire) + 1
    BY <1>1
  <2>2. [Next]_vars /\ ~Send /\ ~Start /\ ~Stop
    BY <2>1, WireGrows DEF Next, Start, Stop
  <2>. QED
    BY <2>2, OnTimeStays
<1>4. ASSUME NEW i \in 1 .. n - 1
      PROVE  OnTime(SentAt(i), SentAt(i), (n - 1) - i + 1)'
  <2>1. PICK u \in Int : u = SentAt(i + 1)
    BY <1>2
  <2>2. i + 1 \in 1 .. n /\ n - (i + 1) + 1 \in Nat
    OBVIOUS
  <2>3. PICK k \in Nat : k = n - (i + 1) + 1
    BY <2>2
  <2>4. OnTime(u, u, k)
    BY <2>1, <2>2, <2>3 DEF ScheduleInv
  <2>5. OnTime(u, u, k)'
    BY <1>3, <2>4
  <2>6. u = SentAt(i)' /\ k = (n - 1) - i + 1
    BY <1>2, <2>1, <2>3
  <2>. QED
    BY <2>5, <2>6
<1>5. ASSUME NEW i \in 1 .. n - 1, NEW j \in i + 1 .. n - 1
      PROVE  Apart(SentAt(i), SentAt(i), SentAt(j), j - i)'
  <2>1. /\ i + 1 \in 1 .. n /\ j + 1 \in (i + 1) + 1 .. n /\ j \in 1 .. n - 1
        /\ (j + 1) - (i + 1) = j - i
    OBVIOUS
  <2>2. Apart(SentAt(i + 1), SentAt(i + 1), SentAt(j + 1), (j + 1) - (i + 1))
    BY <2>1 DEF ScheduleInv
  <2>. QED
    BY <1>2, <2>1, <2>2 DEF Apart, Lag, MostLate, Slots, Spread
<1>. QED
  BY <1>1, <1>2, <1>3, <1>4, <1>5

(* A lost frame leaves its slot behind.                                    *)
LEMMA ScheduleLose ==
  ASSUME ReportInv, TypeInv, ScheduleInv, Lose PROVE ScheduleInv'
<1>1. /\ UNCHANGED <<stops, host_pc, now, have_control_, last_control_ms_>>
      /\ lost_run' = lost_run + 1
  BY DEF Lose, boundVars, hostVars, ctlVars, controllerVars, commandVars
<1>2. SUFFICES ASSUME stops = 0, host_pc # "off" PROVE ScheduleInv'
  BY <1>1 DEF ScheduleInv
<1>3. PICK n \in Nat : n = Len(wire)
  BY WireHolds
<1>4. /\ n > 0 /\ Len(wire') = n - 1
      /\ \A i \in 1 .. n - 1 :
           SentAt(i)' = SentAt(i + 1) /\ SentAt(i + 1) \in Int
      /\ \A lo \in Int : \A hi \in Int : \A k \in Nat :
           OnTime(lo, hi, k) => OnTime(lo, hi, k)'
      /\ \A i \in 1 .. n - 1 : OnTime(SentAt(i), SentAt(i), (n - 1) - i + 1)'
      /\ \A i \in 1 .. n - 1 : \A j \in i + 1 .. n - 1 :
           Apart(SentAt(i), SentAt(i), SentAt(j), j - i)'
  BY <1>1, <1>2, <1>3, ScheduleShrinks
<1>5. ASSUME have_control_
      PROVE  /\ OnTime(last_control_ms_ - MaxTransit, last_control_ms_,
                       lost_run + (n - 1) + 1)'
             /\ \A j \in 1 .. n - 1 :
                  Apart(last_control_ms_ - MaxTransit, last_control_ms_,
                        SentAt(j), lost_run + j)'
  <2>1. /\ last_control_ms_ \in Nat /\ last_control_ms_ - MaxTransit \in Int
        /\ lost_run \in Nat
    BY ScheduleTypes
  <2>2. PICK lo \in Int : lo = last_control_ms_ - MaxTransit
    BY <2>1
  <2>3. PICK hi \in Int : hi = last_control_ms_
    BY <2>1
  <2>4. PICK k \in Nat : k = lost_run + n + 1
    BY <2>1
  <2>5. OnTime(lo, hi, k)
    BY <1>2, <1>3, <1>5, <2>2, <2>3, <2>4 DEF ScheduleInv
  <2>6. OnTime(lo, hi, k)'
    BY <1>4, <2>5
  <2>7. lo = last_control_ms_' - MaxTransit /\ hi = last_control_ms_'
        /\ k = lost_run' + (n - 1) + 1
    BY <1>1, <2>1, <2>2, <2>3, <2>4
  <2>8. ASSUME NEW j \in 1 .. n - 1
        PROVE  Apart(last_control_ms_ - MaxTransit, last_control_ms_,
                     SentAt(j), lost_run + j)'
    <3>1. j + 1 \in 1 .. n /\ lost_run + (j + 1) = lost_run' + j
      BY <1>1, <2>1
    <3>2. Apart(last_control_ms_ - MaxTransit, last_control_ms_, SentAt(j + 1),
                lost_run + (j + 1))
      BY <1>2, <1>3, <1>5, <3>1 DEF ScheduleInv
    <3>. QED
      BY <1>1, <1>4, <3>1, <3>2 DEF Apart, Lag, MostLate, Slots, Spread
  <2>. QED
    BY <2>6, <2>7, <2>8
<1>. QED
  BY <1>1, <1>4, <1>5 DEF ScheduleInv

(* A frame is accepted at most MaxTransit after it was sent.               *)
LEMMA ScheduleDeliver ==
  ASSUME ClockIsTicked, ReportInv, TypeInv, ScheduleInv, Deliver
  PROVE  ScheduleInv'
<1>1. /\ UNCHANGED <<stops, host_pc, now>> /\ lost_run' = 0
      /\ last_control_ms_' = now
  BY DeliverAccepts DEF Deliver, Accept, boundVars, hostVars
<1>2. SUFFICES ASSUME stops = 0, host_pc # "off" PROVE ScheduleInv'
  BY <1>1 DEF ScheduleInv
<1>3. PICK n \in Nat : n = Len(wire)
  BY WireHolds
<1>4. /\ n > 0 /\ Len(wire') = n - 1
      /\ \A i \in 1 .. n - 1 :
           SentAt(i)' = SentAt(i + 1) /\ SentAt(i + 1) \in Int
      /\ \A lo \in Int : \A hi \in Int : \A k \in Nat :
           OnTime(lo, hi, k) => OnTime(lo, hi, k)'
      /\ \A i \in 1 .. n - 1 : OnTime(SentAt(i), SentAt(i), (n - 1) - i + 1)'
      /\ \A i \in 1 .. n - 1 : \A j \in i + 1 .. n - 1 :
           Apart(SentAt(i), SentAt(i), SentAt(j), j - i)'
  BY <1>1, <1>2, <1>3, ScheduleShrinks
<1>5. /\ OnTime(last_control_ms_ - MaxTransit, last_control_ms_,
                lost_run + (n - 1) + 1)'
      /\ \A j \in 1 .. n - 1 :
           Apart(last_control_ms_ - MaxTransit, last_control_ms_,
                 SentAt(j), lost_run + j)'
  <2>1. /\ SentAt(1) \in Int /\ now \in Nat /\ MaxTransit \in Nat
        /\ 1 \in 1 .. n
        /\ now - MaxTransit <= SentAt(1) /\ SentAt(1) <= now
    <3>1. 1 \in 1 .. n /\ now \in Nat /\ MaxTransit \in Nat
      BY <1>4, ScheduleTypes
    <3>2. wire[1].age \in Nat /\ wire[1].age <= MaxTransit
      BY <1>3, <3>1, WireHolds
    <3>. QED
      BY <3>1, <3>2 DEF SentAt
  <2>2. PICK lo \in Int : lo = now - MaxTransit
    BY <2>1
  <2>3. PICK hi \in Int : hi = now
    BY <2>1
  <2>4. PICK u \in Int : u = SentAt(1)
    BY <2>1
  <2>5. OnTime(u, u, n)
    <3>1. n - 1 + 1 = n
      OBVIOUS
    <3>. QED
      BY <1>2, <1>3, <2>1, <2>4, <3>1 DEF ScheduleInv
  <2>6. lo <= u /\ u <= hi
    BY <2>1, <2>2, <2>3, <2>4
  <2>7. OnTime(lo, hi, n)
    BY <2>5, <2>6, ScheduleWidens
  <2>8. OnTime(lo, hi, n)'
    BY <1>4, <2>7
  <2>9. lo = last_control_ms_' - MaxTransit /\ hi = last_control_ms_'
        /\ n = lost_run' + (n - 1) + 1
    BY <1>1, <2>2, <2>3
  <2>10. ASSUME NEW j \in 1 .. n - 1
         PROVE  Apart(last_control_ms_ - MaxTransit, last_control_ms_,
                      SentAt(j), lost_run + j)'
    <3>1. /\ j + 1 \in 1 + 1 .. n /\ (j + 1) - 1 = j /\ j \in Nat
          /\ lost_run' + j = j
      BY <1>1
    <3>2. Apart(u, u, SentAt(j + 1), j)
      BY <1>2, <1>3, <2>1, <2>4, <3>1 DEF ScheduleInv
    <3>3. Apart(lo, hi, SentAt(j + 1), j)
      BY <1>4, <2>6, <3>1, <3>2, ScheduleWidens
    <3>. QED
      BY <1>4, <2>9, <3>1, <3>3 DEF Apart, Lag, MostLate, Slots, Spread
  <2>. QED
    BY <2>8, <2>9, <2>10
<1>. QED
  BY <1>1, <1>4, <1>5 DEF ScheduleInv

LEMMA ScheduleInvariant == ASSUME ClockIsTicked PROVE Spec => []ScheduleInv
<1>1. Init => ScheduleInv
  BY DEF Init, HostOff, ScheduleInv
<1>2. ReportInv /\ TypeInv /\ NumbersInv /\ DueInv /\ ScheduleInv /\ [Next]_vars
        => ScheduleInv'
  <2> SUFFICES ASSUME ReportInv, TypeInv, NumbersInv, DueInv, ScheduleInv,
                      [Next]_vars
               PROVE  ScheduleInv'
    OBVIOUS
  <2>1. CASE Start
    <3>1. host_pc = "off" /\ UNCHANGED <<stops, wire, have_control_>>
      BY <2>1 DEF Start, HostStart, ctlVars, controllerVars, commandVars,
         boundVars
    <3>2. stops = 0 => Len(wire) = 0 /\ ~have_control_
      BY <3>1 DEF NumbersInv, NumbersFollow
    <3>3. 1 .. 0 = {}
      OBVIOUS
    <3>. QED
      BY <3>1, <3>2, <3>3 DEF ScheduleInv
  <2>2. CASE Stop
    <3>1. stops' # 0
      BY <2>2, NumberTypes DEF Stop
    <3>. QED
      BY <3>1 DEF ScheduleInv
  <2>. QED
    BY <2>1, <2>2, ScheduleQuiet, ScheduleSend, ScheduleLose, ScheduleDeliver
<1>. QED
  BY <1>1, <1>2, ReportInvariant, TypeInvariant, NumbersInvariant, DueInvariant,
     PTL DEF Spec

(* A program that runs and does not start over leaves the controller       *)
(* without a command for no longer than SilenceBound, so a watchdog longer *)
(* than that trips only when the program ends, stalls for more than a send *)
(* period, or the bus fails it more than MaxLost times in a row.           *)
THEOREM WatchdogIsPatient == ASSUME ClockIsTicked PROVE Spec => []NoNuisanceTrip
<1>1. ReportInv /\ TypeInv /\ NumbersInv /\ ScheduleInv => NoNuisanceTrip
  <2> SUFFICES ASSUME ReportInv, TypeInv, NumbersInv, ScheduleInv,
                      have_control_, stops = 0, MaxStall <= ControlPeriod
               PROVE  now - last_control_ms_ <= SilenceBound
    BY DEF NoNuisanceTrip
  <2>1. host_pc # "off"
    BY DEF NumbersInv, NumbersFollow
  <2>2. /\ MaxStall \in Nat /\ MaxTransit \in Nat /\ now \in Nat
        /\ loop_now \in Nat /\ t_next \in Nat /\ last_control_ms_ \in Nat
        /\ since_loop \in 0 .. MaxStall /\ loop_now + since_loop = now
        /\ lost_run \in 0 .. MaxLost /\ MaxLost \in Nat
    BY <2>1, ScheduleTypes, NumberTypes
  <2>3. /\ Slots(lost_run + 1) \in Nat /\ Slots(MaxLost + 1) \in Nat
        /\ Slots(lost_run + 1) <= Slots(MaxLost + 1)
    <3>1. lost_run + 1 \in Nat /\ MaxLost + 1 \in Nat /\ lost_run + 1 <= MaxLost + 1
      BY <2>2
    <3>. QED
      BY <3>1, SlotsCount
  <2>4. SilenceBound = Slots(MaxLost + 1) + 2 * MaxStall - 1 + MaxTransit
    BY DEF SilenceBound, Slots
  <2>5. now <= last_control_ms_ + Slots(lost_run + 1) + Spread + MaxTransit
    <3>1. CASE Len(wire) = 0
      <4>1. lost_run + Len(wire) + 1 = lost_run + 1
        BY <2>2, <3>1
      <4>2. OnTime(last_control_ms_ - MaxTransit, last_control_ms_, lost_run + 1)
        BY <2>1, <4>1 DEF ScheduleInv
      <4>3. NextBy <= last_control_ms_ + Slots(lost_run + 1) + Spread
        BY <4>2 DEF OnTime
      <4>4. NextBy \in Int /\ now <= NextBy
        BY <2>2 DEF NextBy, Later
      <4>. QED
        BY <2>2, <2>3, <4>3, <4>4 DEF Spread
    <3>2. CASE Len(wire) # 0
      <4>1. 1 \in 1 .. Len(wire)
        BY <3>2, WireHolds
      <4>2. Apart(last_control_ms_ - MaxTransit, last_control_ms_, SentAt(1),
                  lost_run + 1)
        BY <2>1, <4>1 DEF ScheduleInv
      <4>3. SentAt(1) <= last_control_ms_ + Slots(lost_run + 1) + Spread
        BY <4>2 DEF Apart
      <4>4. SentAt(1) \in Int /\ now <= SentAt(1) + MaxTransit
        BY <2>2, <4>1, WireHolds DEF SentAt
      <4>. QED
        BY <2>2, <2>3, <4>3, <4>4 DEF Spread
    <3>. QED
      BY <3>1, <3>2
  <2>. QED
    BY <2>2, <2>3, <2>4, <2>5 DEF Spread
<1>. QED
  BY <1>1, ReportInvariant, TypeInvariant, NumbersInvariant, ScheduleInvariant,
     PTL

(* A loss that the sequence number hides has tripped the watchdog before   *)
(* the next command is taken, if the watchdog is short enough for the      *)
(* sequence number, the send period, stalls and delays.                    *)
THEOREM HiddenLossIsNoticed ==
  ASSUME ClockIsTicked PROVE Spec => HiddenLossTripsWatchdog
<1>1. ReportInv /\ TypeInv /\ NumbersInv /\ ScheduleInv /\ [Next]_vars
        => [ /\ Deliver
             /\ have_control_ /\ lost_run > 0 /\ stops = 0 /\ ~seq_gap_'
             /\ WatchdogTimeout <= HiddenLossTime
             => WatchdogTripped(now) ]_vars
  <2> SUFFICES ASSUME ReportInv, TypeInv, NumbersInv, ScheduleInv, Deliver,
                      have_control_, lost_run > 0, stops = 0, ~seq_gap_',
                      WatchdogTimeout <= HiddenLossTime
               PROVE  WatchdogTripped(now)
    OBVIOUS
  <2>1. host_pc # "off" /\ have_seq_
    BY DEF NumbersInv, NumbersFollow
  <2>2. SeqDelta(last_seq_, wire[1].frame.seq) = 1
    BY <2>1, DeliverAccepts DEF Accept, SeqGap
  <2>3. SeqMod \in Nat /\ lost_run \in Nat /\ lost_run >= SeqMod
    BY <2>2, DistanceIsLoss, NumberTypes
  <2>4. /\ MaxStall \in Nat /\ MaxTransit \in Nat /\ now \in Nat
        /\ last_control_ms_ \in Nat /\ last_control_ms_ <= now
        /\ MostLate \in Nat /\ Lag \in Nat
        /\ 1 \in 1 .. Len(wire) /\ SentAt(1) \in Int /\ SentAt(1) <= now
    <3>1. 1 \in 1 .. Len(wire)
      BY WireShrinks, WireHolds
    <3>2. wire[1].age \in Nat
      BY <3>1, WireHolds
    <3>. QED
      BY <3>1, <3>2, ScheduleTypes DEF SentAt
  <2>5. /\ Slots(SeqMod + 1) \in Nat /\ Slots(lost_run + 1) \in Nat
        /\ Slots(SeqMod + 1) <= Slots(lost_run + 1)
    <3>1. SeqMod + 1 \in Nat /\ lost_run + 1 \in Nat /\ SeqMod + 1 <= lost_run + 1
      BY <2>3
    <3>. QED
      BY <3>1, SlotsCount
  <2>6. Apart(last_control_ms_ - MaxTransit, last_control_ms_, SentAt(1),
              lost_run + 1)
    BY <2>1, <2>4 DEF ScheduleInv
  <2>7. last_control_ms_ - MaxTransit - Lag + Slots(lost_run + 1) <= SentAt(1)
    BY <2>6 DEF Apart
  <2>8. HiddenLossTime = Slots(SeqMod + 1) - MostLate - MaxStall - MaxTransit
    BY DEF HiddenLossTime, Slots
  <2>9. Lag = MostLate + MaxStall
    BY DEF Lag
  <2>10. now - last_control_ms_ >= WatchdogTimeout
    BY <2>4, <2>5, <2>7, <2>8, <2>9, PathMagnitudes
  <2>11. Elapsed(now, last_control_ms_) = now - last_control_ms_
    <3>1. now \in 0 .. W - 1 /\ W \in Nat
      BY PathMagnitudes DEF ReportInv, PathTypeOK
    <3>. QED
      BY <2>4, <3>1 DEF Elapsed
  <2>. QED
    BY <2>4, <2>10, <2>11, PathMagnitudes DEF WatchdogTripped
<1>. QED
  BY <1>1, ReportInvariant, TypeInvariant, NumbersInvariant, ScheduleInvariant,
     PTL DEF Spec, HiddenLossTripsWatchdog

(***************************************************************************)
(* The controller at the end of the link                                   *)
(***************************************************************************)

(* The Jetson, its base station and the bus are one of the environments    *)
(* that ControllerTiming allows the controller.                            *)
Bus == INSTANCE ControllerTimingProofs WITH
         Frames <- FrameType, MaxSilence <- MaxTime,
         silence <- IF have_control_ THEN now - last_control_ms_ ELSE 0,
         quiet <- IF ever_degraded_ THEN now - last_degraded_ms_ ELSE 0

(* A complaint is not of the future.                                       *)
ComplaintIsPast == ever_degraded_ => last_degraded_ms_ <= now

BusInv == ReportInv /\ TypeInv /\ ComplaintIsPast

LEMMA BusTypes ==
  ASSUME BusInv
  PROVE  /\ now \in Nat /\ now < W /\ now <= MaxTime
         /\ last_control_ms_ \in Nat /\ last_control_ms_ <= now
         /\ last_degraded_ms_ \in Nat /\ ever_degraded_ \in BOOLEAN
<1>1. now \in 0 .. MaxTime /\ MaxTime \in Nat /\ MaxTime < W /\ W \in Nat
  BY RoverLinkAssumption, ClockAssumption DEF BusInv, ReportInv, PathTypeOK
<1>2. last_control_ms_ \in Nat /\ last_control_ms_ <= now
  BY DEF BusInv, ReportInv, PathTypeOK
<1>3. last_degraded_ms_ \in Nat
  <2>1. last_degraded_ms_ \in 0 .. W - 1
    BY DEF BusInv, TypeInv, TypeOK, ControllerTypeOK, Stamp
  <2>. QED
    BY <1>1, <2>1
<1>4. ever_degraded_ \in BOOLEAN
  BY DEF BusInv, TypeInv, TypeOK, ControllerTypeOK
<1>. QED
  BY <1>1, <1>2, <1>3, <1>4

(* Only time and what is delivered moves the controller.                   *)
LEMMA BusSteps ==
  ASSUME [Next]_vars, ~Tick, ~Deliver
  PROVE  UNCHANGED <<now, controllerVars>>
BY DEF Next, vars, ctlVars, Start, Stop, BaseStation, Loop, Send, Receive,
   Arrive, Lose, Ended

LEMMA BusInvariant == ASSUME ClockIsTicked PROVE Spec => []BusInv
<1>1. Init => ComplaintIsPast
  BY DEF Init, BootController, ComplaintIsPast
<1>2. BusInv /\ [Next]_vars => ComplaintIsPast'
  <2> SUFFICES ASSUME BusInv, [Next]_vars PROVE ComplaintIsPast'
    OBVIOUS
  <2>1. CASE Tick
    BY <2>1, BusTypes DEF Tick, BusInv, ComplaintIsPast, controllerVars,
       linkVars
  <2>2. CASE Deliver
    <3>1. Accept(wire[1].frame, 0) /\ now' = now
      BY <2>2, DeliverAccepts DEF BusInv
    <3>2. /\ ever_degraded_' = (SeqGap(wire[1].frame) \/ ever_degraded_)
          /\ last_degraded_ms_' = IF SeqGap(wire[1].frame)
                                    THEN now ELSE last_degraded_ms_
      BY <3>1, Zenon DEF Accept
    <3>3. now \in Nat /\ (ever_degraded_ => last_degraded_ms_ <= now)
      BY BusTypes DEF BusInv, ComplaintIsPast
    <3>4. CASE SeqGap(wire[1].frame)
      BY <3>1, <3>2, <3>3, <3>4 DEF ComplaintIsPast
    <3>5. CASE ~SeqGap(wire[1].frame)
      <4>1. ever_degraded_' = ever_degraded_
        BY <3>2, <3>5, BusTypes, Zenon
      <4>. QED
        BY <3>1, <3>2, <3>3, <3>5, <4>1 DEF ComplaintIsPast
    <3>. QED
      BY <3>4, <3>5
  <2>3. CASE ~Tick /\ ~Deliver
    BY <2>3, BusSteps DEF BusInv, ComplaintIsPast, controllerVars, linkVars
  <2>. QED
    BY <2>1, <2>2, <2>3
<1>. QED
  BY <1>1, <1>2, ReportInvariant, TypeInvariant, PTL DEF Spec, BusInv

LEMMA BusStarts == Init => Bus!Init
BY DEF Init, BootController, Bus!Init, Bus!BootController, Bus!BootControl,
   BootControl, Bus!NoCounts, NoCounts

LEMMA BusTicks ==
  ASSUME BusInv, Tick
  PROVE  Bus!Tick
<1>1. /\ now < MaxTime /\ now' = now + 1 /\ UNCHANGED controllerVars
      /\ UNCHANGED <<have_control_, last_control_ms_, ever_degraded_,
                     last_degraded_ms_>>
  BY DEF Tick, controllerVars, commandVars, linkVars
<1>2. /\ now \in Nat /\ now + 1 < W /\ MaxTime \in Nat /\ W \in Nat
      /\ last_control_ms_ \in Nat /\ last_control_ms_ <= now
      /\ last_degraded_ms_ \in Nat
      /\ ever_degraded_ => last_degraded_ms_ <= now
  BY <1>1, BusTypes, RoverLinkAssumption, ClockAssumption
     DEF BusInv, ComplaintIsPast
<1>3. Bus!Advance(now, 1) = now + 1
  BY <1>2 DEF Bus!Advance
<1>4. ever_degraded_ =>
        Bus!AgeBy(now - last_degraded_ms_, 1) = now + 1 - last_degraded_ms_
  BY <1>2 DEF Bus!AgeBy
<1>. QED
  BY <1>1, <1>2, <1>3, <1>4 DEF Bus!Tick, Bus!controllerVars,
     Bus!commandVars, Bus!linkVars, controllerVars, commandVars, linkVars

LEMMA BusAccepts ==
  ASSUME ClockIsTicked, BusInv, Deliver
  PROVE  Bus!AcceptAny
<1>. DEFINE f == wire[1].frame
<1>1. /\ 1 \in DOMAIN wire /\ wire[1] \in Item
      /\ Accept(f, 0) /\ now' = now
  BY DeliverAccepts DEF BusInv
<1>2. f \in FrameType
  BY <1>1, ReportsAreFrames DEF Item
<1>. HIDE DEF f
<1>3. Bus!Accept(f, 0)
  BY <1>1 DEF Accept, Bus!Accept, SeqDelta, Bus!SeqDelta, SeqGap, Bus!SeqGap,
     Advance, Bus!Advance, DecodeControl, Bus!DecodeControl, Count, Bus!Count
<1>4. /\ have_control_' = TRUE /\ last_control_ms_' = now'
      /\ ever_degraded_' = (SeqGap(f) \/ ever_degraded_)
      /\ last_degraded_ms_' = IF SeqGap(f) THEN now ELSE last_degraded_ms_
  BY <1>1, Zenon DEF Accept
<1>5. now \in Nat /\ now < W /\ last_degraded_ms_ \in Nat /\ W \in Nat
      /\ (ever_degraded_ => last_degraded_ms_ <= now)
  BY BusTypes, ClockAssumption DEF BusInv, ComplaintIsPast
<1>6. ever_degraded_ =>
        Bus!AgeBy(now - last_degraded_ms_, 0) = now - last_degraded_ms_
  BY <1>5 DEF Bus!AgeBy
<1>7. SeqGap(f) <=> Bus!SeqGap(f)
  BY DEF SeqGap, Bus!SeqGap, SeqDelta, Bus!SeqDelta
<1>8. Bus!Accepted(f, 0)
  <2>1. (IF have_control_' THEN now' - last_control_ms_' ELSE 0) = 0
    BY <1>1, <1>4, <1>5
  <2>2. CASE Bus!SeqGap(f)
    <3>1. (IF ever_degraded_' THEN now' - last_degraded_ms_' ELSE 0) = 0
      BY <1>1, <1>4, <1>5, <1>7, <2>2
    <3>. QED
      BY <1>3, <2>1, <2>2, <3>1 DEF Bus!Accepted
  <2>3. CASE ~Bus!SeqGap(f)
    <3>1. /\ ever_degraded_' = ever_degraded_
          /\ last_degraded_ms_' = last_degraded_ms_
      BY <1>4, <1>7, <2>3, BusTypes, Zenon
    <3>. QED
      BY <1>1, <1>3, <1>6, <2>1, <2>3, <3>1 DEF Bus!Accepted
  <2>. QED
    BY <2>2, <2>3
<1>9. 0 \in 0 .. ReadSkew
  BY ControllerAssumption
<1>. QED
  BY <1>2, <1>8, <1>9 DEF Bus!AcceptAny

(* Every step of the link is a step of the controller on some bus, or one  *)
(* that the controller does not see.                                       *)
THEOREM LinkIsABus == ASSUME ClockIsTicked PROVE Spec => Bus!Spec
<1>1. BusInv /\ [Next]_vars => [Bus!Next]_(Bus!vars)
  <2> SUFFICES ASSUME BusInv, [Next]_vars PROVE [Bus!Next]_(Bus!vars)
    OBVIOUS
  <2>1. CASE Tick
    BY <2>1, BusTicks DEF Bus!Next
  <2>2. CASE Deliver
    BY <2>2, BusAccepts DEF Bus!Next
  <2>3. CASE ~Tick /\ ~Deliver
    BY <2>3, BusSteps DEF Bus!vars, Bus!controllerVars, Bus!commandVars,
       Bus!linkVars, controllerVars, commandVars, linkVars
  <2>. QED
    BY <2>1, <2>2, <2>3
<1>. QED
  BY <1>1, BusStarts, BusInvariant, PTL DEF Spec, Bus!Spec

(* The link gives ControllerTiming the constants it asks for.              *)
LEMMA BusAssumptions ==
  /\ MaxTime \in Nat
  /\ WatchdogTimeout \in Nat \ {0} /\ DegradedHold \in Nat
  /\ SeqMod \in Nat \ {0} /\ CounterMod \in Nat \ {0}
  /\ ReadSkew \in Nat /\ ReadSkew < W
  /\ CmdAgeMax \in Nat /\ ZeroCmd \in Commands
  /\ FrameType \subseteq Bus!FrameType
  /\ W \in Nat /\ W >= 2
<1>1. FrameType = Bus!FrameType
  BY DEF FrameType, Bus!FrameType, ControlMsg, Bus!ControlMsg, Modes,
     Bus!Modes, Indicators, Bus!Indicators, Defects, Bus!Defects
<1>. QED
  BY <1>1, RoverLinkAssumption, ControllerAssumption, ClockAssumption

(* What ControllerTiming promises holds end to end: with no command taken  *)
(* in time the rover is failed safe, nothing but a delivered frame         *)
(* restores anything, and to a bystander rover, link and Jetson together   *)
(* are a dead man's switch.                                                *)
THEOREM LinkIsADeadman ==
  ASSUME ClockIsTicked, WatchdogTimeout < W
  PROVE  Spec => /\ []Bus!SilenceFailsSafe
                 /\ Bus!OnlyAFrameRestores
                 /\ Bus!ImplementsDeadman
<1>1. Bus!NoFullTurn
  BY RoverLinkAssumption DEF Bus!NoFullTurn
<1>. QED
  BY <1>1, BusAssumptions, LinkIsABus, Bus!SilenceIsSafe, Bus!OnlyFramesRestore,
     Bus!ControllerIsADeadman, PTL

(* The link is never called OK over a standing gap or CRC error, whatever  *)
(* the Jetson, the bus and the base station do.                            *)
THEOREM LinkIsCleanEndToEnd ==
  ASSUME ClockIsTicked, WatchdogTimeout < W, DegradedHold >= WatchdogTimeout
  PROVE  Spec => []Bus!LinkOkIsClean
<1>1. Bus!NoFullTurn
  BY RoverLinkAssumption DEF Bus!NoFullTurn
<1>2. Bus!HoldOutlasts
  BY ControllerAssumption, ClockAssumption
     DEF Bus!HoldOutlasts, ClockIsTicked
<1>. QED
  BY <1>1, <1>2, BusAssumptions, LinkIsABus, Bus!LinkIsClean, PTL
=============================================================================
