----------------------------- MODULE JetsonHost -----------------------------
(***************************************************************************)
(* The Jetson program (host/jetson_test.py, host/c2_link.py): run() polls  *)
(* the base-station link, sends CONTROL frames at a fixed rate and drains  *)
(* the telemetry that has arrived.  A step of the loop is what it does     *)
(* between two readings of its clock, time.monotonic(), which here is the  *)
(* common clock of the run and never wraps.  What the snapshots are made   *)
(* of is module TelemetryAssembler; printing is left out.                  *)
(***************************************************************************)
EXTENDS Millis, Sequences

CONSTANTS
  ControlPeriod,  \* 1 / CONTROL_RATE_HZ, 50 ms
  C2Timeout,      \* C2_TIMEOUT_S, 1000 ms
  LinkTimeout,    \* LINK_TIMEOUT_S, 500 ms
  TxSeqMod,       \* values of _tx_seq, 256
  Never           \* Python's None, for a time

ASSUME HostAssumption ==
  /\ ControlPeriod \in Nat \ {0}
  /\ C2Timeout \in Nat \ {0}
  /\ LinkTimeout \in Nat
  /\ TxSeqMod \in Nat \ {0}
  /\ Never \notin Nat

VARIABLES
  host_pc,          \* where run() stands; "off" while no process runs
  loop_now,         \* run()'s local now
  t_next,
  tx_seq,           \* _tx_seq
  last_rx_time,
  last_C2_time_s,
  have_connection,
  connected,        \* SimC2Link: the base station is heard
  inbox             \* kinds of the frames recv() will return

monitorVars == <<have_connection, last_C2_time_s>>
senderVars == <<t_next, tx_seq>>
hostVars == <<host_pc, loop_now, senderVars, last_rx_time, monitorVars,
              connected, inbox>>

(* Telemetry, telemetry that does not decode, and other traffic.           *)
Kinds == {"TELEM", "TELEM_BAD", "OTHER"}

HostTypeOK ==
  /\ host_pc \in {"off", "top", "send", "poll"}
  /\ {loop_now, t_next, last_C2_time_s} \subseteq Nat
  /\ tx_seq \in 0 .. TxSeqMod - 1
  /\ last_rx_time \in Nat \cup {Never}
  /\ have_connection \in BOOLEAN
  /\ connected \in BOOLEAN
  /\ inbox \in Seq(Kinds)

HostOff ==
  /\ host_pc = "off"
  /\ loop_now = 0
  /\ t_next = 0
  /\ tx_seq = 0
  /\ last_rx_time = Never
  /\ last_C2_time_s = 0
  /\ have_connection = FALSE
  /\ connected = FALSE
  /\ inbox = <<>>

(* A process starts: a new JetsonLink, a new C2Monitor, a first frame due  *)
(* at once.                                                                *)
HostStart ==
  /\ host_pc = "off"
  /\ host_pc' = "top"
  /\ loop_now' = now
  /\ t_next' = now
  /\ tx_seq' = 0
  /\ last_rx_time' = Never
  /\ last_C2_time_s' = 0
  /\ have_connection' = FALSE
  /\ inbox' = <<>>
  /\ UNCHANGED connected

(* It ends, its duration over, or is killed at any point.                  *)
HostStop ==
  /\ host_pc # "off"
  /\ host_pc' = "off"
  /\ UNCHANGED <<loop_now, senderVars, last_rx_time, monitorVars, connected,
                 inbox>>

(* The base station comes within reach or leaves it.                       *)
Connect == ~connected /\ connected' = TRUE
Disconnect == connected /\ connected' = FALSE

(* The loop reads its clock.                                               *)
LoopTop ==
  /\ host_pc = "top"
  /\ loop_now' = now
  /\ host_pc' = IF now >= t_next THEN "send" ELSE "poll"
  /\ UNCHANGED <<senderVars, last_rx_time, monitorVars, connected, inbox>>

(* C2Monitor.bool_no_connection(loop_now).                                 *)
NoConnectionEver(have, last) == ~have  \* mutant: never times out
NoConnection(have, last) == ~have \/ loop_now - last >= C2Timeout

(* poll_c2_lost(): the verdict that goes into the frame.                   *)
C2LostStale == NoConnection(have_connection, last_C2_time_s)  \* mutant: asks first
C2Lost == NoConnection(have_connection', last_C2_time_s')

(* t_next moves on by a period, or to a period from now when even that is  *)
(* more than a period in the past.                                         *)
NextSendFromNow == loop_now + ControlPeriod  \* mutant: drifts
NextSend ==
  LET step == t_next + ControlPeriod IN
  IF loop_now - step > ControlPeriod THEN loop_now + ControlPeriod ELSE step

(* The 8-bit number of the next frame.                                     *)
NextTxSeqWide == tx_seq + 1  \* mutant: not masked
NextTxSeq == (tx_seq + 1) % TxSeqMod

(* poll_c2_lost() dates what it hears by the clock reading of the loop,    *)
(* and send_control() numbers the frame.  The caller puts it on the bus.   *)
SendControl ==
  /\ host_pc = "send"
  /\ host_pc' = "poll"
  /\ have_connection' = (have_connection \/ connected)
  /\ last_C2_time_s' = IF connected THEN loop_now ELSE last_C2_time_s
  /\ tx_seq' = NextTxSeq
  /\ t_next' = NextSend
  /\ UNCHANGED <<loop_now, last_rx_time, connected, inbox>>

(* feed() answers true for every frame with a telemetry id, decoded or not.*)
SignOfLifeLast ==  \* mutant: looks at the last frame alone
  inbox # <<>> /\ inbox[Len(inbox)] # "OTHER"
SignOfLife == \E i \in DOMAIN inbox : inbox[i] # "OTHER"

(* poll(): a sign of life is dated when it is read.                        *)
Poll ==
  /\ host_pc = "poll"
  /\ host_pc' = "top"
  /\ last_rx_time' = IF SignOfLife THEN now ELSE last_rx_time
  /\ inbox' = <<>>
  /\ UNCHANGED <<loop_now, senderVars, monitorVars, connected>>

(* JetsonLink.link_up.                                                     *)
LinkUpLate ==  \* mutant: still up in the millisecond of the timeout
  last_rx_time # Never /\ now - last_rx_time <= LinkTimeout
LinkUp == last_rx_time # Never /\ now - last_rx_time < LinkTimeout
=============================================================================
