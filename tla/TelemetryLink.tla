---------------------------- MODULE TelemetryLink ---------------------------
(***************************************************************************)
(* The telemetry path end to end: sendTelemetry() of the firmware stamps   *)
(* the four frames of a cycle with telemetry_seq_ and writes them in       *)
(* order; the bus delivers in order but loses or corrupts frames and may   *)
(* deliver one twice; the assembler collects what arrives.  A frame        *)
(* carries the cycle it was measured in, which the code does not send and  *)
(* the properties compare.                                                 *)
(***************************************************************************)
EXTENDS TelemetryAssembler, Sequences

CONSTANTS
  TelemetrySeqMod,  \* values of the 8-bit sequence number, 256
  Order,            \* the order sendTelemetry() writes the frames in
  MaxCycles,        \* bound: telemetry cycles sent
  MaxLag,           \* environment: cycles in a row of which nothing arrives
  MaxRepeats,       \* bound: frames the bus delivers twice
  MaxRestarts       \* bound: resets of the controller

ASSUME LinkAssumption ==
  /\ TelemetrySeqMod \in Nat \ {0}
  /\ MaxCycles \in Nat
  /\ MaxLag \in Nat \ {0}
  /\ MaxRepeats \in Nat
  /\ MaxRestarts \in Nat
  /\ Order \in Seq(TelemIds) \ {<<>>}
  /\ \A i, j \in DOMAIN Order : Order[i] = Order[j] => i = j
  /\ None \notin Nat

VARIABLES
  telemetry_seq_,
  stage,     \* frames of the current cycle already written, Len(Order) at rest
  cycle,     \* history: cycles started so far
  got,       \* history: ids of the current cycle that have arrived
  lag,       \* history: cycles started since the one partial_seq came from
  complete,  \* history: past cycles all of whose frames arrived
  broken,    \* history: past cycles of which some frames arrived, not all
  repeats, restarts

senderVars == <<telemetry_seq_, stage, cycle, restarts>>
arrivalVars == <<got, complete, broken>>
vars == <<assemblerVars, senderVars, arrivalVars, lag, repeats>>

TypeOK ==
  /\ DOMAIN partial \subseteq TelemIds
  /\ \A i \in DOMAIN partial : partial[i] \in Nat
  /\ partial_seq \in 0 .. TelemetrySeqMod - 1 \cup {None}
  /\ snapshot = None \/ snapshot \in [TelemIds -> Nat]
  /\ snapshot_seq \in 0 .. TelemetrySeqMod - 1 \cup {None}
  /\ complete_count \in Nat
  /\ torn_count \in Nat
  /\ telemetry_seq_ \in 0 .. TelemetrySeqMod - 1
  /\ stage \in 0 .. Len(Order)
  /\ cycle \in Nat
  /\ got \subseteq TelemIds
  /\ lag \in Nat
  /\ complete \in Nat
  /\ broken \in Nat
  /\ repeats \in Nat
  /\ restarts \in Nat

AtRest == stage = Len(Order)

Init ==
  /\ BootAssembler
  /\ telemetry_seq_ = 0
  /\ stage = Len(Order)
  /\ cycle = 0
  /\ got = {}
  /\ lag = 0
  /\ complete = 0
  /\ broken = 0
  /\ repeats = 0
  /\ restarts = 0

(* The cycle that ends is judged by what arrived of it.                    *)
CloseCycle ==
  /\ complete' = IF got = TelemIds THEN complete + 1 ELSE complete
  /\ broken' = IF got \notin {{}, TelemIds} THEN broken + 1 ELSE broken
  /\ got' = {}

(* A cycle falls due: telemetryDue() moves the sequence number on.         *)
StartCycle ==
  /\ AtRest
  /\ cycle < MaxCycles
  /\ telemetry_seq_' = IF telemetry_seq_ = TelemetrySeqMod - 1
                         THEN 0 ELSE telemetry_seq_ + 1
  /\ stage' = 0
  /\ cycle' = cycle + 1
  /\ lag' = IF partial_seq = None THEN 0 ELSE lag + 1
  /\ CloseCycle
  /\ UNCHANGED <<assemblerVars, repeats, restarts>>

(* The next frame of the cycle is written and arrives.                     *)
Deliver ==
  /\ ~AtRest
  /\ stage' = stage + 1
  /\ Feed(Order[stage'], telemetry_seq_, cycle)
  /\ got' = got \cup {Order[stage']}
  /\ lag' = 0
  /\ UNCHANGED <<telemetry_seq_, cycle, complete, broken, repeats, restarts>>

(* The next frame of the cycle is lost on the bus or arrives damaged; the  *)
(* environment promises never to take MaxLag cycles and one more whole.    *)
Lose ==
  /\ ~AtRest
  /\ lag < MaxLag \/ stage + 1 < Len(Order)
  /\ stage' = stage + 1
  /\ FeedRefused
  /\ UNCHANGED <<telemetry_seq_, cycle, arrivalVars, lag, repeats, restarts>>

(* The last frame written arrives a second time: CAN retransmits a frame   *)
(* whose end one node saw damaged.                                         *)
Repeat ==
  /\ repeats < MaxRepeats
  /\ stage > 0
  /\ Order[stage] \in got
  /\ repeats' = repeats + 1
  /\ Feed(Order[stage], telemetry_seq_, cycle)
  /\ UNCHANGED <<senderVars, arrivalVars, lag>>

(* The hardware watchdog resets the controller, between cycles or in one;  *)
(* its sequence numbers start over.                                        *)
Restart ==
  /\ restarts < MaxRestarts
  /\ restarts' = restarts + 1
  /\ telemetry_seq_' = 0
  /\ stage' = Len(Order)
  /\ CloseCycle
  /\ UNCHANGED <<assemblerVars, cycle, lag, repeats>>

(* The bounded run is over.                                                *)
Ended == AtRest /\ cycle = MaxCycles /\ UNCHANGED vars

Next == StartCycle \/ Deliver \/ Lose \/ Repeat \/ Restart \/ Ended

Spec == Init /\ [][Next]_vars

(***************************************************************************)
(* Properties                                                              *)
(***************************************************************************)

(* A published snapshot mixes no two cycles of one uptime of the           *)
(* controller, whatever is lost or comes twice: every reset, whose         *)
(* sequence numbers start over, can tear it only once more.                *)
TornOncePerRestart ==
  snapshot # None =>
    Cardinality({snapshot[i] : i \in TelemIds}) <= restarts + 1

(* The counters are exact while nothing repeats or restarts: a cycle is    *)
(* counted complete when its last frame arrives, and torn when a frame of  *)
(* a later cycle shows that it will not be.                                *)
CountsAreExact ==
  repeats = 0 /\ restarts = 0 =>
    /\ complete_count = complete + (IF got = TelemIds THEN 1 ELSE 0)
    /\ torn_count + (IF partial # Empty /\ ~IsFull(partial) /\ got = {}
                       THEN 1 ELSE 0) = broken

(* jetson_test.py:43 "All four frames of a cycle carry the SAME sequence   *)
(* number, which is how a coherent snapshot is told from one torn across   *)
(* two cycles."                                                            *)
SnapshotsAreCoherent ==
  snapshot # None => \A i, j \in TelemIds : snapshot[i] = snapshot[j]
=============================================================================
