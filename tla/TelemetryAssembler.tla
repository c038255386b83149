------------------------- MODULE TelemetryAssembler -------------------------
(***************************************************************************)
(* class TelemetryAssembler (host/jetson_test.py): the Jetson collects the *)
(* four telemetry frames that carry one sequence number into one snapshot. *)
(* frames_by_id and decode_errors, printed when the program ends, are left *)
(* out.                                                                    *)
(***************************************************************************)
EXTENDS Naturals, FiniteSets

CONSTANTS
  TelemIds,  \* rp.TELEM_IDS: DRIVE_L, DRIVE_R, POWER, STATE
  None       \* Python's None

ASSUME AssemblerAssumption == IsFiniteSet(TelemIds) /\ TelemIds # {}

VARIABLES
  partial,         \* decoded frames of the sequence number being collected
  partial_seq,
  snapshot,        \* the last complete set
  snapshot_seq,
  complete_count,
  torn_count

assemblerVars == <<partial, partial_seq, snapshot, snapshot_seq,
                   complete_count, torn_count>>

(* No frame collected: the empty dictionary.                               *)
Empty == [i \in {} |-> None]

BootAssembler ==
  /\ partial = Empty
  /\ partial_seq = None
  /\ snapshot = None
  /\ snapshot_seq = None
  /\ complete_count = 0
  /\ torn_count = 0

(* partial holds a frame of every id.                                      *)
IsFullEarly(p) ==  \* mutant: one frame short
  Cardinality(DOMAIN p) = Cardinality(TelemIds) - 1
IsFull(p) == DOMAIN p = TelemIds

(* Another sequence number starts another cycle...                         *)
FreshOnce(seq) == partial_seq = None  \* mutant: starts one cycle only
Fresh(seq) == partial_seq = None \/ seq # partial_seq

(* ... and the one it replaces is torn unless it was complete.             *)
TornAlways(seq) == Fresh(seq) /\ partial_seq # None  \* mutant
Torn(seq) == Fresh(seq) /\ partial_seq # None /\ ~IsFull(partial)

(* feed(): a telemetry frame that decodes, with what it carries.           *)
Feed(id, seq, data) ==
  LET kept == IF Fresh(seq) THEN Empty ELSE partial
      p == [i \in DOMAIN kept \cup {id} |-> IF i = id THEN data ELSE kept[i]]
  IN
  /\ partial' = p
  /\ partial_seq' = seq
  /\ torn_count' = IF Torn(seq) THEN torn_count + 1 ELSE torn_count
  /\ snapshot' = IF IsFull(p) THEN p ELSE snapshot
  /\ snapshot_seq' = IF IsFull(p) THEN seq ELSE snapshot_seq
  /\ complete_count' = IF IsFull(p) THEN complete_count + 1
                                    ELSE complete_count

(* feed(): a frame of another id, or one that does not decode.             *)
FeedRefused == UNCHANGED assemblerVars
=============================================================================
