--------------------------- MODULE GoldenVectors ----------------------------
(***************************************************************************)
(* The messages whose bytes tools/golden_vectors.cpp prints for the Python *)
(* tests to compare, and its tables of the validation predicates, here as  *)
(* CONTROL messages that differ in the one field the table is about.       *)
(***************************************************************************)
EXTENDS FrameCodec

(* CRC8: the known answer.                                                 *)
KnownAnswerInput == [k \in 1 .. 9 |-> ToByte(48 + k)]
KnownAnswer == ToByte(75)

(* A message from its fields: drive, steer, mode, the set of flags raised  *)
(* and the indicator.                                                      *)
Control(drive, steer, mode, flags, ind) ==
  [drive_cmd |-> drive, steer_cmd |-> steer, mode |-> mode,
   stop |-> "stop" \in flags, autonomy_abort |-> "abort" \in flags,
   return_request |-> "return" \in flags, c2_lost |-> "c2_lost" \in flags,
   indicator_request |-> ind]

(* MODE, INDICATOR (as far as its three bits go) and RANGE.                *)
ModeTable == {Control(0, 0, m, {}, 0) : m \in 0 .. 255}
IndicatorTable == {Control(0, 0, 1, {}, i) : i \in 0 .. 7}
RangeCases == {-32768, -32767, -1002, -1001, -1000, -999, -1, 0, 1, 999, 1000,
               1001, 1002, 32766, 32767}
RangeTable == {Control(v, 0, 1, {}, 0) : v \in RangeCases}
                \cup {Control(0, v, 1, {}, 0) : v \in RangeCases}

Controls ==
  {Control(0, 0, 0, {"stop"}, 0),
   Control(500, -200, 1, {}, 1),
   Control(1000, -1000, 2, {}, 2),
   Control(-1000, 1000, 1, {"stop", "abort", "return", "c2_lost"}, 3),
   Control(-999, 999, 1, {"return"}, 4),
   Control(-846, 170, 2, {"abort", "c2_lost"}, 0),
   Control(250, -50, 2, {"c2_lost"}, 2),
   Control(0, 0, 1, {"c2_lost"}, 1)}

(* 2^31, the fifth, is wrapped to Int32Min before it is encoded.           *)
DriveLs ==
  {[enc_left |-> v[1], steer_fb |-> v[2]] :
     v \in {<<0, 0>>, <<123456, -1000>>, <<Int32Max, 1000>>,
            <<Int32Min, -1>>, <<Int32Min, 0>>}}

DriveRs ==
  {[enc_right |-> v[1], cmd_age_ms |-> v[2]] :
     v \in {<<0, 0>>, <<-123456, 400>>, <<Int32Max, 65534>>, <<0, 65535>>}}

Powers ==
  {[current_ca |-> v[1], voltage_cv |-> v[2], fault_status |-> v[3]] :
     v \in {<<0, 0, 0>>, <<-2500, 2400, FaultStatus({"OVER_CURRENT"})>>,
            <<32767, -32768, 65535>>,
            <<-10000, 1200,
              FaultStatus({"COMM_TIMEOUT", "SEQ_GAP", "CRC_ERROR"})>>}}

States ==
  {[mode |-> v[1], jetson_link |-> v[2], c2_link |-> v[3],
    controller_health |-> v[4], indicator_state |-> v[5], reserved |-> 0] :
     v \in {<<0, 2, 3, 3, 0>>, <<1, 0, 0, 0, 1>>, <<2, 1, 2, 1, 2>>,
            <<2, 0, 3, 2, 4>>}}

Golden ==
  [CONTROL |-> Controls \cup ModeTable \cup IndicatorTable \cup RangeTable,
   TELEM_DRIVE_L |-> DriveLs,
   TELEM_DRIVE_R |-> DriveRs,
   TELEM_POWER |-> Powers,
   TELEM_STATE |-> States]
=============================================================================
