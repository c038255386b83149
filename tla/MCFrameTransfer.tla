-------------------------- MODULE MCFrameTransfer ---------------------------
(* FrameTransfer with the golden vectors and the ends of every field; one  *)
(* or two messages of each kind are damaged, for what a CRC notices does   *)
(* not depend on the message.                                              *)
EXTENDS FrameTransfer, GoldenVectors

ASSUME CrcIsPinned ==
  /\ Xor(Crc8Update(Ones, KnownAnswerInput), Ones) = KnownAnswer
  /\ Xor(PyCrc8Update(Ones, KnownAnswerInput), Ones) = KnownAnswer

MCFragile ==
  [CONTROL |-> {Control(-1, 0, 0, {"stop", "abort"}, 0),
                Control(1000, -1000, 1, {"abort", "return", "c2_lost"}, 4)},
   TELEM_DRIVE_L |-> {[enc_left |-> Int32Min, steer_fb |-> -32768]},
   TELEM_DRIVE_R |-> {[enc_right |-> -1, cmd_age_ms |-> 65535]},
   TELEM_POWER |-> {[current_ca |-> -32768, voltage_cv |-> 32767,
                     fault_status |-> FaultStatus(DOMAIN FaultBit)]},
   TELEM_STATE |-> {[mode |-> 2, jetson_link |-> 3, c2_link |-> 1,
                     controller_health |-> 3, indicator_state |-> 4,
                     reserved |-> 0]}]

MCMessages ==
  [Golden EXCEPT
     !.CONTROL = @ \cup MCFragile.CONTROL,
     !.TELEM_DRIVE_L = @ \cup MCFragile.TELEM_DRIVE_L,
     !.TELEM_DRIVE_R = @ \cup MCFragile.TELEM_DRIVE_R,
     !.TELEM_POWER = @ \cup MCFragile.TELEM_POWER,
     !.TELEM_STATE = @ \cup MCFragile.TELEM_STATE]

MCBits == 0 .. 63
=============================================================================
