----------------------------- MODULE FrameCodec -----------------------------
(***************************************************************************)
(* The bytes of the five CAN messages in both languages, C++               *)
(* (firmware/src/rover_protocol.cpp) and Python (host/rover_protocol.py):  *)
(* the layout of the fields, which the two write alike, and the CRC and    *)
(* envelope of each, with the prefix Py for Python.  A byte is the set of  *)
(* its bits that are 1, so exclusive or is the symmetric difference.       *)
(***************************************************************************)
EXTENDS Integers, SequencesExt

Byte == SUBSET (0 .. 7)

(***************************************************************************)
(* Numbers and bytes                                                       *)
(***************************************************************************)

(* The bit i of a byte weighs 2^i.                                         *)
Weight == <<1, 2, 4, 8, 16, 32, 64, 128>>
BitAt(byte, i) == IF i \in byte THEN Weight[i + 1] ELSE 0

(* The low byte of a number, negative ones in two's complement, and back.  *)
ToByte(v) == {i \in 0 .. 7 : (v \div Weight[i + 1]) % 2 = 1}
Val(byte) ==
  BitAt(byte, 0) + BitAt(byte, 1) + BitAt(byte, 2) + BitAt(byte, 3)
    + BitAt(byte, 4) + BitAt(byte, 5) + BitAt(byte, 6) + BitAt(byte, 7)

(* putU16, putI16, and struct.pack of "<H" and "<h": low byte first.       *)
Put16(v) == <<ToByte(v), ToByte(v \div 256)>>

(* putU32, putI32, and "<i".                                               *)
Put32(v) == Put16(v) \o Put16(v \div 65536)

(* getU16, of bytes k and k + 1.                                           *)
GetU16(f, k) == Val(f[k]) + 256 * Val(f[k + 1])

(* getI16, and struct.unpack of "<h": bit 15 is the sign.                  *)
GetI16Unsigned(f, k) == GetU16(f, k)  \* mutant: forgets the sign
GetI16(f, k) ==
  LET u == GetU16(f, k) IN IF u >= 32768 THEN u - 65536 ELSE u

(* getI32, and "<i": the upper half has the sign.                          *)
GetI32(f, k) == GetU16(f, k) + 65536 * GetI16(f, k + 2)

(***************************************************************************)
(* CRC-8 / SAE-J1850: polynomial 0x1D, initially 0xFF, finally inverted    *)
(***************************************************************************)

Xor(a, b) == (a \ b) \cup (b \ a)
Poly == {0, 2, 3, 4}
Ones == 0 .. 7

(* The bit loop of crc8Update(), in which a uint8_t drops bit 8.           *)
CrcBit(crc) ==
  LET shifted == {i + 1 : i \in crc \ {7}} IN
  IF 7 \in crc THEN Xor(shifted, Poly) ELSE shifted

(* The bit loop of crc8_update(), in which a mask does.                    *)
PyCrcBit(crc) ==
  LET shifted == {i + 1 : i \in crc} IN
  (IF 7 \in crc THEN Xor(shifted, Poly) ELSE shifted) \cap Ones

(* Eight rounds of either, for every register.                             *)
CrcByte ==
  [c \in Byte |->
     CrcBit(CrcBit(CrcBit(CrcBit(
       CrcBit(CrcBit(CrcBit(CrcBit(c))))))))]
PyCrcByte ==
  [c \in Byte |->
     PyCrcBit(PyCrcBit(PyCrcBit(PyCrcBit(
       PyCrcBit(PyCrcBit(PyCrcBit(PyCrcBit(c))))))))]

(* The loop over the bytes: each goes into the whole register, and rounds  *)
(* is what follows.                                                        *)
CrcOver(rounds, crc, data) ==
  LET register[n \in 0 .. Len(data)] ==
        IF n = 0 THEN crc ELSE rounds[Xor(register[n - 1], data[n])]
  IN  register[Len(data)]
Crc8Update(crc, data) == CrcOver(CrcByte, crc, data)
PyCrc8Update(crc, data) == CrcOver(PyCrcByte, crc, data)

(* The identifier is chained in first, low byte first.                     *)
NoIdBytes(can_id) == <<>>  \* mutant: the CRC does not know the identifier
IdBytes(can_id) == Put32(can_id)

FrameCrc8(can_id, body) ==
  Xor(Crc8Update(Crc8Update(Ones, IdBytes(can_id)), body), Ones)
PyFrameCrc8Unmasked(can_id, body) ==  \* mutant: ~crc, which is no byte
  Xor(PyCrc8Update(PyCrc8Update(Ones, IdBytes(can_id)), body), Ones)
    \cup 8 .. 31
PyFrameCrc8(can_id, body) ==
  Xor(PyCrc8Update(PyCrc8Update(Ones, IdBytes(can_id)), body), Ones)

(***************************************************************************)
(* The envelope: 6 bytes of payload, the sequence number, the CRC          *)
(***************************************************************************)

FrameDlc == 8
FramePayload == 6

(* What the CRC covers: the payload and the sequence number.               *)
Body(frame) == SubSeq(frame, 1, FramePayload + 1)

SealFrame(can_id, payload, seq) ==
  LET f == payload \o <<ToByte(seq)>> IN Append(f, FrameCrc8(can_id, Body(f)))
PySeal(can_id, payload, seq) ==
  LET f == payload \o <<ToByte(seq)>> IN Append(f, PyFrameCrc8(can_id, Body(f)))

OpenFrame(can_id, frame) ==
  IF Len(frame) # FrameDlc THEN "BAD_DLC"
  ELSE IF FrameCrc8(can_id, Body(frame)) # frame[8] THEN "BAD_CRC" ELSE "OK"
PyOpenTrailing(can_id, frame) ==  \* mutant: more bytes may follow
  IF Len(frame) < FrameDlc THEN "BAD_DLC"
  ELSE IF PyFrameCrc8(can_id, Body(frame)) # frame[8] THEN "BAD_CRC" ELSE "OK"
PyOpen(can_id, frame) ==
  IF Len(frame) # FrameDlc THEN "BAD_DLC"
  ELSE IF PyFrameCrc8(can_id, Body(frame)) # frame[8] THEN "BAD_CRC" ELSE "OK"

FrameSeq(frame) == Val(frame[7])

(***************************************************************************)
(* The messages                                                            *)
(***************************************************************************)

CanId == [CONTROL |-> 256, TELEM_DRIVE_L |-> 512, TELEM_DRIVE_R |-> 513,
          TELEM_POWER |-> 514, TELEM_STATE |-> 515]

CmdMax == 1000
IndicatorFault == 4
KnownModes == 0 .. 2

(* isValidCommand().                                                       *)
InRange(v) == -CmdMax <= v /\ v <= CmdMax

(* The bits of the fault word, and the word with some of them set.         *)
FaultBit == [COMM_TIMEOUT |-> 0, OVER_CURRENT |-> 1, ESTOP_ACTIVE |-> 2,
             ENCODER_FAULT |-> 3, UNDERVOLTAGE |-> 4, FIRMWARE_FAULT |-> 5,
             PROTOCOL_ERROR |-> 6, C2_LINK_LOST |-> 7, SEQ_GAP |-> 8,
             CRC_ERROR |-> 9]
FaultStatus(names) == MapThenSumSet(LAMBDA n : 2^FaultBit[n], names)

(* The bits of the flags byte; the indicator has bits 3 to 5.              *)
PackControlFlags(m) ==
  (IF m.stop THEN {0} ELSE {})
    \cup (IF m.autonomy_abort THEN {1} ELSE {})
    \cup (IF m.return_request THEN {2} ELSE {})
    \cup (IF m.c2_lost THEN {6} ELSE {})
    \cup {i + 3 : i \in ToByte(m.indicator_request) \cap 0 .. 2}

(* What the fields of each message hold: int16_t and so on; of the         *)
(* indicator, the three bits it has on the wire.                           *)
UInt8 == 0 .. 255
UInt16Max == 65535
UInt16 == 0 .. UInt16Max
Int16Max == 32767
Int16Min == -Int16Max - 1
Int16 == Int16Min .. Int16Max
Int32Max == 2147483647
Int32Min == -Int32Max - 1
Int32 == Int32Min .. Int32Max

ControlMsg ==
  [drive_cmd : Int16, steer_cmd : Int16, mode : UInt8, stop : BOOLEAN,
   autonomy_abort : BOOLEAN, return_request : BOOLEAN, c2_lost : BOOLEAN,
   indicator_request : 0 .. 7]
DriveLMsg == [enc_left : Int32, steer_fb : Int16]
DriveRMsg == [enc_right : Int32, cmd_age_ms : UInt16]
PowerMsg == [current_ca : Int16, voltage_cv : Int16, fault_status : UInt16]
StateMsg ==
  [mode : UInt8, jetson_link : UInt8, c2_link : UInt8,
   controller_health : UInt8, indicator_state : UInt8, reserved : UInt8]

MessageType(kind) ==
  CASE kind = "CONTROL" -> ControlMsg
    [] kind = "TELEM_DRIVE_L" -> DriveLMsg
    [] kind = "TELEM_DRIVE_R" -> DriveRMsg
    [] kind = "TELEM_POWER" -> PowerMsg
    [] kind = "TELEM_STATE" -> StateMsg

(* The six bytes of each message.                                          *)
ControlPayload(m) ==
  Put16(m.drive_cmd) \o Put16(m.steer_cmd)
    \o <<ToByte(m.mode), PackControlFlags(m)>>
DriveLPayload(m) == Put32(m.enc_left) \o Put16(m.steer_fb)
DriveRPayload(m) == Put32(m.enc_right) \o Put16(m.cmd_age_ms)
PowerPayload(m) ==
  Put16(m.current_ca) \o Put16(m.voltage_cv) \o Put16(m.fault_status)
StatePayload(m) ==
  <<ToByte(m.mode), ToByte(m.jetson_link), ToByte(m.c2_link),
    ToByte(m.controller_health), ToByte(m.indicator_state), ToByte(m.reserved)>>

Payload(kind, m) ==
  CASE kind = "CONTROL" -> ControlPayload(m)
    [] kind = "TELEM_DRIVE_L" -> DriveLPayload(m)
    [] kind = "TELEM_DRIVE_R" -> DriveRPayload(m)
    [] kind = "TELEM_POWER" -> PowerPayload(m)
    [] kind = "TELEM_STATE" -> StatePayload(m)

(* encode*() and encode_*(): the sender writes its identifier into the CRC.*)
Encode(kind, m, seq) == SealFrame(CanId[kind], Payload(kind, m), seq)
PyEncode(kind, m, seq) == PySeal(CanId[kind], Payload(kind, m), seq)

Refused(reason) == [code |-> reason]
Accepted(m, seq) == [code |-> "OK", msg |-> m, seq |-> seq]

(* The fields of each message; only those of CONTROL are checked.          *)
ControlFields(f) ==
  LET mode == Val(f[5])
      indicator == Val({i - 3 : i \in f[6] \cap 3 .. 5})
      drive == GetI16(f, 1)
      steer == GetI16(f, 3)
  IN
  IF mode \notin KnownModes THEN Refused("BAD_MODE")
  ELSE IF 7 \in f[6] THEN Refused("BAD_FLAGS")
  ELSE IF indicator > IndicatorFault THEN Refused("BAD_INDICATOR")
  ELSE IF ~(InRange(drive) /\ InRange(steer)) THEN Refused("BAD_RANGE")
  ELSE Accepted([drive_cmd |-> drive, steer_cmd |-> steer, mode |-> mode,
                 stop |-> 0 \in f[6], autonomy_abort |-> 1 \in f[6],
                 return_request |-> 2 \in f[6], c2_lost |-> 6 \in f[6],
                 indicator_request |-> indicator], FrameSeq(f))
DriveLFields(f) == [enc_left |-> GetI32(f, 1), steer_fb |-> GetI16(f, 5)]
DriveRFields(f) == [enc_right |-> GetI32(f, 1), cmd_age_ms |-> GetU16(f, 5)]
PowerFields(f) ==
  [current_ca |-> GetI16(f, 1), voltage_cv |-> GetI16(f, 3),
   fault_status |-> GetU16(f, 5)]
StateFields(f) ==
  [mode |-> Val(f[1]), jetson_link |-> Val(f[2]), c2_link |-> Val(f[3]),
   controller_health |-> Val(f[4]), indicator_state |-> Val(f[5]),
   reserved |-> Val(f[6])]

Fields(kind, f) ==
  CASE kind = "CONTROL" -> ControlFields(f)
    [] kind = "TELEM_DRIVE_L" -> Accepted(DriveLFields(f), FrameSeq(f))
    [] kind = "TELEM_DRIVE_R" -> Accepted(DriveRFields(f), FrameSeq(f))
    [] kind = "TELEM_POWER" -> Accepted(PowerFields(f), FrameSeq(f))
    [] kind = "TELEM_STATE" -> Accepted(StateFields(f), FrameSeq(f))

(* decode*() and decode_*(): the envelope first.                           *)
Decode(kind, f) ==
  LET opened == OpenFrame(CanId[kind], f) IN
  IF opened = "OK" THEN Fields(kind, f) ELSE Refused(opened)
PyDecode(kind, f) ==
  LET opened == PyOpen(CanId[kind], f) IN
  IF opened = "OK" THEN Fields(kind, f) ELSE Refused(opened)
=============================================================================
