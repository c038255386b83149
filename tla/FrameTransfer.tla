--------------------------- MODULE FrameTransfer ----------------------------
(***************************************************************************)
(* One frame on its way: encoded by a sender in either language, perhaps   *)
(* damaged or delivered under another identifier, and decoded in both      *)
(* languages by whoever listens to that identifier.                        *)
(***************************************************************************)
EXTENDS FrameCodec

CONSTANTS
  Messages,  \* what is sent: a function from kind to a set of messages
  Fragile,   \* those of them that may be damaged
  Seqs,      \* the sequence numbers used
  Bits       \* the positions where scattered damage may fall, 0 .. 63

VARIABLES
  sent,    \* [kind, msg, seq, by]
  wire,    \* [id, bytes]
  intact,  \* nothing happened to it on the way
  result   \* what a receiver in each language made of it, or Pending

vars == <<sent, wire, intact, result>>

Languages == {"C++", "Python"}
Pending == [lang \in Languages |-> [code |-> "PENDING"]]

Kinds == DOMAIN CanId

ASSUME TransferAssumption ==
  /\ Kinds = DOMAIN Messages /\ Kinds = DOMAIN Fragile
  /\ \A k \in Kinds : /\ Messages[k] \subseteq MessageType(k)
                      /\ Fragile[k] \subseteq Messages[k]
  /\ Seqs \subseteq 0 .. 255
  /\ Bits \subseteq 0 .. 63

Codes == {"OK", "BAD_DLC", "BAD_CRC", "BAD_MODE", "BAD_FLAGS",
          "BAD_INDICATOR", "BAD_RANGE"}

TypeOK ==
  /\ sent.kind \in Kinds /\ sent.msg \in Messages[sent.kind]
  /\ wire.id \in {CanId[k] : k \in Kinds}
  /\ wire.bytes \in Seq(Byte)
  /\ intact \in BOOLEAN
  /\ result = Pending \/ \A lang \in Languages : result[lang].code \in Codes

Init ==
  \E kind \in Kinds, by \in Languages :
    \E m \in Messages[kind], seq \in Seqs :
      /\ sent = [kind |-> kind, msg |-> m, seq |-> seq, by |-> by]
      /\ wire = [id |-> CanId[kind],
                 bytes |-> IF by = "C++" THEN Encode(kind, m, seq)
                                         ELSE PyEncode(kind, m, seq)]
      /\ intact = TRUE
      /\ result = Pending

OnTheWay ==
  /\ result = Pending /\ intact
  /\ sent.msg \in Fragile[sent.kind]

Spoil(w) ==
  /\ OnTheWay
  /\ intact' = FALSE
  /\ wire' = w
  /\ UNCHANGED <<sent, result>>

(* Bits change.  Bit n of the frame is bit 7 - n % 8 of byte n \div 8.     *)
Damage(bits) ==
  Spoil([wire EXCEPT !.bytes =
           [k \in DOMAIN @ |->
              Xor(@[k], {i \in 0 .. 7 : 8 * (k - 1) + 7 - i \in bits})]])

(* The frame is shorter or longer than it was sent.                        *)
Resize(n) ==
  /\ n # FrameDlc
  /\ Spoil([wire EXCEPT !.bytes =
              [k \in 1 .. n |-> IF k \in DOMAIN @ THEN @[k] ELSE {}]])

(* It arrives under the identifier of another message.                     *)
Misroute(kind) == kind # sent.kind /\ Spoil([wire EXCEPT !.id = CanId[kind]])

(* decode*() and the table DECODERS, by the identifier.                    *)
Receive ==
  /\ result = Pending
  /\ LET kind == CHOOSE k \in Kinds : CanId[k] = wire.id IN
     result' = [lang \in Languages |->
                  IF lang = "C++" THEN Decode(kind, wire.bytes)
                                  ELSE PyDecode(kind, wire.bytes)]
  /\ UNCHANGED <<sent, wire, intact>>

Next ==
  \/ /\ OnTheWay
     /\ \/ \E p, q \in Bits : p <= q /\ Damage({p, q})
        \/ \E p \in 0 .. 56, b \in (SUBSET (0 .. 7)) \ {{}} :
             Damage({p + i : i \in b})
        \/ \E n \in 0 .. 9 : Resize(n)
        \/ \E kind \in Kinds : Misroute(kind)
  \/ Receive

Spec == Init /\ [][Next]_vars

(***************************************************************************)
(* Properties                                                              *)
(***************************************************************************)

(* Python decodes "exactly" as C++ does: whatever bytes arrive, whole or    *)
(* damaged, the two refuse them for the same reason or read the same       *)
(* message in them.                                                        *)
LanguagesAgree == result["C++"] = result["Python"]

(* What a controller must refuse in a CONTROL message it received whole.   *)
Reasons(m) ==
  (IF m.mode \notin KnownModes THEN {"BAD_MODE"} ELSE {})
    \cup (IF m.indicator_request > IndicatorFault THEN {"BAD_INDICATOR"}
                                                  ELSE {})
    \cup (IF InRange(m.drive_cmd) /\ InRange(m.steer_cmd) THEN {}
                                                          ELSE {"BAD_RANGE"})

(* A frame that arrives whole means to a receiver *)
(* in either exactly what its sender in either said, at the ends of every  *)
(* field; a command outside the protocol is refused for a reason it has,   *)
(* and never turned into another command.                                  *)
RoundTrip ==
  result # Pending /\ intact =>
    \A lang \in Languages :
      IF sent.kind = "CONTROL" /\ Reasons(sent.msg) # {}
        THEN result[lang].code \in Reasons(sent.msg)
        ELSE result[lang] = Accepted(sent.msg, sent.seq)

(* What arrives otherwise is accepted by neither side as anything: one or  *)
(* two damaged bits anywhere, damage within eight consecutive bits, a      *)
(* wrong length or the identifier of another message.  With three          *)
(* scattered bits this CRC can be deceived.                                *)
DamageIsRefused ==
  result # Pending /\ ~intact =>
    \A lang \in Languages : result[lang].code # "OK"
=============================================================================
