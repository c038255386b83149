------------------------ MODULE FrameTransferProofs -------------------------
(***************************************************************************)
(* The two languages read every frame alike, a frame that arrives whole    *)
(* says what was sent, and one that was damaged is refused: for every      *)
(* message its fields can hold.                                            *)
(***************************************************************************)
EXTENDS FrameTransfer, SequenceTheorems, WellFoundedInduction, TLAPS

(***************************************************************************)
(* Induction over the bytes of a frame                                     *)
(***************************************************************************)

(* Of the numbers a set lacks one would be the least.                      *)
LEMMA NatSetInduction ==
  ASSUME NEW S, 0 \in S, \A n \in Nat : n \in S => n + 1 \in S
  PROVE  Nat \subseteq S
<1>. DEFINE R == {ss \in Nat \X Nat : ss[1] < ss[2]}
            T == Nat \ S
<1>. SUFFICES ASSUME T # {} PROVE FALSE
  OBVIOUS
<1>1. IsWellFoundedOn(R, Nat)
  BY NatLessThanWellFounded DEF OpToRel
<1>2. PICK m \in T : \A k \in T : ~ (<<k, m>> \in R)
  <2>. HIDE DEF R
  <2>. QED BY <1>1, WFMin
<1>3. m # 0 /\ m - 1 \in Nat
  OBVIOUS
<1>4. <<m - 1, m>> \in R
  BY <1>3
<1>5. m - 1 \in S
  BY <1>2, <1>3, <1>4
<1>. QED
  BY <1>3, <1>5

(***************************************************************************)
(* The CRC, one byte at a time                                             *)
(***************************************************************************)

(* One round of the bit loop, from register c to register d.               *)
Round(c, d) ==
  /\ 0 \in d <=> 7 \in c
  /\ 1 \in d <=> 0 \in c
  /\ 2 \in d <=> ~(1 \in c <=> 7 \in c)
  /\ 3 \in d <=> ~(2 \in c <=> 7 \in c)
  /\ 4 \in d <=> ~(3 \in c <=> 7 \in c)
  /\ 5 \in d <=> 4 \in c
  /\ 6 \in d <=> 5 \in c
  /\ 7 \in d <=> 6 \in c

(* CrcBit() is such a round, and the only one from its register.           *)
LEMMA RoundBits ==
  ASSUME NEW c \in Byte
  PROVE  CrcBit(c) \in Byte /\ Round(c, CrcBit(c))
<1>. DEFINE shifted == {i + 1 : i \in c \ {7}}
<1>1. /\ shifted \in Byte /\ 0 \notin shifted
      /\ 1 \in shifted <=> 0 \in c
      /\ 2 \in shifted <=> 1 \in c
      /\ 3 \in shifted <=> 2 \in c
      /\ 4 \in shifted <=> 3 \in c
      /\ 5 \in shifted <=> 4 \in c
      /\ 6 \in shifted <=> 5 \in c
      /\ 7 \in shifted <=> 6 \in c
  BY DEF Byte
<1>2. CrcBit(c) = IF 7 \in c THEN Xor(shifted, Poly) ELSE shifted
  BY DEF CrcBit
<1>. HIDE DEF shifted
<1>3. Xor(shifted, Poly) \in Byte
  BY <1>1 DEF Xor, Poly, Byte
<1>. QED
  BY <1>1, <1>2, <1>3 DEF Xor, Poly, Round

(* Bytes of the same bits.                                                 *)
LEMMA BytesEqual ==
  ASSUME NEW a \in Byte, NEW b \in Byte,
         0 \in a <=> 0 \in b, 1 \in a <=> 1 \in b, 2 \in a <=> 2 \in b,
         3 \in a <=> 3 \in b, 4 \in a <=> 4 \in b, 5 \in a <=> 5 \in b,
         6 \in a <=> 6 \in b, 7 \in a <=> 7 \in b
  PROVE  a = b
<1>1. \A i \in 0 .. 7 : \/ i = 0 \/ i = 1 \/ i = 2 \/ i = 3
                       \/ i = 4 \/ i = 5 \/ i = 6 \/ i = 7
  OBVIOUS
<1>2. \A i \in 0 .. 7 : i \in a <=> i \in b
  BY <1>1
<1>. QED
  BY <1>2 DEF Byte

LEMMA RoundIs ==
  ASSUME NEW c \in Byte, NEW d \in Byte, Round(c, d)
  PROVE  CrcBit(c) = d
BY RoundBits, BytesEqual DEF Round

(* Exclusive or.                                                           *)
LEMMA XorFacts ==
  /\ \A a, b \in Byte : Xor(a, b) \in Byte
  /\ \A a : Xor(a, {}) = a /\ Xor({}, a) = a /\ Xor(a, a) = {}
  /\ \A a, b : Xor(a, b) = {} => a = b
  /\ \A a, b : Xor(a, b) = Xor(b, a)
  /\ \A a, b, c, d : Xor(Xor(a, b), Xor(c, d)) = Xor(Xor(a, c), Xor(b, d))
<1>1. \A a, b \in Byte : Xor(a, b) \in Byte
  BY DEF Xor, Byte
<1>2. \A a : Xor(a, {}) = a /\ Xor({}, a) = a /\ Xor(a, a) = {}
  BY DEF Xor
<1>3. \A a, b : Xor(a, b) = {} => a = b
  BY DEF Xor
<1>4. \A a, b : Xor(a, b) = Xor(b, a)
  BY DEF Xor
<1>5. \A a, b, c, d : Xor(Xor(a, b), Xor(c, d)) = Xor(Xor(a, c), Xor(b, d))
  BY DEF Xor
<1>. QED
  BY <1>1, <1>2, <1>3, <1>4, <1>5

(* A round keeps the difference of two registers: it depends on that alone,*)
(* and is nothing only if that is.                                         *)
LEMMA RoundIsLinear ==
  ASSUME NEW a \in Byte, NEW b \in Byte
  PROVE  CrcBit(Xor(a, b)) = Xor(CrcBit(a), CrcBit(b))
<1>1. /\ Xor(a, b) \in Byte /\ CrcBit(a) \in Byte /\ CrcBit(b) \in Byte
      /\ Xor(CrcBit(a), CrcBit(b)) \in Byte
  BY RoundBits, XorFacts
<1>2. \A s, t, i : i \in Xor(s, t) <=> ~(i \in s <=> i \in t)
  BY DEF Xor
<1>3. Round(Xor(a, b), Xor(CrcBit(a), CrcBit(b)))
  BY <1>2, RoundBits DEF Round
<1>. QED
  BY <1>1, <1>3, RoundIs

LEMMA RoundIsInjective ==
  ASSUME NEW c \in Byte, CrcBit(c) = {}
  PROVE  c = {}
BY RoundBits DEF Round, Byte

(* And so does a byte, which is eight rounds.                              *)
LEMMA ByteRounds ==
  ASSUME NEW c \in Byte
  PROVE  \E b1, b2, b3, b4, b5, b6, b7 \in Byte :
           /\ b1 = CrcBit(c) /\ b2 = CrcBit(b1) /\ b3 = CrcBit(b2)
           /\ b4 = CrcBit(b3) /\ b5 = CrcBit(b4) /\ b6 = CrcBit(b5)
           /\ b7 = CrcBit(b6) /\ CrcByte[c] = CrcBit(b7)
           /\ CrcByte[c] \in Byte
<1>1. \A a \in Byte : CrcBit(a) \in Byte
  BY RoundBits
<1>2. CrcByte[c] = CrcBit(CrcBit(CrcBit(CrcBit(
                      CrcBit(CrcBit(CrcBit(CrcBit(c))))))))
  BY DEF CrcByte
<1>. QED
  BY <1>1, <1>2

LEMMA ByteIsLinear ==
  ASSUME NEW a \in Byte, NEW b \in Byte
  PROVE  CrcByte[Xor(a, b)] = Xor(CrcByte[a], CrcByte[b])
<1>1. PICK a1, a2, a3, a4, a5, a6, a7 \in Byte :
           /\ a1 = CrcBit(a) /\ a2 = CrcBit(a1) /\ a3 = CrcBit(a2)
           /\ a4 = CrcBit(a3) /\ a5 = CrcBit(a4) /\ a6 = CrcBit(a5)
           /\ a7 = CrcBit(a6) /\ CrcByte[a] = CrcBit(a7)
  BY ByteRounds
<1>2. PICK b1, b2, b3, b4, b5, b6, b7 \in Byte :
           /\ b1 = CrcBit(b) /\ b2 = CrcBit(b1) /\ b3 = CrcBit(b2)
           /\ b4 = CrcBit(b3) /\ b5 = CrcBit(b4) /\ b6 = CrcBit(b5)
           /\ b7 = CrcBit(b6) /\ CrcByte[b] = CrcBit(b7)
  BY ByteRounds
<1>3. Xor(a, b) \in Byte
  BY XorFacts
<1>4. CrcByte[Xor(a, b)] = CrcBit(CrcBit(CrcBit(CrcBit(
                      CrcBit(CrcBit(CrcBit(CrcBit(Xor(a, b)))))))))
  BY <1>3 DEF CrcByte
<1>. QED
  BY <1>1, <1>2, <1>4, RoundIsLinear

LEMMA ByteIsInjective ==
  /\ CrcByte[{}] = {}
  /\ \A c \in Byte : CrcByte[c] = {} => c = {}
<1>1. CrcBit({}) = {} /\ {} \in Byte
  BY DEF CrcBit, Byte
<1>2. CrcByte[{}] = CrcBit(CrcBit(CrcBit(CrcBit(
                      CrcBit(CrcBit(CrcBit(CrcBit({}))))))))
  BY <1>1 DEF CrcByte
<1>3. \A c \in Byte : CrcByte[c] = {} => c = {}
  BY ByteRounds, RoundIsInjective
<1>. QED
  BY <1>1, <1>2, <1>3

(* Two bits at the low end of a byte do not cancel in the low end of the   *)
(* next: those are what the identifiers differ in.                         *)
LEMMA TwoLowBits ==
  ASSUME NEW a \in Byte, a \subseteq {0, 1}, CrcByte[a] \subseteq {0, 1}
  PROVE  a = {}
<1>1. PICK a1, a2, a3, a4, a5, a6, a7 \in Byte :
           /\ a1 = CrcBit(a) /\ a2 = CrcBit(a1) /\ a3 = CrcBit(a2)
           /\ a4 = CrcBit(a3) /\ a5 = CrcBit(a4) /\ a6 = CrcBit(a5)
           /\ a7 = CrcBit(a6) /\ CrcByte[a] = CrcBit(a7)
  BY ByteRounds
<1>2. /\ 2 \notin CrcByte[a] /\ 3 \notin CrcByte[a]
      /\ 4 \notin CrcByte[a] /\ 5 \notin CrcByte[a]
      /\ 6 \notin CrcByte[a] /\ 7 \notin CrcByte[a]
      /\ 2 \notin a /\ 3 \notin a
      /\ 4 \notin a /\ 5 \notin a
      /\ 6 \notin a /\ 7 \notin a
  OBVIOUS
<1>3. 0 \notin a /\ 1 \notin a
  BY <1>1, <1>2, RoundBits DEF Round
<1>. QED
  BY <1>3

(* What a register of one bit becomes, round after round; it is of a single*)
(* bit again only after the 64 rounds of a frame.                          *)
Power ==
  <<{0}, {1}, {2}, {3}, {4}, {5}, {6}, {7}, {0, 2, 3, 4}, {1, 3, 4, 5},
    {2, 4, 5, 6}, {3, 5, 6, 7}, {0, 2, 3, 6, 7}, {0, 1, 2, 7}, {0, 1, 4},
    {1, 2, 5}, {2, 3, 6}, {3, 4, 7}, {0, 2, 3, 5}, {1, 3, 4, 6},
    {2, 4, 5, 7}, {0, 2, 4, 5, 6}, {1, 3, 5, 6, 7}, {0, 3, 6, 7},
    {0, 1, 2, 3, 7}, {0, 1}, {1, 2}, {2, 3}, {3, 4}, {4, 5}, {5, 6},
    {6, 7}, {0, 2, 3, 4, 7}, {0, 1, 2, 5}, {1, 2, 3, 6}, {2, 3, 4, 7},
    {0, 2, 5}, {1, 3, 6}, {2, 4, 7}, {0, 2, 4, 5}, {1, 3, 5, 6},
    {2, 4, 6, 7}, {0, 2, 4, 5, 7}, {0, 1, 2, 4, 5, 6}, {1, 2, 3, 5, 6, 7},
    {0, 6, 7}, {0, 1, 2, 3, 4, 7}, {0, 1, 5}, {1, 2, 6}, {2, 3, 7}, {0, 2},
    {1, 3}, {2, 4}, {3, 5}, {4, 6}, {5, 7}, {0, 2, 3, 4, 6},
    {1, 3, 4, 5, 7}, {0, 3, 5, 6}, {1, 4, 6, 7}, {0, 3, 4, 5, 7},
    {0, 1, 2, 3, 5, 6}, {1, 2, 3, 4, 6, 7}, {0, 5, 7}>>

LEMMA PowerType ==
  ASSUME NEW j \in 1 .. 64
  PROVE  Power[j] \in Byte /\ (j > 8 => \A i \in 0 .. 7 : Power[j] # {i})
BY DEF Power, Byte

LEMMA PowerRound ==
  ASSUME NEW j \in 1 .. 63
  PROVE  CrcBit(Power[j]) = Power[j + 1]
<1>1. j \in 1 .. 64 /\ j + 1 \in 1 .. 64
  OBVIOUS
<1>3. Power[j] \in Byte /\ Power[j + 1] \in Byte
  BY <1>1, PowerType
<1>2. Round(Power[j], Power[j + 1])
  BY DEF Power, Round
<1>. QED
  BY <1>2, <1>3, RoundIs

LEMMA PowerByte ==
  ASSUME NEW j \in 1 .. 56
  PROVE  CrcByte[Power[j]] = Power[j + 8]
<1>1. Power[j] \in Byte
  <2>1. j \in 1 .. 64
    OBVIOUS
  <2>. QED
    BY <2>1, PowerType
<1>2. /\ CrcBit(Power[j]) = Power[j + 1]
      /\ CrcBit(Power[j + 1]) = Power[j + 2]
      /\ CrcBit(Power[j + 2]) = Power[j + 3]
      /\ CrcBit(Power[j + 3]) = Power[j + 4]
      /\ CrcBit(Power[j + 4]) = Power[j + 5]
      /\ CrcBit(Power[j + 5]) = Power[j + 6]
      /\ CrcBit(Power[j + 6]) = Power[j + 7]
      /\ CrcBit(Power[j + 7]) = Power[j + 8]
  BY PowerRound
<1>. QED
  BY <1>1, <1>2 DEF CrcByte

(* A burst lies in the low bits of one byte and the high bits of the next: *)
(* what the first makes of the register is not what the second takes away. *)
LEMMA BurstChangesCrc ==
  ASSUME NEW o \in 0 .. 7,
         NEW a \in Byte, \A i \in a : i <= 7 - o,
         NEW z \in Byte, \A i \in z : i >= 8 - o,
         CrcByte[a] = z
  PROVE  a = {} /\ z = {}
<1>1. PICK a1, a2, a3, a4, a5, a6, a7 \in Byte :
           /\ a1 = CrcBit(a) /\ a2 = CrcBit(a1) /\ a3 = CrcBit(a2)
           /\ a4 = CrcBit(a3) /\ a5 = CrcBit(a4) /\ a6 = CrcBit(a5)
           /\ a7 = CrcBit(a6) /\ CrcByte[a] = CrcBit(a7)
  BY ByteRounds
<1>2. /\ Round(a, a1) /\ Round(a1, a2) /\ Round(a2, a3) /\ Round(a3, a4)
      /\ Round(a4, a5) /\ Round(a5, a6) /\ Round(a6, a7) /\ Round(a7, z)
  BY <1>1, RoundBits
<1>3. /\ o <= 0 \/ 7 \notin a
      /\ o <= 1 \/ 6 \notin a
      /\ o <= 2 \/ 5 \notin a
      /\ o <= 3 \/ 4 \notin a
      /\ o <= 4 \/ 3 \notin a
      /\ o <= 5 \/ 2 \notin a
      /\ o <= 6 \/ 1 \notin a
  OBVIOUS
<1>4. /\ 0 \notin z
      /\ o > 6 \/ 1 \notin z
      /\ o > 5 \/ 2 \notin z
      /\ o > 4 \/ 3 \notin z
      /\ o > 3 \/ 4 \notin z
      /\ o > 2 \/ 5 \notin z
      /\ o > 1 \/ 6 \notin z
      /\ o > 0 \/ 7 \notin z
  OBVIOUS
<1>5. /\ 0 \notin a /\ 1 \notin a /\ 2 \notin a /\ 3 \notin a
      /\ 4 \notin a /\ 5 \notin a /\ 6 \notin a /\ 7 \notin a
  BY <1>2, <1>3, <1>4 DEF Round
<1>6. a = {}
  BY <1>5, BytesEqual DEF Byte
<1>. QED
  BY <1>6, ByteIsInjective

(***************************************************************************)
(* The CRC in both languages                                               *)
(***************************************************************************)

(* Dropping bit 7 before the shift and masking bit 8 after it are one.     *)
LEMMA CrcBitsAgree ==
  ASSUME NEW c \in Byte
  PROVE  CrcBit(c) = PyCrcBit(c) /\ CrcBit(c) \in Byte
<1>. DEFINE left == {i + 1 : i \in c \ {7}}
            right == {i + 1 : i \in c}
<1>1. left = right \cap Ones /\ left \in Byte
  BY DEF Byte, Ones
<1>2. Poly \in Byte /\ Poly \subseteq Ones
  BY DEF Byte, Poly, Ones
<1>. HIDE DEF left, right
<1>3. Xor(left, Poly) = Xor(right, Poly) \cap Ones
  BY <1>1, <1>2 DEF Xor
<1>4. Xor(left, Poly) \in Byte
  BY <1>1, <1>2 DEF Xor, Byte
<1>. QED
  BY <1>1, <1>3, <1>4 DEF CrcBit, PyCrcBit, left, right

(* Hence the two tables of eight rounds are one.                           *)
LEMMA CrcBytesAgree == CrcByte = PyCrcByte
<1>1. ASSUME NEW c \in Byte
      PROVE  CrcByte[c] = PyCrcByte[c]
  <2>. DEFINE b1 == CrcBit(c)
              b2 == CrcBit(b1)
              b3 == CrcBit(b2)
              b4 == CrcBit(b3)
              b5 == CrcBit(b4)
              b6 == CrcBit(b5)
              b7 == CrcBit(b6)
  <2>. HIDE DEF b1, b2, b3, b4, b5, b6, b7
  <2>1. b1 = PyCrcBit(c) /\ b1 \in Byte
    BY CrcBitsAgree DEF b1
  <2>2. b2 = PyCrcBit(b1) /\ b2 \in Byte
    BY <2>1, CrcBitsAgree DEF b2
  <2>3. b3 = PyCrcBit(b2) /\ b3 \in Byte
    BY <2>2, CrcBitsAgree DEF b3
  <2>4. b4 = PyCrcBit(b3) /\ b4 \in Byte
    BY <2>3, CrcBitsAgree DEF b4
  <2>5. b5 = PyCrcBit(b4) /\ b5 \in Byte
    BY <2>4, CrcBitsAgree DEF b5
  <2>6. b6 = PyCrcBit(b5) /\ b6 \in Byte
    BY <2>5, CrcBitsAgree DEF b6
  <2>7. b7 = PyCrcBit(b6) /\ b7 \in Byte
    BY <2>6, CrcBitsAgree DEF b7
  <2>8. CrcByte[c] = CrcBit(b7)
    BY DEF CrcByte, b1, b2, b3, b4, b5, b6, b7
  <2>9. PyCrcByte[c] = PyCrcBit(b7)
    BY <2>1, <2>2, <2>3, <2>4, <2>5, <2>6, <2>7 DEF PyCrcByte
  <2>. QED
    BY <2>7, <2>8, <2>9, CrcBitsAgree
<1>2. DOMAIN CrcByte = Byte /\ DOMAIN PyCrcByte = Byte
  BY DEF CrcByte, PyCrcByte
<1>3. CrcByte = [c \in Byte |-> CrcByte[c]]
  BY DEF CrcByte
<1>4. PyCrcByte = [c \in Byte |-> PyCrcByte[c]]
  BY DEF PyCrcByte
<1>. QED
  BY <1>1, <1>3, <1>4

(***************************************************************************)
(* The envelope                                                            *)
(***************************************************************************)

(* The CRC of a frame does not depend on the language, whatever the loop   *)
(* over its bytes computes.                                                *)
LEMMA CrcsAgree ==
  ASSUME NEW id, NEW body
  PROVE  FrameCrc8(id, body) = PyFrameCrc8(id, body)
BY CrcBytesAgree DEF FrameCrc8, PyFrameCrc8, Crc8Update, PyCrc8Update

(* Nor does what a receiver makes of a frame, or a sender of a message.    *)
LEMMA DecodersAgree ==
  ASSUME NEW kind, NEW f
  PROVE  Decode(kind, f) = PyDecode(kind, f)
BY CrcsAgree DEF Decode, PyDecode, OpenFrame, PyOpen

LEMMA EncodersAgree ==
  ASSUME NEW kind, NEW m, NEW seq
  PROVE  Encode(kind, m, seq) = PyEncode(kind, m, seq)
BY CrcsAgree DEF Encode, PyEncode, SealFrame, PySeal

(***************************************************************************)
(* Numbers and bytes                                                       *)
(***************************************************************************)

(* Half of a number, and the bit that goes with it.                        *)
LEMMA Halves ==
  ASSUME NEW v \in Int, NEW w \in {1, 2, 4, 8, 16, 32, 64, 128}
  PROVE  w * ((v \div w) % 2) = (v % (2 * w)) - (v % w)
<1>. DEFINE q == v \div w
<1>1. v = w * q + (v % w) /\ q \in Int /\ v % w \in 0 .. w - 1
  OBVIOUS
<1>2. q = 2 * (q \div 2) + (q % 2) /\ q \div 2 \in Int /\ q % 2 \in 0 .. 1
  OBVIOUS
<1>. QED
  BY <1>1, <1>2

(* The low byte has the number's residue.                                  *)
LEMMA ByteValue ==
  ASSUME NEW v \in Int
  PROVE  Val(ToByte(v)) = v % 256 /\ ToByte(v) \in Byte
<1>1. /\ BitAt(ToByte(v), 0) = v % 2
      /\ BitAt(ToByte(v), 1) = (v % 4) - (v % 2)
      /\ BitAt(ToByte(v), 2) = (v % 8) - (v % 4)
      /\ BitAt(ToByte(v), 3) = (v % 16) - (v % 8)
      /\ BitAt(ToByte(v), 4) = (v % 32) - (v % 16)
      /\ BitAt(ToByte(v), 5) = (v % 64) - (v % 32)
      /\ BitAt(ToByte(v), 6) = (v % 128) - (v % 64)
      /\ BitAt(ToByte(v), 7) = (v % 256) - (v % 128)
  <2>1. ASSUME NEW i \in 0 .. 7, NEW w \in {1, 2, 4, 8, 16, 32, 64, 128},
               Weight[i + 1] = w
        PROVE  BitAt(ToByte(v), i) = (v % (2 * w)) - (v % w)
    <3>1. (v \div w) % 2 \in 0 .. 1
      OBVIOUS
    <3>2. BitAt(ToByte(v), i) = w * ((v \div w) % 2)
      BY <2>1, <3>1 DEF BitAt, ToByte
    <3>. QED
      BY <3>2, Halves
  <2>2. /\ Weight[0 + 1] = 1 /\ Weight[1 + 1] = 2
        /\ Weight[2 + 1] = 4 /\ Weight[3 + 1] = 8
        /\ Weight[4 + 1] = 16 /\ Weight[5 + 1] = 32
        /\ Weight[6 + 1] = 64 /\ Weight[7 + 1] = 128
    BY DEF Weight
  <2>3. v % 1 = 0
    OBVIOUS
  <2>4. /\ BitAt(ToByte(v), 0) = v % 2
        /\ BitAt(ToByte(v), 1) = (v % 4) - (v % 2)
    BY <2>1, <2>2, <2>3
  <2>5. /\ BitAt(ToByte(v), 2) = (v % 8) - (v % 4)
        /\ BitAt(ToByte(v), 3) = (v % 16) - (v % 8)
    BY <2>1, <2>2
  <2>6. /\ BitAt(ToByte(v), 4) = (v % 32) - (v % 16)
        /\ BitAt(ToByte(v), 5) = (v % 64) - (v % 32)
    BY <2>1, <2>2
  <2>7. /\ BitAt(ToByte(v), 6) = (v % 128) - (v % 64)
        /\ BitAt(ToByte(v), 7) = (v % 256) - (v % 128)
    BY <2>1, <2>2
  <2>. QED
    BY <2>4, <2>5, <2>6, <2>7
<1>. QED
  BY <1>1 DEF Val, ToByte, Byte

(* What getU16, getI16 and getI32 read where a number was put.             *)
Holds16(f, k, v) == f[k] = ToByte(v) /\ f[k + 1] = ToByte(v \div 256)
Holds32(f, k, v) == Holds16(f, k, v) /\ Holds16(f, k + 2, v \div 65536)

LEMMA U16Value ==
  ASSUME NEW f, NEW k \in Int, NEW v \in Int, Holds16(f, k, v)
  PROVE  GetU16(f, k) = v % 65536
<1>1. v \div 256 \in Int
  BY SMT
<1>2. GetU16(f, k) = (v % 256) + 256 * ((v \div 256) % 256)
  BY SMT, <1>1, ByteValue DEF GetU16, Holds16
<1>. DEFINE q == v \div 256
<1>3. v = 256 * q + (v % 256) /\ v % 256 \in 0 .. 255
  BY SMT
<1>4. q = 256 * (q \div 256) + (q % 256) /\ q % 256 \in 0 .. 255
  BY SMT, <1>1
<1>. QED
  BY SMT, <1>1, <1>2, <1>3, <1>4

(* The bounds of the field types, and how to use them: a range between two *)
(* numbers the provers know is a disjunction to them, of 65536 cases, so a *)
(* leaf sees a range or the numbers at its ends, and never both.           *)
LEMMA BoundTypes ==
  /\ UInt16Max \in Int /\ Int16Max \in Int /\ Int16Min \in Int
  /\ Int32Max \in Int /\ Int32Min \in Int
BY SMT DEF UInt16Max, Int16Max, Int16Min, Int32Max, Int32Min

LEMMA BoundValues ==
  /\ UInt16Max = 65535 /\ Int16Max = 32767 /\ Int16Min = -32768
  /\ Int32Max = 65536 * 32767 + 65535 /\ Int32Min = 65536 * (-32768)
BY SMT DEF UInt16Max, Int16Max, Int16Min, Int32Max, Int32Min

LEMMA UInt16Value ==
  ASSUME NEW f, NEW k \in Int, NEW v \in UInt16, Holds16(f, k, v)
  PROVE  GetU16(f, k) = v
<1>1. v \in Int /\ 0 <= v /\ v <= UInt16Max
  BY SMT, BoundTypes DEF UInt16
<1>2. v % 65536 = v
  BY SMT, <1>1, BoundTypes, BoundValues
<1>. QED
  BY SMT, <1>1, <1>2, U16Value

LEMMA Int16Value ==
  ASSUME NEW f, NEW k \in Int, NEW v \in Int16, Holds16(f, k, v)
  PROVE  GetI16(f, k) = v
<1>1. v \in Int /\ Int16Min <= v /\ v <= Int16Max
  BY SMT, BoundTypes DEF Int16
<1>2. GetU16(f, k) = v % 65536
  BY SMT, <1>1, U16Value
<1>3. CASE v >= 0
  <2>1. v % 65536 = v /\ v < 32768
    BY SMT, <1>1, <1>3, BoundTypes, BoundValues
  <2>. QED
    BY SMT, <1>1, <1>2, <2>1 DEF GetI16
<1>4. CASE v < 0
  <2>1. v % 65536 = v + 65536 /\ v + 65536 >= 32768
    BY SMT, <1>1, <1>4, BoundTypes, BoundValues
  <2>. QED
    BY SMT, <1>1, <1>2, <2>1 DEF GetI16
<1>. QED
  BY SMT, <1>1, <1>3, <1>4

LEMMA Int32Value ==
  ASSUME NEW f, NEW k \in Int, NEW v \in Int32, Holds32(f, k, v)
  PROVE  GetI32(f, k) = v
<1>. DEFINE high == v \div 65536
            low == v % 65536
<1>1. v \in Int /\ Int32Min <= v /\ v <= Int32Max
  BY SMT, BoundTypes DEF Int32
<1>2. /\ v = 65536 * high + low /\ high \in Int /\ low \in Int
      /\ 0 <= low /\ low < 65536
  BY SMT, <1>1
<1>. HIDE DEF high, low
<1>3. high \in Int16
  <2>1. -32768 <= high /\ high <= 32767
    BY SMT, <1>1, <1>2, BoundTypes, BoundValues
  <2>2. Int16Min <= high /\ high <= Int16Max
    BY SMT, <2>1, BoundValues
  <2>. QED
    BY SMT, <1>2, <2>2, BoundTypes DEF Int16
<1>4. GetU16(f, k) = low
  BY SMT, <1>1, U16Value DEF Holds32, low
<1>5. GetI16(f, k + 2) = high
  BY SMT, <1>3, Int16Value DEF Holds32, high
<1>. QED
  BY SMT, <1>2, <1>4, <1>5 DEF GetI32

(***************************************************************************)
(* Frames                                                                  *)
(***************************************************************************)

LEMMA ByteType == ASSUME NEW v PROVE ToByte(v) \in Byte
BY DEF ToByte, Byte

(* The bytes of s \o t are those of s and then those of t.                  *)
LEMMA ConcatBytes ==
  ASSUME NEW s \in Seq(Byte), NEW t \in Seq(Byte)
  PROVE  /\ s \o t \in Seq(Byte) /\ Len(s \o t) = Len(s) + Len(t)
         /\ \A i \in 1 .. Len(s) : (s \o t)[i] = s[i]
         /\ \A i \in 1 .. Len(t) : (s \o t)[Len(s) + i] = t[i]
<1>1. /\ s \o t \in Seq(Byte) /\ Len(s \o t) = Len(s) + Len(t)
      /\ \A i \in 1 .. Len(s) + Len(t) :
           (s \o t)[i] = IF i <= Len(s) THEN s[i] ELSE t[i - Len(s)]
  BY ConcatProperties
<1>2. ASSUME NEW i \in 1 .. Len(s)
      PROVE  (s \o t)[i] = s[i]
  <2>1. i \in 1 .. Len(s) + Len(t) /\ i <= Len(s)
    OBVIOUS
  <2>. QED
    BY <1>1, <2>1
<1>3. ASSUME NEW i \in 1 .. Len(t)
      PROVE  (s \o t)[Len(s) + i] = t[i]
  <2>1. /\ Len(s) + i \in 1 .. Len(s) + Len(t) /\ ~(Len(s) + i <= Len(s))
        /\ (Len(s) + i) - Len(s) = i
    OBVIOUS
  <2>. QED
    BY <1>1, <2>1
<1>. QED
  BY <1>1, <1>2, <1>3

(* Two bytes and four are that long, and hold their number.                *)
LEMMA Put16Type ==
  ASSUME NEW v
  PROVE  /\ Put16(v) \in Seq(Byte)
         /\ Len(Put16(v)) = 2
         /\ Put16(v)[1] = ToByte(v) /\ Put16(v)[2] = ToByte(v \div 256)
BY ByteType DEF Put16

LEMMA Put32Type ==
  ASSUME NEW v
  PROVE  /\ Put32(v) \in Seq(Byte)
         /\ Len(Put32(v)) = 4
         /\ Holds32(Put32(v), 1, v)
<1>. DEFINE low == Put16(v)
            high == Put16(v \div 65536)
<1>1. /\ low \in Seq(Byte) /\ Len(low) = 2
      /\ high \in Seq(Byte) /\ Len(high) = 2
  BY Put16Type
<1>2. /\ low[1] = ToByte(v) /\ low[2] = ToByte(v \div 256)
      /\ high[1] = ToByte(v \div 65536)
      /\ high[2] = ToByte((v \div 65536) \div 256)
  BY Put16Type
<1>3. Put32(v) = low \o high
  BY DEF Put32
<1>. HIDE DEF low, high
<1>4. /\ low \o high \in Seq(Byte) /\ Len(low \o high) = 4
      /\ (low \o high)[1] = low[1] /\ (low \o high)[2] = low[2]
      /\ (low \o high)[3] = high[1] /\ (low \o high)[4] = high[2]
  <2>1. /\ low \o high \in Seq(Byte)
        /\ Len(low \o high) = Len(low) + Len(high)
        /\ \A i \in 1 .. Len(low) : (low \o high)[i] = low[i]
        /\ \A i \in 1 .. Len(high) : (low \o high)[Len(low) + i] = high[i]
    BY <1>1, ConcatBytes
  <2>. QED
    BY <1>1, <2>1
<1>. QED
  BY <1>2, <1>3, <1>4 DEF Holds32, Holds16


(***************************************************************************)
(* The CRC over all bytes                                                  *)
(***************************************************************************)

(* The register before the first byte and after each: the recursion of     *)
(* CrcOver, which has a solution whatever the data is.                     *)
Loop(register, rounds, crc, data, n) ==
  register = [k \in 0 .. n |->
                IF k = 0 THEN crc ELSE rounds[Xor(register[k - 1], data[k])]]

LEMMA LoopRuns ==
  ASSUME NEW rounds, NEW crc, NEW data, NEW n \in Nat
  PROVE  \E register : Loop(register, rounds, crc, data, n)
<1>. DEFINE S == {m \in Nat : \E r : Loop(r, rounds, crc, data, m)}
<1>1. 0 \in S
  <2>1. Loop([k \in 0 .. 0 |-> crc], rounds, crc, data, 0)
    BY DEF Loop
  <2>. QED
    BY <2>1
<1>2. ASSUME NEW m \in Nat, m \in S
      PROVE  m + 1 \in S
  <2>1. PICK r : Loop(r, rounds, crc, data, m)
    BY <1>2
  <2>. DEFINE q == [k \in 0 .. m + 1 |->
                      IF k = m + 1 THEN rounds[Xor(r[m], data[m + 1])]
                                   ELSE r[k]]
  <2>2. \A k \in 0 .. m + 1 :
          q[k] = IF k = 0 THEN crc ELSE rounds[Xor(q[k - 1], data[k])]
    <3>1. \A k \in 0 .. m :
            r[k] = IF k = 0 THEN crc ELSE rounds[Xor(r[k - 1], data[k])]
      BY <2>1 DEF Loop
    <3>2. \A k \in 0 .. m : q[k] = r[k]
      OBVIOUS
    <3>3. q[m + 1] = rounds[Xor(r[m], data[m + 1])]
      OBVIOUS
    <3>4. \A k \in 0 .. m + 1 :
            k = m + 1 \/ (k \in 0 .. m /\ (k = 0 \/ k - 1 \in 0 .. m))
      OBVIOUS
    <3>. HIDE DEF q
    <3>. QED
      BY <3>1, <3>2, <3>3, <3>4
  <2>3. Loop(q, rounds, crc, data, m + 1)
    BY <2>2 DEF Loop
  <2>. QED
    BY <2>3
<1>. HIDE DEF S
<1>3. Nat \subseteq S
  BY <1>1, <1>2, NatSetInduction
<1>. QED
  BY <1>3 DEF S

(* What Crc8Update() has in its register, byte by byte.                    *)
Registers(r, crc, data, N) ==
  /\ r \in [0 .. N -> Byte]
  /\ r[0] = crc /\ r[N] = Crc8Update(crc, data)
  /\ \A k \in 1 .. N : r[k] = CrcByte[Xor(r[k - 1], data[k])]

LEMMA CrcRegisters ==
  ASSUME NEW crc \in Byte, NEW data \in Seq(Byte), NEW N \in Nat, Len(data) = N
  PROVE  \E r : Registers(r, crc, data, N)
<1>. DEFINE R == CHOOSE r : Loop(r, CrcByte, crc, data, N)
            S == {n \in Nat : n <= N => R[n] \in Byte}
<1>1. N \in Nat /\ \A k \in 1 .. N : data[k] \in Byte
  BY ElementOfSeq
<1>2. Loop(R, CrcByte, crc, data, N)
  BY <1>1, LoopRuns
<1>3. R[N] = Crc8Update(crc, data)
  BY DEF Crc8Update, CrcOver, Loop
<1>. HIDE DEF R
<1>4. /\ DOMAIN R = 0 .. N
      /\ R[0] = crc
      /\ \A k \in 1 .. N : R[k] = CrcByte[Xor(R[k - 1], data[k])]
      /\ R = [k \in 0 .. N |-> R[k]]
  <2>1. R = [k \in 0 .. N |->
               IF k = 0 THEN crc ELSE CrcByte[Xor(R[k - 1], data[k])]]
    BY <1>2 DEF Loop
  <2>2. /\ DOMAIN R = 0 .. N
        /\ R = [k \in 0 .. N |-> R[k]]
        /\ \A k \in 0 .. N :
             R[k] = IF k = 0 THEN crc ELSE CrcByte[Xor(R[k - 1], data[k])]
    BY <2>1
  <2>3. 0 \in 0 .. N /\ \A k \in 1 .. N : k \in 0 .. N /\ k # 0
    BY <1>1
  <2>. QED
    BY <2>2, <2>3
<1>5. ASSUME NEW n \in Nat, n \in S
      PROVE  n + 1 \in S
  <2>. SUFFICES ASSUME n + 1 <= N
                PROVE  R[n + 1] \in Byte
    OBVIOUS
  <2>1. R[n] \in Byte /\ data[n + 1] \in Byte /\ n + 1 \in 1 .. N
    BY <1>1, <1>5
  <2>2. R[n + 1] = CrcByte[Xor(R[n], data[n + 1])]
    <3>1. (n + 1) - 1 = n
      OBVIOUS
    <3>. QED
      BY <1>4, <2>1, <3>1
  <2>3. Xor(R[n], data[n + 1]) \in Byte
    BY <2>1, XorFacts
  <2>. QED
    BY <2>2, <2>3, ByteRounds
<1>6. 0 \in S
  BY <1>4
<1>7. Nat \subseteq S
  <2>. HIDE DEF S
  <2>. QED
    BY <1>5, <1>6, NatSetInduction
<1>8. R \in [0 .. N -> Byte]
  BY <1>1, <1>4, <1>7
<1>. QED
  BY <1>3, <1>4, <1>8 DEF Registers

(* What differs has a difference.                                          *)
LEMMA XorApart == ASSUME NEW a, NEW b, a # b PROVE Xor(a, b) # {}
BY DEF Xor

(* The difference of two runs depends on that of their data alone.         *)
Difference(d, c1, c2, x, y, N) ==
  /\ d \in [0 .. N -> Byte]
  /\ d[0] = Xor(c1, c2)
  /\ d[N] = Xor(Crc8Update(c1, x), Crc8Update(c2, y))
  /\ \A k \in 1 .. N :
       d[k] = CrcByte[Xor(d[k - 1], Xor(x[k], y[k]))]

LEMMA CrcDifference ==
  ASSUME NEW c1 \in Byte, NEW c2 \in Byte,
         NEW x \in Seq(Byte), NEW y \in Seq(Byte),
         NEW N \in Nat, Len(x) = N, Len(y) = N
  PROVE  \E d : Difference(d, c1, c2, x, y, N)
<1>0. /\ N \in Nat /\ Len(y) = N
      /\ \A k \in 1 .. N : x[k] \in Byte /\ y[k] \in Byte
  BY ElementOfSeq
<1>1. PICK r : Registers(r, c1, x, N)
  BY CrcRegisters
<1>2. PICK q : Registers(q, c2, y, N)
  BY CrcRegisters
<1>. DEFINE d == [k \in 0 .. N |-> Xor(r[k], q[k])]
<1>3. d \in [0 .. N -> Byte]
  BY <1>1, <1>2, XorFacts DEF Registers
<1>4. d[0] = Xor(c1, c2) /\ d[N] = Xor(Crc8Update(c1, x), Crc8Update(c2, y))
  BY <1>0, <1>1, <1>2 DEF Registers
<1>5. ASSUME NEW k \in 1 .. N
      PROVE  d[k] = CrcByte[Xor(d[k - 1], Xor(x[k], y[k]))]
  <2>1. k \in 0 .. N /\ k - 1 \in 0 .. N
    BY <1>0
  <2>2. d[k] = Xor(r[k], q[k]) /\ d[k - 1] = Xor(r[k - 1], q[k - 1])
    BY <2>1
  <2>3. /\ r[k - 1] \in Byte /\ q[k - 1] \in Byte
        /\ x[k] \in Byte /\ y[k] \in Byte
    BY <1>0, <1>1, <1>2, <2>1 DEF Registers
  <2>. HIDE DEF d
  <2>4. Xor(r[k - 1], x[k]) \in Byte /\ Xor(q[k - 1], y[k]) \in Byte
    BY <2>3, XorFacts
  <2>5. d[k] = CrcByte[Xor(Xor(r[k - 1], x[k]), Xor(q[k - 1], y[k]))]
    BY <1>1, <1>2, <2>2, <2>4, ByteIsLinear DEF Registers
  <2>6. Xor(Xor(r[k - 1], x[k]), Xor(q[k - 1], y[k]))
          = Xor(Xor(r[k - 1], q[k - 1]), Xor(x[k], y[k]))
    BY XorFacts
  <2>. QED
    BY <2>2, <2>5, <2>6
<1>. HIDE DEF d
<1>. QED
  BY <1>3, <1>4, <1>5 DEF Difference

(* Registers that differ, differ after the same data.                      *)
LEMMA CrcIsInjective ==
  ASSUME NEW c1 \in Byte, NEW c2 \in Byte, c1 # c2, NEW x \in Seq(Byte)
  PROVE  Crc8Update(c1, x) # Crc8Update(c2, x)
<1>. DEFINE N == Len(x)
<1>1. N \in Nat
  OBVIOUS
<1>2. PICK d : Difference(d, c1, c2, x, x, N)
  BY <1>1, CrcDifference
<1>. HIDE DEF N
<1>. DEFINE S == {n \in Nat : n <= N => d[n] # {}}
<1>3. 0 \in S
  BY <1>2, XorApart DEF Difference
<1>4. ASSUME NEW n \in Nat, n \in S
      PROVE  n + 1 \in S
  <2>. SUFFICES ASSUME n + 1 <= N PROVE d[n + 1] # {}
    OBVIOUS
  <2>1. /\ n + 1 \in 1 .. N /\ (n + 1) - 1 = n /\ n \in 0 .. N
        /\ d[n] # {}
    BY <1>1, <1>4
  <2>2. d[n + 1] = CrcByte[Xor(d[n], Xor(x[n + 1], x[n + 1]))]
    BY <1>2, <2>1 DEF Difference
  <2>3. Xor(d[n], Xor(x[n + 1], x[n + 1])) = d[n]
    BY XorFacts
  <2>4. d[n] \in Byte
    BY <1>2, <2>1 DEF Difference
  <2>. QED
    BY <2>1, <2>2, <2>3, <2>4, ByteIsInjective
<1>5. Nat \subseteq S
  <2>. HIDE DEF S
  <2>. QED
    BY <1>3, <1>4, NatSetInduction
<1>6. d[N] # {}
  BY <1>1, <1>5
<1>. QED
  BY <1>2, <1>6, XorFacts DEF Difference

(***************************************************************************)
(* Damage                                                                  *)
(***************************************************************************)

(* e is what happened to each byte of a frame, s the difference it makes to*)
(* the register when the byte has gone in; the last byte is the CRC.       *)
Syndrome(s, e) ==
  /\ s \in [1 .. 8 -> Byte] /\ e \in [1 .. 8 -> Byte]
  /\ s[1] = e[1]
  /\ \A k \in 1 .. 7 : s[k + 1] = Xor(CrcByte[s[k]], e[k + 1])

(* Up to the first damaged byte there is no difference, and a difference   *)
(* that the last damaged byte leaves stays to the end.                     *)
LEMMA CleanBefore ==
  ASSUME NEW s, NEW e, Syndrome(s, e), NEW k \in 1 .. 8,
         \A j \in 1 .. 8 : j < k => e[j] = {}
  PROVE  s[k] = e[k]
<1>. DEFINE S == {n \in Nat : n + 1 <= k => s[n + 1] = e[n + 1]}
<1>1. 0 \in S
  BY DEF Syndrome
<1>2. ASSUME NEW n \in Nat, n \in S
      PROVE  n + 1 \in S
  <2>. SUFFICES ASSUME (n + 1) + 1 <= k
                PROVE  s[(n + 1) + 1] = e[(n + 1) + 1]
    OBVIOUS
  <2>1. n + 1 \in 1 .. 7 /\ n + 1 \in 1 .. 8 /\ n + 1 < k
    OBVIOUS
  <2>2. s[n + 1] = {}
    BY <1>2, <2>1
  <2>3. s[(n + 1) + 1] = Xor({}, e[(n + 1) + 1])
    BY <2>1, <2>2, ByteIsInjective DEF Syndrome
  <2>. QED
    BY <2>3, XorFacts
<1>3. Nat \subseteq S
  <2>. HIDE DEF S
  <2>. QED
    BY <1>1, <1>2, NatSetInduction
<1>4. k - 1 \in Nat /\ (k - 1) + 1 = k
  OBVIOUS
<1>. QED
  BY <1>3, <1>4

LEMMA CleanAfter ==
  ASSUME NEW s, NEW e, Syndrome(s, e), NEW k \in 1 .. 8, s[k] # {},
         \A j \in 1 .. 8 : k < j => e[j] = {}
  PROVE  s[8] # {}
<1>. DEFINE S == {n \in Nat : k + n <= 8 => s[k + n] # {}}
<1>1. 0 \in S
  <2>1. k + 0 = k
    OBVIOUS
  <2>. QED
    BY <2>1
<1>2. ASSUME NEW n \in Nat, n \in S
      PROVE  n + 1 \in S
  <2>. SUFFICES ASSUME k + (n + 1) <= 8
                PROVE  s[k + (n + 1)] # {}
    OBVIOUS
  <2>1. /\ k + n \in 1 .. 7 /\ k + n \in 1 .. 8
        /\ k + (n + 1) = (k + n) + 1
        /\ (k + n) + 1 \in 1 .. 8 /\ k < (k + n) + 1
    OBVIOUS
  <2>2. s[k + n] # {} /\ s[k + n] \in Byte
    BY <1>2, <2>1 DEF Syndrome
  <2>3. s[(k + n) + 1] = Xor(CrcByte[s[k + n]], {})
    BY <2>1 DEF Syndrome
  <2>4. s[(k + n) + 1] = CrcByte[s[k + n]]
    BY <2>3, XorFacts
  <2>. QED
    BY <2>1, <2>2, <2>4, ByteIsInjective
<1>3. Nat \subseteq S
  <2>. HIDE DEF S
  <2>. QED
    BY <1>1, <1>2, NatSetInduction
<1>4. 8 - k \in Nat /\ k + (8 - k) = 8
  OBVIOUS
<1>. QED
  BY <1>3, <1>4

(* Within eight consecutive bits, the first of them the bit 7 - o of byte k.*)
LEMMA BurstIsNoticed ==
  ASSUME NEW s, NEW e, Syndrome(s, e), NEW k \in 1 .. 8, NEW o \in 0 .. 7,
         \A j \in 1 .. 8 : e[j] # {} => j = k \/ j = k + 1,
         \A i \in e[k] : i <= 7 - o,
         k < 8 => \A i \in e[k + 1] : i >= 8 - o,
         \E j \in 1 .. 8 : e[j] # {}
  PROVE  s[8] # {}
<1>1. s[k] = e[k] /\ e[k] \in Byte
  <2>1. \A j \in 1 .. 8 : j < k => e[j] = {}
    OBVIOUS
  <2>. QED
    BY <2>1, CleanBefore DEF Syndrome
<1>2. CASE k = 8
  <2>1. e[k] # {}
    BY <1>2
  <2>. QED
    BY <1>1, <1>2, <2>1
<1>3. CASE k < 8
  <2>1. k \in 1 .. 7 /\ k + 1 \in 1 .. 8 /\ k # k + 1
    BY <1>3
  <2>2. s[k + 1] = Xor(CrcByte[e[k]], e[k + 1]) /\ e[k + 1] \in Byte
    BY <1>1, <2>1 DEF Syndrome
  <2>3. e[k] # {} \/ e[k + 1] # {}
    OBVIOUS
  <2>4. CrcByte[e[k]] # e[k + 1]
    BY <1>1, <1>3, <2>2, <2>3, BurstChangesCrc
  <2>5. s[k + 1] # {}
    BY <2>2, <2>4, XorFacts
  <2>6. \A j \in 1 .. 8 : k + 1 < j => e[j] = {}
    OBVIOUS
  <2>. QED
    BY <2>1, <2>5, <2>6, CleanAfter
<1>. QED
  BY <1>2, <1>3

(* One bit in each of two bytes.                                           *)
TwoBits(e, k, a, l, b) ==
  /\ k < l /\ e[k] = {a} /\ e[l] = {b}
  /\ \A j \in 1 .. 8 : e[j] # {} => j = k \/ j = l

LEMMA TwoBitsAreNoticed ==
  ASSUME NEW s, NEW e, Syndrome(s, e),
         NEW k \in 1 .. 8, NEW a \in 0 .. 7,
         NEW l \in 1 .. 8, NEW b \in 0 .. 7, TwoBits(e, k, a, l, b)
  PROVE  s[8] # {}
<1>. USE DEF TwoBits
<1>. DEFINE S == {n \in Nat : k + n < l => s[k + n] = Power[8 * n + a + 1]}
<1>1. 0 \in S
  <2>1. \A j \in 1 .. 8 : j < k => e[j] = {}
    OBVIOUS
  <2>2. s[k] = {a}
    BY <2>1, CleanBefore
  <2>3. Power[a + 1] = {a}
    BY DEF Power
  <2>4. k + 0 = k /\ 8 * 0 + a + 1 = a + 1
    OBVIOUS
  <2>. QED
    BY <2>2, <2>3, <2>4
<1>2. ASSUME NEW n \in Nat, n \in S
      PROVE  n + 1 \in S
  <2>. SUFFICES ASSUME k + (n + 1) < l
                PROVE  s[k + (n + 1)] = Power[8 * (n + 1) + a + 1]
    OBVIOUS
  <2>1. /\ k + n \in 1 .. 7 /\ k + (n + 1) = (k + n) + 1
        /\ (k + n) + 1 \in 1 .. 8 /\ (k + n) + 1 # k /\ (k + n) + 1 # l
        /\ 8 * n + a + 1 \in 1 .. 56
        /\ 8 * (n + 1) + a + 1 = (8 * n + a + 1) + 8
    OBVIOUS
  <2>2. s[k + n] = Power[8 * n + a + 1]
    BY <1>2, <2>1
  <2>3. s[(k + n) + 1] = Xor(CrcByte[s[k + n]], {})
    BY <2>1 DEF Syndrome
  <2>4. CrcByte[s[k + n]] = Power[(8 * n + a + 1) + 8]
    BY <2>1, <2>2, PowerByte
  <2>. QED
    BY <2>1, <2>3, <2>4, XorFacts
<1>3. Nat \subseteq S
  <2>. HIDE DEF S
  <2>. QED
    BY <1>1, <1>2, NatSetInduction
<1>. DEFINE n == l - k - 1
<1>4. /\ n \in Nat /\ k + n = l - 1 /\ k + n < l /\ l - 1 \in 1 .. 7
      /\ (l - 1) + 1 = l /\ 8 * n + a + 1 \in 1 .. 56
      /\ (8 * n + a + 1) + 8 \in 1 .. 64 /\ (8 * n + a + 1) + 8 > 8
  OBVIOUS
<1>. HIDE DEF n
<1>5. s[l - 1] = Power[8 * n + a + 1]
  BY <1>3, <1>4
<1>6. s[l] = Xor(Power[(8 * n + a + 1) + 8], {b})
  <2>1. s[(l - 1) + 1] = Xor(CrcByte[s[l - 1]], e[(l - 1) + 1])
    BY <1>4 DEF Syndrome
  <2>2. CrcByte[s[l - 1]] = Power[(8 * n + a + 1) + 8]
    BY <1>4, <1>5, PowerByte
  <2>3. e[l] = {b}
    OBVIOUS
  <2>. QED
    BY <1>4, <2>1, <2>2, <2>3
<1>7. s[l] # {}
  <2>1. Power[(8 * n + a + 1) + 8] # {b}
    BY <1>4, PowerType
  <2>. QED
    BY <1>6, <2>1, XorApart
<1>8. \A j \in 1 .. 8 : l < j => e[j] = {}
  OBVIOUS
<1>. QED
  BY <1>7, <1>8, CleanAfter

(***************************************************************************)
(* The envelope                                                            *)
(***************************************************************************)

(* The seven bytes a CRC covers.                                           *)
LEMMA BodyBytes ==
  ASSUME NEW f \in Seq(Byte), Len(f) >= 7
  PROVE  /\ Body(f) \in Seq(Byte) /\ Len(Body(f)) = 7
         /\ \A i \in 1 .. 7 : Body(f)[i] = f[i]
<1>1. \A i \in 1 .. 7 : f[i] \in Byte
  BY ElementOfSeq
<1>2. Body(f) = SubSeq(f, 1, 7)
  BY DEF Body, FramePayload
<1>. QED
  BY <1>1, <1>2, SubSeqProperties

(* A CRC is a byte.                                                        *)
LEMMA CrcType ==
  ASSUME NEW id, NEW body \in Seq(Byte)
  PROVE  /\ Crc8Update(Ones, IdBytes(id)) \in Byte
         /\ Crc8Update(Crc8Update(Ones, IdBytes(id)), body) \in Byte
         /\ FrameCrc8(id, body) \in Byte
<1>1. ASSUME NEW c \in Byte, NEW data \in Seq(Byte)
      PROVE  Crc8Update(c, data) \in Byte
  <2>1. Len(data) \in Nat /\ Len(data) \in 0 .. Len(data)
    OBVIOUS
  <2>2. PICK r : Registers(r, c, data, Len(data))
    BY <2>1, CrcRegisters
  <2>. QED
    BY <2>1, <2>2 DEF Registers
<1>2. Ones \in Byte
  BY DEF Ones, Byte
<1>3. IdBytes(id) \in Seq(Byte)
  BY Put32Type DEF IdBytes
<1>4. Crc8Update(Ones, IdBytes(id)) \in Byte
  BY <1>1, <1>2, <1>3
<1>5. Crc8Update(Crc8Update(Ones, IdBytes(id)), body) \in Byte
  BY <1>1, <1>4
<1>. QED
  BY <1>2, <1>4, <1>5, XorFacts DEF FrameCrc8

(* If a receiver accepts both of two frames, their difference leaves none. *)
LEMMA DamageShows ==
  ASSUME NEW id, NEW f \in Seq(Byte), NEW g \in Seq(Byte),
         Len(f) = 8, Len(g) = 8,
         OpenFrame(id, f) = "OK", OpenFrame(id, g) = "OK",
         NEW e, e = [k \in 1 .. 8 |-> Xor(f[k], g[k])]
  PROVE  \E s : Syndrome(s, e) /\ s[8] = {}
<1>. DEFINE x == Body(f)
            y == Body(g)
            c == Crc8Update(Ones, IdBytes(id))
<1>1. /\ x \in Seq(Byte) /\ Len(x) = 7 /\ \A k \in 1 .. 7 : x[k] = f[k]
      /\ y \in Seq(Byte) /\ Len(y) = 7 /\ \A k \in 1 .. 7 : y[k] = g[k]
  <2>1. Len(f) >= 7 /\ Len(g) >= 7
    OBVIOUS
  <2>. HIDE DEF x, y
  <2>. QED
    BY <2>1, BodyBytes DEF x, y
<1>2. /\ f[8] = Xor(Crc8Update(c, x), Ones)
      /\ g[8] = Xor(Crc8Update(c, y), Ones)
  BY DEF OpenFrame, FrameDlc, FrameCrc8
<1>3. c \in Byte
  BY <1>1, CrcType
<1>. HIDE DEF c, x, y
<1>4. PICK d : Difference(d, c, c, x, y, 7)
  BY <1>1, <1>3, CrcDifference
<1>5. e \in [1 .. 8 -> Byte] /\ \A k \in 1 .. 8 : e[k] = Xor(f[k], g[k])
  <2>1. \A k \in 1 .. 8 : f[k] \in Byte /\ g[k] \in Byte
    BY ElementOfSeq
  <2>. QED
    BY <2>1, XorFacts
<1>6. e[8] = d[7]
  <2>1. e[8] = Xor(Xor(Crc8Update(c, x), Ones), Xor(Crc8Update(c, y), Ones))
    BY <1>2, <1>5
  <2>2. Xor(Xor(Crc8Update(c, x), Ones), Xor(Crc8Update(c, y), Ones))
          = Xor(Xor(Crc8Update(c, x), Crc8Update(c, y)), Xor(Ones, Ones))
    BY XorFacts
  <2>. QED
    BY <1>4, <2>1, <2>2, XorFacts DEF Difference
<1>. DEFINE s == [k \in 1 .. 8 |-> Xor(d[k - 1], e[k])]
<1>7. s \in [1 .. 8 -> Byte]
  <2>1. \A k \in 1 .. 8 : d[k - 1] \in Byte /\ e[k] \in Byte
    BY <1>4, <1>5 DEF Difference
  <2>. QED
    BY <2>1, XorFacts
<1>8. s[1] = e[1]
  <2>1. d[0] = {} /\ s[1] = Xor(d[0], e[1])
    BY <1>4, XorFacts DEF Difference
  <2>. QED
    BY <2>1, XorFacts
<1>9. ASSUME NEW k \in 1 .. 7
      PROVE  s[k + 1] = Xor(CrcByte[s[k]], e[k + 1])
  <2>1. k + 1 \in 1 .. 8 /\ (k + 1) - 1 = k /\ k \in 1 .. 8
    OBVIOUS
  <2>2. s[k + 1] = Xor(d[k], e[k + 1]) /\ s[k] = Xor(d[k - 1], e[k])
    BY <2>1
  <2>3. d[k] = CrcByte[Xor(d[k - 1], e[k])]
    BY <1>1, <1>4, <1>5, <2>1 DEF Difference
  <2>. HIDE DEF s
  <2>. QED
    BY <2>2, <2>3
<1>10. s[8] = {}
  <2>1. s[8] = Xor(d[7], e[8])
    OBVIOUS
  <2>. QED
    BY <1>6, <2>1, XorFacts
<1>. HIDE DEF s
<1>11. Syndrome(s, e)
  BY <1>5, <1>7, <1>8, <1>9 DEF Syndrome
<1>. QED
  BY <1>10, <1>11

(* The identifiers in use differ in two low bits of two bytes.             *)
LEMMA IdValues ==
  ASSUME NEW k \in Kinds, NEW b, b = IdBytes(CanId[k])
  PROVE  /\ b \in Seq(Byte) /\ Len(b) = 4
         /\ b[1] \subseteq {0, 1} /\ b[2] \subseteq {0, 1}
         /\ b[3] = {} /\ b[4] = {}
         /\ \A l \in Kinds :
              b[1] = IdBytes(CanId[l])[1] /\ b[2] = IdBytes(CanId[l])[2]
                => k = l
<1>1. ASSUME NEW l \in Kinds
      PROVE  \/ l = "CONTROL" /\ CanId[l] = 256
             \/ l = "TELEM_DRIVE_L" /\ CanId[l] = 512
             \/ l = "TELEM_DRIVE_R" /\ CanId[l] = 513
             \/ l = "TELEM_POWER" /\ CanId[l] = 514
             \/ l = "TELEM_STATE" /\ CanId[l] = 515
  BY DEF Kinds, CanId
<1>2. /\ ToByte(0) = {} /\ ToByte(1) = {0} /\ ToByte(2) = {1}
      /\ ToByte(256) = {} /\ ToByte(512) = {}
      /\ ToByte(513) = {0} /\ ToByte(514) = {1} /\ ToByte(515) = {0, 1}
  BY DEF ToByte, Weight
<1>3. /\ 256 \div 256 = 1 /\ 512 \div 256 = 2 /\ 513 \div 256 = 2
      /\ 514 \div 256 = 2 /\ 515 \div 256 = 2 /\ 0 \div 256 = 0
      /\ 256 \div 65536 = 0 /\ 512 \div 65536 = 0 /\ 513 \div 65536 = 0
      /\ 514 \div 65536 = 0 /\ 515 \div 65536 = 0
  OBVIOUS
<1>4. \A v : /\ IdBytes(v) \in Seq(Byte) /\ Len(IdBytes(v)) = 4
             /\ IdBytes(v)[1] = ToByte(v)
             /\ IdBytes(v)[2] = ToByte(v \div 256)
             /\ IdBytes(v)[3] = ToByte(v \div 65536)
             /\ IdBytes(v)[4] = ToByte((v \div 65536) \div 256)
  BY Put32Type DEF IdBytes, Holds32, Holds16
<1>5. ASSUME NEW l \in Kinds
      PROVE  /\ IdBytes(CanId[l])[3] = {} /\ IdBytes(CanId[l])[4] = {}
             /\ \/ /\ l = "CONTROL"
                   /\ IdBytes(CanId[l])[1] = {} /\ IdBytes(CanId[l])[2] = {0}
                \/ /\ l = "TELEM_DRIVE_L"
                   /\ IdBytes(CanId[l])[1] = {} /\ IdBytes(CanId[l])[2] = {1}
                \/ /\ l = "TELEM_DRIVE_R"
                   /\ IdBytes(CanId[l])[1] = {0} /\ IdBytes(CanId[l])[2] = {1}
                \/ /\ l = "TELEM_POWER"
                   /\ IdBytes(CanId[l])[1] = {1} /\ IdBytes(CanId[l])[2] = {1}
                \/ /\ l = "TELEM_STATE"
                   /\ IdBytes(CanId[l])[1] = {0, 1}
                   /\ IdBytes(CanId[l])[2] = {1}
  <2>1. /\ IdBytes(256)[1] = {} /\ IdBytes(256)[2] = {0}
        /\ IdBytes(256)[3] = {} /\ IdBytes(256)[4] = {}
    BY <1>2, <1>3, <1>4
  <2>2. /\ IdBytes(512)[1] = {} /\ IdBytes(512)[2] = {1}
        /\ IdBytes(512)[3] = {} /\ IdBytes(512)[4] = {}
    BY <1>2, <1>3, <1>4
  <2>3. /\ IdBytes(513)[1] = {0} /\ IdBytes(513)[2] = {1}
        /\ IdBytes(513)[3] = {} /\ IdBytes(513)[4] = {}
    BY <1>2, <1>3, <1>4
  <2>4. /\ IdBytes(514)[1] = {1} /\ IdBytes(514)[2] = {1}
        /\ IdBytes(514)[3] = {} /\ IdBytes(514)[4] = {}
    BY <1>2, <1>3, <1>4
  <2>5. /\ IdBytes(515)[1] = {0, 1} /\ IdBytes(515)[2] = {1}
        /\ IdBytes(515)[3] = {} /\ IdBytes(515)[4] = {}
    BY <1>2, <1>3, <1>4
  <2>. QED
    BY <1>1, <2>1, <2>2, <2>3, <2>4, <2>5
<1>6. b \in Seq(Byte) /\ Len(b) = 4
  BY <1>4
<1>7. /\ b[1] \subseteq {0, 1} /\ b[2] \subseteq {0, 1}
      /\ b[3] = {} /\ b[4] = {}
  BY <1>5
<1>8. {0} # {} /\ {1} # {} /\ {0} # {1} /\ {0, 1} # {} /\ {0, 1} # {0}
      /\ {0, 1} # {1}
  <2>1. 0 # 1
    OBVIOUS
  <2>2. \A i, j : i # j => {i} # {} /\ {i} # {j} /\ {i, j} # {i}
                            /\ {i, j} # {} /\ {i, j} # {j}
    BY Zenon
  <2>. QED
    BY <2>1, <2>2, Zenon
<1>9. ASSUME NEW l \in Kinds,
             b[1] = IdBytes(CanId[l])[1], b[2] = IdBytes(CanId[l])[2]
      PROVE  k = l
  BY <1>5, <1>8, <1>9, Zenon
<1>. QED
  BY <1>6, <1>7, <1>9

(* Hence they leave different registers, and a frame opens under one only. *)
LEMMA IdsShow ==
  ASSUME NEW k \in Kinds, NEW l \in Kinds, k # l
  PROVE  Crc8Update(Ones, IdBytes(CanId[k]))
           # Crc8Update(Ones, IdBytes(CanId[l]))
<1>. DEFINE x == IdBytes(CanId[k])
            y == IdBytes(CanId[l])
<1>1. /\ x \in Seq(Byte) /\ Len(x) = 4
      /\ x[1] \subseteq {0, 1} /\ x[2] \subseteq {0, 1}
      /\ x[3] = {} /\ x[4] = {}
      /\ y \in Seq(Byte) /\ Len(y) = 4
      /\ y[1] \subseteq {0, 1} /\ y[2] \subseteq {0, 1}
      /\ y[3] = {} /\ y[4] = {}
      /\ x[1] # y[1] \/ x[2] # y[2]
  BY IdValues
<1>2. Ones \in Byte
  BY DEF Ones, Byte
<1>. HIDE DEF x, y
<1>3. PICK d : Difference(d, Ones, Ones, x, y, 4)
  BY <1>1, <1>2, CrcDifference
<1>4. /\ d[1] = CrcByte[Xor(d[0], Xor(x[1], y[1]))]
      /\ d[2] = CrcByte[Xor(d[1], Xor(x[2], y[2]))]
      /\ d[3] = CrcByte[Xor(d[2], Xor(x[3], y[3]))]
      /\ d[4] = CrcByte[Xor(d[3], Xor(x[4], y[4]))]
  <2>1. /\ d[1] = CrcByte[Xor(d[1 - 1], Xor(x[1], y[1]))]
        /\ d[2] = CrcByte[Xor(d[2 - 1], Xor(x[2], y[2]))]
        /\ d[3] = CrcByte[Xor(d[3 - 1], Xor(x[3], y[3]))]
        /\ d[4] = CrcByte[Xor(d[4 - 1], Xor(x[4], y[4]))]
    BY <1>3 DEF Difference
  <2>. QED
    BY <2>1
<1>. DEFINE e1 == Xor(x[1], y[1])
            e2 == Xor(x[2], y[2])
<1>5. d[1] = CrcByte[e1] /\ d[2] = CrcByte[Xor(CrcByte[e1], e2)]
  BY <1>3, <1>4, XorFacts DEF Difference
<1>6. d[3] = CrcByte[d[2]] /\ d[4] = CrcByte[d[3]]
  <2>1. \A a : Xor(a, Xor({}, {})) = a
    BY XorFacts
  <2>. QED
    BY <1>1, <1>4, <2>1
<1>7. /\ e1 \in Byte /\ e1 \subseteq {0, 1}
      /\ e2 \in Byte /\ e2 \subseteq {0, 1}
      /\ e1 # {} \/ e2 # {}
  <2>1. x[1] \in Byte /\ y[1] \in Byte /\ x[2] \in Byte /\ y[2] \in Byte
    BY <1>1, ElementOfSeq
  <2>2. e1 \in Byte /\ e2 \in Byte
    BY <2>1, XorFacts
  <2>3. e1 \subseteq {0, 1} /\ e2 \subseteq {0, 1}
    BY <1>1 DEF Xor
  <2>. QED
    BY <1>1, <2>2, <2>3, XorApart
<1>. HIDE DEF e1, e2
<1>8. CrcByte[e1] # e2
  BY <1>7, TwoLowBits, ByteIsInjective
<1>9. Xor(CrcByte[e1], e2) # {} /\ Xor(CrcByte[e1], e2) \in Byte
  BY <1>7, <1>8, XorApart, XorFacts, ByteRounds
<1>10. /\ d[2] \in Byte /\ d[3] \in Byte
  BY <1>3 DEF Difference
<1>11. d[4] # {}
  BY <1>5, <1>6, <1>9, <1>10, ByteIsInjective
<1>. QED
  BY <1>3, <1>11, XorFacts DEF Difference, x, y

LEMMA MisrouteShows ==
  ASSUME NEW k \in Kinds, NEW l \in Kinds, k # l,
         NEW f \in Seq(Byte), OpenFrame(CanId[k], f) = "OK"
  PROVE  OpenFrame(CanId[l], f) # "OK"
<1>. SUFFICES ASSUME OpenFrame(CanId[l], f) = "OK"
              PROVE  FALSE
  OBVIOUS
<1>. DEFINE x == Body(f)
            c == Crc8Update(Ones, IdBytes(CanId[k]))
            d == Crc8Update(Ones, IdBytes(CanId[l]))
<1>1. /\ Len(f) = 8
      /\ f[8] = Xor(Crc8Update(c, x), Ones)
      /\ f[8] = Xor(Crc8Update(d, x), Ones)
  BY DEF OpenFrame, FrameDlc, FrameCrc8
<1>2. x \in Seq(Byte)
  <2>1. Len(f) >= 7
    BY <1>1
  <2>. QED
    BY <2>1, BodyBytes
<1>3. c \in Byte /\ d \in Byte /\ c # d
  BY <1>2, CrcType, IdsShow
<1>. HIDE DEF x, c, d
<1>4. Crc8Update(c, x) # Crc8Update(d, x)
  BY <1>2, <1>3, CrcIsInjective
<1>5. \A a, b : Xor(a, Ones) = Xor(b, Ones) => a = b
  BY DEF Xor
<1>. QED
  BY <1>1, <1>4, <1>5

(* What bits of the frame do to its byte k.                                *)
Hit(bits, k) == {i \in 0 .. 7 : 8 * (k - 1) + 7 - i \in bits}

(* Each of the 64 bits is one bit of one byte.                             *)
LEMMA WhereBitsFall ==
  ASSUME NEW n \in 0 .. 63
  PROVE  /\ n \div 8 + 1 \in 1 .. 8 /\ 7 - (n % 8) \in 0 .. 7
         /\ n = 8 * (n \div 8) + (n % 8)
         /\ \A k \in 1 .. 8, i \in 0 .. 7 :
              8 * (k - 1) + 7 - i = n <=> k = n \div 8 + 1 /\ i = 7 - (n % 8)
<1>1. n \div 8 \in 0 .. 7 /\ n % 8 \in 0 .. 7 /\ n = 8 * (n \div 8) + (n % 8)
  OBVIOUS
<1>. DEFINE q == n \div 8
            r == n % 8
<1>2. q \in 0 .. 7 /\ r \in 0 .. 7 /\ n = 8 * q + r
  BY <1>1
<1>. HIDE DEF q, r
<1>3. \A k \in 1 .. 8, i \in 0 .. 7 :
              8 * (k - 1) + 7 - i = n <=> k = q + 1 /\ i = 7 - r
  BY <1>2
<1>. QED
  BY <1>1, <1>3 DEF q, r

(* Bits whose damage shows: it leaves a difference between the last bytes. *)
Shows(bits) ==
  \A s, e : Syndrome(s, e) /\ (\A k \in 1 .. 8 : e[k] = Hit(bits, k))
              => s[8] # {}

(* Damage that shows is refused.                                           *)
LEMMA Noticed ==
  ASSUME NEW id, NEW f \in Seq(Byte), OpenFrame(id, f) = "OK",
         NEW bits, Shows(bits),
         NEW g, g = [k \in DOMAIN f |-> Xor(f[k], Hit(bits, k))]
  PROVE  OpenFrame(id, g) # "OK"
<1>. SUFFICES ASSUME OpenFrame(id, g) = "OK" PROVE FALSE
  OBVIOUS
<1>1. Len(f) = 8
  BY DEF OpenFrame, FrameDlc
<1>2. DOMAIN f = 1 .. 8 /\ \A k \in 1 .. 8 : f[k] \in Byte
  BY <1>1, LenProperties
<1>3. \A k : Hit(bits, k) \in Byte
  BY DEF Hit, Byte
<1>4. /\ g \in [1 .. 8 -> Byte]
      /\ \A k \in 1 .. 8 : g[k] = Xor(f[k], Hit(bits, k))
  BY <1>2, <1>3, XorFacts
<1>5. g \in Seq(Byte) /\ Len(g) = 8
  BY <1>4
<1>. DEFINE e == [k \in 1 .. 8 |-> Xor(f[k], g[k])]
<1>6. PICK s : Syndrome(s, e) /\ s[8] = {}
  BY ONLY f \in Seq(Byte), OpenFrame(id, f) = "OK", OpenFrame(id, g) = "OK",
          <1>1, <1>5, DamageShows
<1>7. ASSUME NEW k \in 1 .. 8
      PROVE  e[k] = Hit(bits, k)
  <2>1. e[k] = Xor(f[k], Xor(f[k], Hit(bits, k)))
    BY <1>4
  <2>2. \A a, b : Xor(a, Xor(a, b)) = b
    BY DEF Xor
  <2>. QED
    BY <2>1, <2>2
<1>. HIDE DEF e
<1>. QED
  BY <1>6, <1>7 DEF Shows

(* One bit or two, and any damage within eight consecutive bits, makes one.*)
LEMMA PairOfBits ==
  ASSUME NEW p \in 0 .. 63, NEW q \in 0 .. 63, p <= q
  PROVE  Shows({p, q})
<1>. SUFFICES ASSUME NEW s, NEW e, Syndrome(s, e),
                     \A k \in 1 .. 8 : e[k] = Hit({p, q}, k)
              PROVE  s[8] # {}
  BY DEF Shows
<1>. DEFINE k == p \div 8 + 1
            l == q \div 8 + 1
            a == 7 - (p % 8)
            b == 7 - (q % 8)
<1>1. /\ k \in 1 .. 8 /\ l \in 1 .. 8 /\ a \in 0 .. 7 /\ b \in 0 .. 7
      /\ k <= l
  BY WhereBitsFall
<1>2. \A j \in 1 .. 8, i \in 0 .. 7 :
        i \in e[j] <=> (j = k /\ i = a) \/ (j = l /\ i = b)
  BY WhereBitsFall DEF Hit
<1>3. \A j \in 1 .. 8 : e[j] \subseteq 0 .. 7
  BY DEF Hit
<1>. HIDE DEF k, l, a, b
<1>4. CASE k < l
  <2>1. e[k] = {a} /\ e[l] = {b}
    BY <1>1, <1>2, <1>3, <1>4
  <2>2. \A j \in 1 .. 8 : e[j] # {} => j = k \/ j = l
    BY <1>1, <1>2, <1>3
  <2>. QED
    <3>1. TwoBits(e, k, a, l, b)
      BY <1>4, <2>1, <2>2 DEF TwoBits
    <3>. QED
      BY <1>1, <3>1, TwoBitsAreNoticed
<1>5. CASE k = l
  <2>1. a \in e[k]
    BY <1>1, <1>2
  <2>2. \A j \in 1 .. 8 : e[j] # {} => j = k
    BY <1>2, <1>3, <1>5
  <2>3. e[k] # {} /\ \A j \in 1 .. 8 : j # k => e[j] = {}
    BY <2>1, <2>2
  <2>4. s[k] = e[k]
    BY <1>1, <2>3, CleanBefore
  <2>. QED
    BY <1>1, <2>3, <2>4, CleanAfter
<1>. QED
  BY <1>1, <1>4, <1>5

LEMMA EightBits ==
  ASSUME NEW p \in 0 .. 56, NEW b \in (SUBSET (0 .. 7)) \ {{}}
  PROVE  Shows({p + i : i \in b})
<1>. SUFFICES ASSUME NEW s, NEW e, Syndrome(s, e),
                     \A k \in 1 .. 8 : e[k] = Hit({p + i : i \in b}, k)
              PROVE  s[8] # {}
  BY DEF Shows
<1>. DEFINE k == p \div 8 + 1
            o == p % 8
<1>1. k \in 1 .. 8 /\ o \in 0 .. 7 /\ p = 8 * (k - 1) + o
  BY WhereBitsFall
<1>. HIDE DEF k, o
<1>2. ASSUME NEW j \in 1 .. 8, NEW i \in e[j]
      PROVE  /\ i \in 0 .. 7 /\ 8 * (j - 1) + 7 - i \in p .. p + 7
             /\ j = k \/ j = k + 1
             /\ j = k => i <= 7 - o
             /\ j = k + 1 => i >= 8 - o
  <2>1. PICK m \in b : i \in 0 .. 7 /\ 8 * (j - 1) + 7 - i = p + m
    BY DEF Hit
  <2>2. m \in 0 .. 7
    OBVIOUS
  <2>. QED
    BY <1>1, <2>1, <2>2
<1>3. \E j \in 1 .. 8 : e[j] # {}
  <2>1. PICK m \in b : m \in 0 .. 7
    OBVIOUS
  <2>. DEFINE j == (p + m) \div 8 + 1
              i == 7 - ((p + m) % 8)
  <2>2. p + m \in 0 .. 63
    BY <2>1
  <2>3. j \in 1 .. 8 /\ i \in 0 .. 7 /\ 8 * (j - 1) + 7 - i = p + m
    BY <2>2, WhereBitsFall
  <2>. HIDE DEF i, j
  <2>4. i \in e[j]
    BY <2>1, <2>3 DEF Hit
  <2>. QED
    BY <2>3, <2>4
<1>4. \A j \in 1 .. 8 : e[j] # {} => j = k \/ j = k + 1
  BY <1>2
<1>5. \A i \in e[k] : i <= 7 - o
  BY <1>1, <1>2
<1>6. k < 8 => \A i \in e[k + 1] : i >= 8 - o
  <2>. SUFFICES ASSUME k < 8, NEW i \in e[k + 1] PROVE i >= 8 - o
    OBVIOUS
  <2>1. k + 1 \in 1 .. 8
    BY <1>1
  <2>. QED
    BY <1>2, <2>1
<1>. QED
  BY <1>1, <1>3, <1>4, <1>5, <1>6, BurstIsNoticed

(* A byte appended to bytes.                                               *)
LEMMA AppendByte ==
  ASSUME NEW q \in Seq(Byte), NEW crc \in Byte
  PROVE  /\ Append(q, crc) \in Seq(Byte)
         /\ Len(Append(q, crc)) = Len(q) + 1
         /\ Append(q, crc)[Len(q) + 1] = crc
         /\ \A i \in 1 .. Len(q) : Append(q, crc)[i] = q[i]
BY AppendProperties

(* Sealing keeps the payload, and what it made opens.                      *)
LEMMA SealedFrame ==
  ASSUME NEW id, NEW seq, NEW p \in Seq(Byte), Len(p) = 6,
         NEW f, f = SealFrame(id, p, seq)
  PROVE  /\ \A i \in 1 .. 6 : f[i] = p[i]
         /\ f[7] = ToByte(seq)
         /\ f \in Seq(Byte) /\ OpenFrame(id, f) = "OK"
<1>. DEFINE q == p \o <<ToByte(seq)>>
            crc == FrameCrc8(id, Body(q))
<1>2. /\ q \in Seq(Byte) /\ Len(q) = 7 /\ q[7] = ToByte(seq)
      /\ \A i \in 1 .. 6 : q[i] = p[i]
  <2>. DEFINE s == <<ToByte(seq)>>
  <2>1. s \in Seq(Byte) /\ Len(s) = 1 /\ s[1] = ToByte(seq)
    BY ByteType
  <2>. HIDE DEF s
  <2>2. /\ p \o s \in Seq(Byte) /\ Len(p \o s) = Len(p) + Len(s)
        /\ \A i \in 1 .. Len(p) : (p \o s)[i] = p[i]
        /\ \A i \in 1 .. Len(s) : (p \o s)[Len(p) + i] = s[i]
    BY <2>1, ConcatBytes
  <2>3. (p \o s)[7] = s[1]
    BY <2>1, <2>2
  <2>. QED
    BY <2>1, <2>2, <2>3 DEF s
<1>4. f = Append(q, crc)
  BY DEF SealFrame
<1>5. crc \in Byte
  <2>1. Len(q) >= 7
    BY <1>2
  <2>. HIDE DEF q
  <2>. QED
    BY <1>2, <2>1, BodyBytes, CrcType
<1>. HIDE DEF q, crc
<1>6. /\ f \in Seq(Byte) /\ Len(f) = 8 /\ f[8] = crc
      /\ \A i \in 1 .. 7 : f[i] = q[i]
  <2>1. /\ f \in Seq(Byte) /\ Len(f) = Len(q) + 1 /\ f[Len(q) + 1] = crc
        /\ \A i \in 1 .. Len(q) : f[i] = q[i]
    <3>1. q \in Seq(Byte)
      BY <1>2
    <3>. QED
      BY ONLY <1>4, <1>5, <3>1, AppendByte
  <2>. QED
    BY <1>2, <2>1
<1>7. Body(f) = Body(q)
  <2>1. Len(f) >= 7 /\ Len(q) >= 7
    BY <1>2, <1>6
  <2>2. /\ Body(f) \in Seq(Byte) /\ Len(Body(f)) = 7
        /\ Body(q) \in Seq(Byte) /\ Len(Body(q)) = 7
        /\ \A i \in 1 .. 7 : Body(f)[i] = f[i] /\ Body(q)[i] = q[i]
    BY <1>2, <1>6, <2>1, BodyBytes
  <2>3. \A i \in 1 .. Len(Body(f)) : Body(f)[i] = Body(q)[i]
    <3>1. ASSUME NEW i \in 1 .. 7
          PROVE  Body(f)[i] = Body(q)[i]
      BY <1>6, <2>2
    <3>. QED
      BY <2>2, <3>1
  <2>4. Len(Body(f)) = Len(Body(q))
    BY <2>2
  <2>. HIDE DEF q
  <2>5. Body(f) \in Seq(Byte) /\ Body(q) \in Seq(Byte)
    BY <2>2
  <2>. QED
    BY ONLY <2>3, <2>4, <2>5, SeqEqual
<1>8. OpenFrame(id, f) = "OK"
  BY <1>6, <1>7 DEF OpenFrame, FrameDlc, crc
<1>. QED
  BY <1>2, <1>6, <1>8

(* Six bytes in four and two, and in twos.                                 *)
LEMMA FourTwo ==
  ASSUME NEW s \in Seq(Byte), NEW t \in Seq(Byte), Len(s) = 4, Len(t) = 2
  PROVE  /\ s \o t \in Seq(Byte) /\ Len(s \o t) = 6
         /\ (s \o t)[1] = s[1] /\ (s \o t)[2] = s[2]
         /\ (s \o t)[3] = s[3] /\ (s \o t)[4] = s[4]
         /\ (s \o t)[5] = t[1] /\ (s \o t)[6] = t[2]
<1>1. /\ s \o t \in Seq(Byte) /\ Len(s \o t) = Len(s) + Len(t)
      /\ \A i \in 1 .. Len(s) : (s \o t)[i] = s[i]
      /\ \A i \in 1 .. Len(t) : (s \o t)[Len(s) + i] = t[i]
  BY ConcatBytes
<1>. QED
  BY <1>1

LEMMA TwoTwoTwo ==
  ASSUME NEW s \in Seq(Byte), NEW t \in Seq(Byte), NEW u \in Seq(Byte),
         Len(s) = 2, Len(t) = 2, Len(u) = 2
  PROVE  /\ s \o t \o u \in Seq(Byte) /\ Len(s \o t \o u) = 6
         /\ (s \o t \o u)[1] = s[1] /\ (s \o t \o u)[2] = s[2]
         /\ (s \o t \o u)[3] = t[1] /\ (s \o t \o u)[4] = t[2]
         /\ (s \o t \o u)[5] = u[1] /\ (s \o t \o u)[6] = u[2]
<1>. DEFINE st == s \o t
<1>1. /\ st \in Seq(Byte) /\ Len(st) = Len(s) + Len(t)
      /\ \A i \in 1 .. Len(s) : st[i] = s[i]
      /\ \A i \in 1 .. Len(t) : st[Len(s) + i] = t[i]
  BY ConcatBytes
<1>. HIDE DEF st
<1>2. /\ st \in Seq(Byte) /\ Len(st) = 4
      /\ st[1] = s[1] /\ st[2] = s[2] /\ st[3] = t[1] /\ st[4] = t[2]
  BY <1>1
<1>3. /\ st \o u \in Seq(Byte) /\ Len(st \o u) = 6
      /\ (st \o u)[1] = st[1] /\ (st \o u)[2] = st[2]
      /\ (st \o u)[3] = st[3] /\ (st \o u)[4] = st[4]
      /\ (st \o u)[5] = u[1] /\ (st \o u)[6] = u[2]
  BY <1>2, FourTwo
<1>. QED
  BY <1>2, <1>3 DEF st

(* Where the fields of each message lie.                                   *)
LEMMA ControlLayout ==
  ASSUME NEW m, NEW p, p = ControlPayload(m)
  PROVE  /\ p \in Seq(Byte) /\ Len(p) = 6
         /\ Holds16(p, 1, m.drive_cmd) /\ Holds16(p, 3, m.steer_cmd)
         /\ p[5] = ToByte(m.mode) /\ p[6] = PackControlFlags(m)
<1>. DEFINE s == Put16(m.drive_cmd)
            t == Put16(m.steer_cmd)
            u == <<ToByte(m.mode), PackControlFlags(m)>>
<1>1. PackControlFlags(m) \in Byte
  BY DEF PackControlFlags, Byte
<1>2. /\ u \in Seq(Byte) /\ Len(u) = 2
      /\ u[1] = ToByte(m.mode) /\ u[2] = PackControlFlags(m)
  BY <1>1, ByteType
<1>3. /\ s \in Seq(Byte) /\ Len(s) = 2 /\ t \in Seq(Byte) /\ Len(t) = 2
      /\ s[1] = ToByte(m.drive_cmd) /\ s[2] = ToByte(m.drive_cmd \div 256)
      /\ t[1] = ToByte(m.steer_cmd) /\ t[2] = ToByte(m.steer_cmd \div 256)
  BY Put16Type
<1>4. p = s \o t \o u
  BY DEF ControlPayload
<1>. HIDE DEF s, t, u
<1>5. /\ p \in Seq(Byte) /\ Len(p) = 6
      /\ p[1] = s[1] /\ p[2] = s[2] /\ p[3] = t[1] /\ p[4] = t[2]
      /\ p[5] = u[1] /\ p[6] = u[2]
  <2>1. /\ s \o t \o u \in Seq(Byte) /\ Len(s \o t \o u) = 6
        /\ (s \o t \o u)[1] = s[1] /\ (s \o t \o u)[2] = s[2]
        /\ (s \o t \o u)[3] = t[1] /\ (s \o t \o u)[4] = t[2]
        /\ (s \o t \o u)[5] = u[1] /\ (s \o t \o u)[6] = u[2]
    BY <1>2, <1>3, TwoTwoTwo
  <2>. QED
    BY <1>4, <2>1
<1>. QED
  BY <1>2, <1>3, <1>5 DEF Holds16

LEMMA DriveLayout ==
  ASSUME NEW v, NEW w, NEW p, p = Put32(v) \o Put16(w)
  PROVE  /\ p \in Seq(Byte) /\ Len(p) = 6
         /\ Holds32(p, 1, v) /\ Holds16(p, 5, w)
<1>. DEFINE s == Put32(v)
            t == Put16(w)
<1>1. /\ s \in Seq(Byte) /\ Len(s) = 4 /\ Holds32(s, 1, v)
      /\ t \in Seq(Byte) /\ Len(t) = 2
      /\ t[1] = ToByte(w) /\ t[2] = ToByte(w \div 256)
  BY Put16Type, Put32Type
<1>2. p = s \o t
  OBVIOUS
<1>. HIDE DEF s, t
<1>3. /\ p \in Seq(Byte) /\ Len(p) = 6
      /\ p[1] = s[1] /\ p[2] = s[2] /\ p[3] = s[3] /\ p[4] = s[4]
      /\ p[5] = t[1] /\ p[6] = t[2]
  <2>1. /\ s \o t \in Seq(Byte) /\ Len(s \o t) = 6
        /\ (s \o t)[1] = s[1] /\ (s \o t)[2] = s[2]
        /\ (s \o t)[3] = s[3] /\ (s \o t)[4] = s[4]
        /\ (s \o t)[5] = t[1] /\ (s \o t)[6] = t[2]
    BY <1>1, FourTwo
  <2>. QED
    BY <1>2, <2>1
<1>4. /\ s[1] = ToByte(v) /\ s[2] = ToByte(v \div 256)
      /\ s[3] = ToByte(v \div 65536)
      /\ s[4] = ToByte((v \div 65536) \div 256)
  BY <1>1 DEF Holds32, Holds16
<1>5. /\ p[1] = ToByte(v) /\ p[2] = ToByte(v \div 256)
      /\ p[3] = ToByte(v \div 65536)
      /\ p[4] = ToByte((v \div 65536) \div 256)
      /\ p[5] = ToByte(w) /\ p[6] = ToByte(w \div 256)
  BY <1>1, <1>3, <1>4
<1>. QED
  BY <1>3, <1>5 DEF Holds32, Holds16

LEMMA PowerLayout ==
  ASSUME NEW m, NEW p, p = PowerPayload(m)
  PROVE  /\ p \in Seq(Byte) /\ Len(p) = 6
         /\ Holds16(p, 1, m.current_ca) /\ Holds16(p, 3, m.voltage_cv)
         /\ Holds16(p, 5, m.fault_status)
<1>. DEFINE s == Put16(m.current_ca)
            t == Put16(m.voltage_cv)
            u == Put16(m.fault_status)
<1>1. /\ s \in Seq(Byte) /\ Len(s) = 2
      /\ s[1] = ToByte(m.current_ca) /\ s[2] = ToByte(m.current_ca \div 256)
      /\ t \in Seq(Byte) /\ Len(t) = 2
      /\ t[1] = ToByte(m.voltage_cv) /\ t[2] = ToByte(m.voltage_cv \div 256)
      /\ u \in Seq(Byte) /\ Len(u) = 2
      /\ u[1] = ToByte(m.fault_status)
      /\ u[2] = ToByte(m.fault_status \div 256)
  BY Put16Type
<1>2. p = s \o t \o u
  BY DEF PowerPayload
<1>. HIDE DEF s, t, u
<1>3. /\ p \in Seq(Byte) /\ Len(p) = 6
      /\ p[1] = s[1] /\ p[2] = s[2] /\ p[3] = t[1] /\ p[4] = t[2]
      /\ p[5] = u[1] /\ p[6] = u[2]
  <2>1. /\ s \o t \o u \in Seq(Byte) /\ Len(s \o t \o u) = 6
        /\ (s \o t \o u)[1] = s[1] /\ (s \o t \o u)[2] = s[2]
        /\ (s \o t \o u)[3] = t[1] /\ (s \o t \o u)[4] = t[2]
        /\ (s \o t \o u)[5] = u[1] /\ (s \o t \o u)[6] = u[2]
    <3>1. /\ s \in Seq(Byte) /\ t \in Seq(Byte) /\ u \in Seq(Byte)
          /\ Len(s) = 2 /\ Len(t) = 2 /\ Len(u) = 2
      BY <1>1
    <3>. QED
      BY <3>1, TwoTwoTwo
  <2>. QED
    BY <1>2, <2>1
<1>. QED
  BY <1>1, <1>3 DEF Holds16

LEMMA StateLayout ==
  ASSUME NEW m, NEW p, p = StatePayload(m)
  PROVE  /\ p \in Seq(Byte) /\ Len(p) = 6
         /\ p[1] = ToByte(m.mode) /\ p[2] = ToByte(m.jetson_link)
         /\ p[3] = ToByte(m.c2_link) /\ p[4] = ToByte(m.controller_health)
         /\ p[5] = ToByte(m.indicator_state) /\ p[6] = ToByte(m.reserved)
<1>1. ASSUME NEW a \in Byte, NEW b \in Byte, NEW c \in Byte,
             NEW d \in Byte, NEW e \in Byte, NEW g \in Byte,
             p = <<a, b, c, d, e, g>>
      PROVE  /\ p \in Seq(Byte) /\ Len(p) = 6
             /\ p[1] = a /\ p[2] = b /\ p[3] = c
             /\ p[4] = d /\ p[5] = e /\ p[6] = g
  BY <1>1
<1>. QED
  BY <1>1, ByteType DEF StatePayload

(***************************************************************************)
(* What a receiver reads in a frame that is whole                          *)
(***************************************************************************)

LEMMA UInt8Value ==
  ASSUME NEW v \in UInt8
  PROVE  Val(ToByte(v)) = v
<1>1. v \in Int /\ v % 256 = v
  BY DEF UInt8
<1>. QED
  BY <1>1, ByteValue

(* The flags come back, and the three bits of the indicator.               *)
LEMMA FlagsValue ==
  ASSUME NEW m \in ControlMsg, NEW flags, flags = PackControlFlags(m)
  PROVE  /\ 7 \notin flags
         /\ (0 \in flags) = m.stop /\ (1 \in flags) = m.autonomy_abort
         /\ (2 \in flags) = m.return_request /\ (6 \in flags) = m.c2_lost
         /\ Val({i - 3 : i \in flags \cap 3 .. 5}) = m.indicator_request
<1>. DEFINE bits == ToByte(m.indicator_request)
<1>1. m.indicator_request \in 0 .. 7
  BY DEF ControlMsg
<1>2. bits \subseteq 0 .. 2
  <2>1. ASSUME NEW i \in 3 .. 7
        PROVE  m.indicator_request \div Weight[i + 1] = 0
    BY <1>1 DEF Weight
  <2>. QED
    BY <2>1 DEF ToByte
<1>3. Val(bits) = m.indicator_request
  BY <1>1, UInt8Value DEF UInt8
<1>. HIDE DEF bits
<1>4. /\ m.stop \in BOOLEAN /\ m.autonomy_abort \in BOOLEAN
      /\ m.return_request \in BOOLEAN /\ m.c2_lost \in BOOLEAN
  BY DEF ControlMsg
<1>5. flags = (IF m.stop THEN {0} ELSE {})
                \cup (IF m.autonomy_abort THEN {1} ELSE {})
                \cup (IF m.return_request THEN {2} ELSE {})
                \cup (IF m.c2_lost THEN {6} ELSE {})
                \cup {i + 3 : i \in bits}
  BY <1>2 DEF PackControlFlags, bits
<1>6. {i - 3 : i \in flags \cap 3 .. 5} = bits
  <2>1. flags \cap 3 .. 5 = {i + 3 : i \in bits}
    BY <1>2, <1>5
  <2>2. {i - 3 : i \in {j + 3 : j \in bits}} = bits
    <3>1. \A j \in bits : (j + 3) - 3 = j
      BY <1>2
    <3>. QED
      BY <3>1
  <2>. QED
    BY <2>1, <2>2
<1>. QED
  BY <1>2, <1>3, <1>4, <1>5, <1>6

(* The payload p of a frame with the sequence number seq.                  *)
Carries(f, p, seq) ==
  (\A i \in 1 .. 6 : f[i] = p[i]) /\ f[7] = ToByte(seq)

LEMMA CarriesFields ==
  ASSUME NEW f, NEW p, NEW seq \in UInt8, Carries(f, p, seq)
  PROVE  /\ FrameSeq(f) = seq
         /\ f[1] = p[1] /\ f[2] = p[2] /\ f[3] = p[3]
         /\ f[4] = p[4] /\ f[5] = p[5] /\ f[6] = p[6]
         /\ \A v : Holds16(p, 1, v) => Holds16(f, 1, v)
         /\ \A v : Holds16(p, 3, v) => Holds16(f, 3, v)
         /\ \A v : Holds16(p, 5, v) => Holds16(f, 5, v)
         /\ \A v : Holds32(p, 1, v) => Holds32(f, 1, v)
<1>1. /\ f[1] = p[1] /\ f[2] = p[2] /\ f[3] = p[3]
      /\ f[4] = p[4] /\ f[5] = p[5] /\ f[6] = p[6]
  BY DEF Carries
<1>2. FrameSeq(f) = seq
  BY UInt8Value DEF Carries, FrameSeq
<1>3. /\ \A v : Holds16(p, 1, v) => Holds16(f, 1, v)
      /\ \A v : Holds16(p, 3, v) => Holds16(f, 3, v)
      /\ \A v : Holds16(p, 5, v) => Holds16(f, 5, v)
  BY <1>1 DEF Holds16
<1>4. \A v : Holds32(p, 1, v) => Holds32(f, 1, v)
  BY <1>3 DEF Holds32
<1>. QED
  BY <1>1, <1>2, <1>3, <1>4

(* A CONTROL message is read back, or refused for a reason it has.         *)
LEMMA ControlIsRead ==
  ASSUME NEW m \in ControlMsg, NEW seq \in UInt8, NEW f,
         Carries(f, ControlPayload(m), seq)
  PROVE  IF Reasons(m) # {}
           THEN ControlFields(f).code \in Reasons(m)
           ELSE ControlFields(f) = Accepted(m, seq)
<1>. DEFINE p == ControlPayload(m)
<1>1. /\ Holds16(f, 1, m.drive_cmd) /\ Holds16(f, 3, m.steer_cmd)
      /\ f[5] = ToByte(m.mode) /\ f[6] = PackControlFlags(m)
      /\ FrameSeq(f) = seq
  <2>1. /\ Holds16(p, 1, m.drive_cmd) /\ Holds16(p, 3, m.steer_cmd)
        /\ p[5] = ToByte(m.mode) /\ p[6] = PackControlFlags(m)
    BY ControlLayout
  <2>. HIDE DEF p
  <2>. QED
    BY <2>1, CarriesFields DEF p
<1>2. /\ m.drive_cmd \in Int16 /\ m.steer_cmd \in Int16 /\ m.mode \in UInt8
  BY DEF ControlMsg
<1>3. /\ GetI16(f, 1) = m.drive_cmd /\ GetI16(f, 3) = m.steer_cmd
      /\ Val(f[5]) = m.mode
  BY <1>1, <1>2, Int16Value, UInt8Value
<1>4. /\ 7 \notin f[6]
      /\ (0 \in f[6]) = m.stop /\ (1 \in f[6]) = m.autonomy_abort
      /\ (2 \in f[6]) = m.return_request /\ (6 \in f[6]) = m.c2_lost
      /\ Val({i - 3 : i \in f[6] \cap 3 .. 5}) = m.indicator_request
  BY <1>1, FlagsValue
<1>. DEFINE sound == InRange(m.drive_cmd) /\ InRange(m.steer_cmd)
            indicator == m.indicator_request
<1>5. ControlFields(f) =
        IF m.mode \notin KnownModes THEN Refused("BAD_MODE")
        ELSE IF indicator > IndicatorFault THEN Refused("BAD_INDICATOR")
        ELSE IF ~sound THEN Refused("BAD_RANGE")
        ELSE Accepted([drive_cmd |-> m.drive_cmd, steer_cmd |-> m.steer_cmd,
                       mode |-> m.mode, stop |-> m.stop,
                       autonomy_abort |-> m.autonomy_abort,
                       return_request |-> m.return_request,
                       c2_lost |-> m.c2_lost,
                       indicator_request |-> indicator], seq)
  BY <1>1, <1>3, <1>4 DEF ControlFields
<1>6. m = [drive_cmd |-> m.drive_cmd, steer_cmd |-> m.steer_cmd,
           mode |-> m.mode, stop |-> m.stop,
           autonomy_abort |-> m.autonomy_abort,
           return_request |-> m.return_request,
           c2_lost |-> m.c2_lost, indicator_request |-> indicator]
  BY DEF ControlMsg
<1>. HIDE DEF sound, indicator
<1>7. ControlFields(f) =
        IF m.mode \notin KnownModes THEN Refused("BAD_MODE")
        ELSE IF indicator > IndicatorFault THEN Refused("BAD_INDICATOR")
        ELSE IF ~sound THEN Refused("BAD_RANGE")
        ELSE Accepted(m, seq)
  BY <1>5, <1>6
<1>8. Reasons(m) = (IF m.mode \notin KnownModes THEN {"BAD_MODE"} ELSE {})
                     \cup (IF indicator > IndicatorFault
                             THEN {"BAD_INDICATOR"} ELSE {})
                     \cup (IF sound THEN {} ELSE {"BAD_RANGE"})
  BY DEF Reasons, sound, indicator
<1>. QED
  BY <1>7, <1>8 DEF Refused

LEMMA DriveLIsRead ==
  ASSUME NEW m \in DriveLMsg, NEW seq \in UInt8, NEW f,
         Carries(f, DriveLPayload(m), seq)
  PROVE  DriveLFields(f) = m /\ FrameSeq(f) = seq
<1>1. /\ Holds32(DriveLPayload(m), 1, m.enc_left)
      /\ Holds16(DriveLPayload(m), 5, m.steer_fb)
  BY DriveLayout DEF DriveLPayload
<1>2. /\ Holds32(f, 1, m.enc_left) /\ Holds16(f, 5, m.steer_fb)
      /\ FrameSeq(f) = seq
  BY <1>1, CarriesFields
<1>3. /\ m.enc_left \in Int32 /\ m.steer_fb \in Int16
      /\ m = [enc_left |-> m.enc_left, steer_fb |-> m.steer_fb]
  BY DEF DriveLMsg
<1>4. GetI32(f, 1) = m.enc_left /\ GetI16(f, 5) = m.steer_fb
  BY <1>2, <1>3, Int16Value, Int32Value
<1>. QED
  BY <1>2, <1>3, <1>4 DEF DriveLFields

LEMMA DriveRIsRead ==
  ASSUME NEW m \in DriveRMsg, NEW seq \in UInt8, NEW f,
         Carries(f, DriveRPayload(m), seq)
  PROVE  DriveRFields(f) = m /\ FrameSeq(f) = seq
<1>1. /\ Holds32(DriveRPayload(m), 1, m.enc_right)
      /\ Holds16(DriveRPayload(m), 5, m.cmd_age_ms)
  BY DriveLayout DEF DriveRPayload
<1>2. /\ Holds32(f, 1, m.enc_right) /\ Holds16(f, 5, m.cmd_age_ms)
      /\ FrameSeq(f) = seq
  BY <1>1, CarriesFields
<1>3. /\ m.enc_right \in Int32 /\ m.cmd_age_ms \in UInt16
      /\ m = [enc_right |-> m.enc_right, cmd_age_ms |-> m.cmd_age_ms]
  BY DEF DriveRMsg
<1>4. GetI32(f, 1) = m.enc_right /\ GetU16(f, 5) = m.cmd_age_ms
  BY <1>2, <1>3, UInt16Value, Int32Value
<1>. QED
  BY <1>2, <1>3, <1>4 DEF DriveRFields

LEMMA PowerIsRead ==
  ASSUME NEW m \in PowerMsg, NEW seq \in UInt8, NEW f,
         Carries(f, PowerPayload(m), seq)
  PROVE  PowerFields(f) = m /\ FrameSeq(f) = seq
<1>1. /\ Holds16(PowerPayload(m), 1, m.current_ca)
      /\ Holds16(PowerPayload(m), 3, m.voltage_cv)
      /\ Holds16(PowerPayload(m), 5, m.fault_status)
  BY PowerLayout
<1>2. /\ Holds16(f, 1, m.current_ca) /\ Holds16(f, 3, m.voltage_cv)
      /\ Holds16(f, 5, m.fault_status) /\ FrameSeq(f) = seq
  BY <1>1, CarriesFields
<1>3. /\ m.current_ca \in Int16 /\ m.voltage_cv \in Int16
      /\ m.fault_status \in UInt16
      /\ m = [current_ca |-> m.current_ca, voltage_cv |-> m.voltage_cv,
              fault_status |-> m.fault_status]
  BY DEF PowerMsg
<1>4. /\ GetI16(f, 1) = m.current_ca /\ GetI16(f, 3) = m.voltage_cv
      /\ GetU16(f, 5) = m.fault_status
  BY <1>2, <1>3, UInt16Value, Int16Value
<1>. QED
  BY <1>2, <1>3, <1>4 DEF PowerFields

LEMMA StateIsRead ==
  ASSUME NEW m \in StateMsg, NEW seq \in UInt8, NEW f,
         Carries(f, StatePayload(m), seq)
  PROVE  StateFields(f) = m /\ FrameSeq(f) = seq
<1>1. /\ f[1] = ToByte(m.mode) /\ f[2] = ToByte(m.jetson_link)
      /\ f[3] = ToByte(m.c2_link) /\ f[4] = ToByte(m.controller_health)
      /\ f[5] = ToByte(m.indicator_state) /\ f[6] = ToByte(m.reserved)
      /\ FrameSeq(f) = seq
  BY StateLayout, CarriesFields
<1>2. /\ m.mode \in UInt8 /\ m.jetson_link \in UInt8 /\ m.c2_link \in UInt8
      /\ m.controller_health \in UInt8 /\ m.indicator_state \in UInt8
      /\ m.reserved \in UInt8
      /\ m = [mode |-> m.mode, jetson_link |-> m.jetson_link,
              c2_link |-> m.c2_link,
              controller_health |-> m.controller_health,
              indicator_state |-> m.indicator_state, reserved |-> m.reserved]
  BY DEF StateMsg
<1>. QED
  BY <1>1, <1>2, UInt8Value DEF StateFields

(* What a receiver of kind says of a message m that arrived whole.         *)
Understood(kind, m, seq, r) ==
  IF kind = "CONTROL" /\ Reasons(m) # {}
    THEN r.code \in Reasons(m)
    ELSE r = Accepted(m, seq)

LEMMA EncodedFrame ==
  ASSUME NEW kind \in Kinds, NEW m, NEW seq, NEW f, f = Encode(kind, m, seq)
  PROVE  /\ f \in Seq(Byte) /\ OpenFrame(CanId[kind], f) = "OK"
         /\ Carries(f, Payload(kind, m), seq)
<1>. DEFINE p == Payload(kind, m)
<1>1. kind \in {"CONTROL", "TELEM_DRIVE_L", "TELEM_DRIVE_R", "TELEM_POWER",
                "TELEM_STATE"}
  BY DEF Kinds, CanId
<1>2. p \in Seq(Byte) /\ Len(p) = 6
  <2>1. CASE kind = "CONTROL"
    BY <2>1, ControlLayout DEF Payload
  <2>2. CASE kind = "TELEM_DRIVE_L"
    BY <2>2, DriveLayout DEF Payload, DriveLPayload
  <2>3. CASE kind = "TELEM_DRIVE_R"
    BY <2>3, DriveLayout DEF Payload, DriveRPayload
  <2>4. CASE kind = "TELEM_POWER"
    BY <2>4, PowerLayout DEF Payload
  <2>5. CASE kind = "TELEM_STATE"
    BY <2>5, StateLayout DEF Payload
  <2>. QED
    BY <1>1, <2>1, <2>2, <2>3, <2>4, <2>5
<1>3. f = SealFrame(CanId[kind], p, seq)
  BY DEF Encode
<1>. HIDE DEF p
<1>4. /\ f \in Seq(Byte) /\ OpenFrame(CanId[kind], f) = "OK"
      /\ Carries(f, p, seq)
  BY <1>2, <1>3, SealedFrame DEF Carries
<1>. QED
  BY <1>4 DEF p

LEMMA WholeFrameIsUnderstood ==
  ASSUME NEW kind \in Kinds, NEW m \in MessageType(kind), NEW seq \in UInt8
  PROVE  Understood(kind, m, seq, Decode(kind, Encode(kind, m, seq)))
<1>. DEFINE p == Payload(kind, m)
            f == Encode(kind, m, seq)
<1>. SUFFICES Understood(kind, m, seq, Decode(kind, f))
  OBVIOUS
<1>1. kind \in {"CONTROL", "TELEM_DRIVE_L", "TELEM_DRIVE_R", "TELEM_POWER",
                "TELEM_STATE"}
  BY DEF Kinds, CanId
<1>4. Carries(f, p, seq) /\ OpenFrame(CanId[kind], f) = "OK"
  BY EncodedFrame
<1>. HIDE DEF p, f
<1>5. Decode(kind, f) = Fields(kind, f)
  BY <1>4 DEF Decode
<1>6. CASE kind = "CONTROL"
  <2>1. m \in ControlMsg /\ p = ControlPayload(m)
        /\ Fields(kind, f) = ControlFields(f)
    BY <1>6 DEF MessageType, Payload, Fields, p
  <2>. QED
    BY <1>4, <1>5, <1>6, <2>1, ControlIsRead DEF Understood
<1>7. CASE kind = "TELEM_DRIVE_L"
  <2>1. m \in DriveLMsg /\ p = DriveLPayload(m)
        /\ Fields(kind, f) = Accepted(DriveLFields(f), FrameSeq(f))
    BY <1>7 DEF MessageType, Payload, Fields, p
  <2>. QED
    BY <1>4, <1>5, <1>7, <2>1, DriveLIsRead DEF Understood
<1>8. CASE kind = "TELEM_DRIVE_R"
  <2>1. m \in DriveRMsg /\ p = DriveRPayload(m)
        /\ Fields(kind, f) = Accepted(DriveRFields(f), FrameSeq(f))
    BY <1>8 DEF MessageType, Payload, Fields, p
  <2>. QED
    BY <1>4, <1>5, <1>8, <2>1, DriveRIsRead DEF Understood
<1>9. CASE kind = "TELEM_POWER"
  <2>1. m \in PowerMsg /\ p = PowerPayload(m)
        /\ Fields(kind, f) = Accepted(PowerFields(f), FrameSeq(f))
    BY <1>9 DEF MessageType, Payload, Fields, p
  <2>. QED
    BY <1>4, <1>5, <1>9, <2>1, PowerIsRead DEF Understood
<1>10. CASE kind = "TELEM_STATE"
  <2>1. m \in StateMsg /\ p = StatePayload(m)
        /\ Fields(kind, f) = Accepted(StateFields(f), FrameSeq(f))
    BY <1>10 DEF MessageType, Payload, Fields, p
  <2>. QED
    BY <1>4, <1>5, <1>10, <2>1, StateIsRead DEF Understood
<1>. QED
  BY <1>1, <1>6, <1>7, <1>8, <1>9, <1>10

(***************************************************************************)
(* The transfer                                                            *)
(***************************************************************************)

(* While nothing happens to it, the wire holds what either encoder makes   *)
(* of the message, and afterwards a frame that does not open; a verdict is *)
(* that of the receiver the wire names, the same in both languages.        *)
TransferInv ==
  /\ sent.kind \in Kinds
  /\ sent.msg \in Messages[sent.kind]
  /\ sent.seq \in UInt8
  /\ wire \in [id : {CanId[k] : k \in Kinds}, bytes : Seq(Byte)]
  /\ intact \in BOOLEAN
  /\ intact => /\ wire.id = CanId[sent.kind]
               /\ wire.bytes = Encode(sent.kind, sent.msg, sent.seq)
  /\ ~intact => OpenFrame(wire.id, wire.bytes) # "OK"
  /\ LanguagesAgree
  /\ result # Pending =>
       /\ result["C++"].code \in Codes
       /\ intact =>
            Understood(sent.kind, sent.msg, sent.seq, result["C++"])
       /\ ~intact => result["C++"].code # "OK"

(* No two messages have one identifier.                                    *)
LEMMA IdsDiffer ==
  ASSUME NEW k \in Kinds, NEW l \in Kinds, CanId[k] = CanId[l]
  PROVE  k = l
BY DEF Kinds, CanId

(* A decoder says one of seven things, and not OK of a frame that does not *)
(* open.                                                                   *)
LEMMA DecodeCodes ==
  ASSUME NEW kind \in Kinds, NEW f
  PROVE  /\ Decode(kind, f).code \in Codes
         /\ OpenFrame(CanId[kind], f) # "OK" => Decode(kind, f).code # "OK"
<1>1. kind \in {"CONTROL", "TELEM_DRIVE_L", "TELEM_DRIVE_R", "TELEM_POWER",
                "TELEM_STATE"}
  BY DEF Kinds, CanId
<1>2. \A m, seq : Accepted(m, seq).code = "OK"
  BY DEF Accepted
<1>3. \A reason : Refused(reason).code = reason
  BY DEF Refused
<1>4. ControlFields(f).code \in Codes
  BY <1>2, <1>3 DEF ControlFields, Codes
<1>5. Fields(kind, f).code \in Codes
  BY <1>1, <1>2, <1>4 DEF Fields, Codes
<1>6. OpenFrame(CanId[kind], f) \in {"OK", "BAD_DLC", "BAD_CRC"}
  BY DEF OpenFrame
<1>. QED
  BY <1>3, <1>5, <1>6 DEF Decode, Codes

LEMMA TransferInit == Init => TransferInv
<1> SUFFICES ASSUME Init PROVE TransferInv
  OBVIOUS
<1>1. PICK kind \in Kinds, by \in Languages :
        \E m \in Messages[kind], seq \in Seqs :
          /\ sent = [kind |-> kind, msg |-> m, seq |-> seq, by |-> by]
          /\ wire = [id |-> CanId[kind],
                     bytes |-> IF by = "C++" THEN Encode(kind, m, seq)
                                             ELSE PyEncode(kind, m, seq)]
          /\ intact = TRUE
          /\ result = Pending
  BY DEF Init
<1>2. PICK m \in Messages[kind], seq \in Seqs :
        /\ sent = [kind |-> kind, msg |-> m, seq |-> seq, by |-> by]
        /\ wire = [id |-> CanId[kind],
                   bytes |-> IF by = "C++" THEN Encode(kind, m, seq)
                                           ELSE PyEncode(kind, m, seq)]
        /\ intact = TRUE
        /\ result = Pending
  BY <1>1
<1>3. seq \in UInt8
  BY TransferAssumption DEF UInt8
<1>4. /\ sent.kind = kind /\ sent.msg = m /\ sent.seq = seq
      /\ wire = [id |-> CanId[kind], bytes |-> Encode(kind, m, seq)]
  BY <1>2, EncodersAgree
<1>5. LanguagesAgree
  BY <1>2 DEF LanguagesAgree, Pending, Languages
<1>6. Encode(kind, m, seq) \in Seq(Byte)
  BY EncodedFrame
<1>. QED
  BY <1>2, <1>3, <1>4, <1>5, <1>6 DEF TransferInv

(* The ways a frame can be spoiled, each of which leaves one that does not *)
(* open.                                                                   *)
LEMMA SpoiledFrame ==
  ASSUME TransferInv, intact, NEW w, Spoil(w),
         w \in [id : {CanId[k] : k \in Kinds}, bytes : Seq(Byte)],
         OpenFrame(w.id, w.bytes) # "OK", result = Pending
  PROVE  TransferInv'
BY DEF TransferInv, Spoil, LanguagesAgree

LEMMA TransferNext == TransferInv /\ [Next]_vars => TransferInv'
<1> SUFFICES ASSUME TransferInv, [Next]_vars PROVE TransferInv'
  OBVIOUS
<1> USE DEF TransferInv
<1>. DEFINE f == wire.bytes
            W == [id : {CanId[k] : k \in Kinds}, bytes : Seq(Byte)]
<1>1. ASSUME OnTheWay
      PROVE  /\ intact /\ result = Pending
             /\ f \in Seq(Byte) /\ OpenFrame(wire.id, f) = "OK"
             /\ wire.id = CanId[sent.kind]
  BY <1>1, EncodedFrame DEF OnTheWay
<1>2. ASSUME NEW bits, Damage(bits), Shows(bits)
      PROVE  TransferInv'
  <2>. DEFINE g == [k \in DOMAIN f |-> Xor(f[k], Hit(bits, k))]
              w == [wire EXCEPT !.bytes = g]
  <2>1. Spoil(w)
    BY <1>2 DEF Damage, Hit
  <2>2. /\ intact /\ result = Pending
        /\ f \in Seq(Byte) /\ OpenFrame(wire.id, f) = "OK"
    BY <1>1, <2>1 DEF Spoil
  <2>3. OpenFrame(wire.id, g) # "OK"
    <3>. HIDE DEF f
    <3>. QED
      BY ONLY <1>2, <2>2, Noticed
  <2>4. g \in Seq(Byte)
    <3>1. f \in [1 .. Len(f) -> Byte] /\ Len(f) \in Nat
      BY <2>2, LenProperties
    <3>2. \A k : Hit(bits, k) \in Byte
      BY DEF Hit, Byte
    <3>. HIDE DEF f
    <3>3. g \in [1 .. Len(f) -> Byte]
      BY <3>1, <3>2, XorFacts
    <3>. QED
      BY <3>1, <3>3
  <2>5. w \in W /\ w.id = wire.id /\ w.bytes = g
    <3>. HIDE DEF g
    <3>. QED
      BY <2>4
  <2>. HIDE DEF w, g
  <2>. QED
    BY <2>1, <2>2, <2>3, <2>5, SpoiledFrame
<1>3. ASSUME NEW n \in 0 .. 9, Resize(n)
      PROVE  TransferInv'
  <2>. DEFINE g == [k \in 1 .. n |-> IF k \in DOMAIN f THEN f[k] ELSE {}]
              w == [wire EXCEPT !.bytes = g]
  <2>1. Spoil(w) /\ n # 8
    BY <1>3 DEF Resize, FrameDlc
  <2>2. intact /\ result = Pending /\ f \in Seq(Byte)
    BY <1>1, <2>1 DEF Spoil
  <2>3. g \in Seq(Byte) /\ Len(g) = n
    <3>1. \A k \in DOMAIN f : f[k] \in Byte
      BY <2>2
    <3>2. {} \in Byte
      BY DEF Byte
    <3>. HIDE DEF f
    <3>3. g \in [1 .. n -> Byte] /\ n \in Nat
      BY <3>1, <3>2
    <3>. QED
      BY <3>3
  <2>4. w \in W /\ w.id = wire.id /\ w.bytes = g
    <3>. HIDE DEF g
    <3>. QED
      BY <2>3
  <2>. HIDE DEF w, g
  <2>5. OpenFrame(w.id, w.bytes) # "OK"
    BY <2>1, <2>3, <2>4 DEF OpenFrame, FrameDlc
  <2>. QED
    BY <2>1, <2>2, <2>4, <2>5, SpoiledFrame
<1>4. ASSUME NEW kind \in Kinds, Misroute(kind)
      PROVE  TransferInv'
  <2>. DEFINE w == [wire EXCEPT !.id = CanId[kind]]
  <2>1. Spoil(w) /\ kind # sent.kind
    BY <1>4 DEF Misroute
  <2>2. /\ intact /\ result = Pending /\ f \in Seq(Byte)
        /\ OpenFrame(CanId[sent.kind], f) = "OK"
    BY <1>1, <2>1 DEF Spoil
  <2>3. w \in W /\ w.id = CanId[kind] /\ w.bytes = f
    OBVIOUS
  <2>. HIDE DEF w, f
  <2>4. OpenFrame(w.id, w.bytes) # "OK"
    BY <2>1, <2>2, <2>3, MisrouteShows
  <2>. QED
    BY <2>1, <2>2, <2>3, <2>4, SpoiledFrame
<1>5. CASE Receive
  <2>1. UNCHANGED <<sent, wire, intact>>
    BY <1>5 DEF Receive
  <2>. DEFINE kind == CHOOSE k \in Kinds : CanId[k] = wire.id
  <2>2. result' = [lang \in Languages |->
                     IF lang = "C++" THEN Decode(kind, wire.bytes)
                                     ELSE PyDecode(kind, wire.bytes)]
    BY <1>5 DEF Receive
  <2>3. kind \in Kinds /\ CanId[kind] = wire.id
    OBVIOUS
  <2>4. intact => kind = sent.kind
    BY <2>3, IdsDiffer
  <2>. HIDE DEF kind
  <2>5. /\ result'["C++"] = Decode(kind, wire.bytes)
        /\ result'["Python"] = PyDecode(kind, wire.bytes)
    BY <2>2 DEF Languages
  <2>6. LanguagesAgree'
    BY <2>5, DecodersAgree DEF LanguagesAgree
  <2>7. intact => Understood(sent.kind, sent.msg, sent.seq, result'["C++"])
    <3>1. sent.msg \in MessageType(sent.kind)
      BY TransferAssumption
    <3>. QED
      BY <2>4, <2>5, <3>1, WholeFrameIsUnderstood
  <2>8. /\ result'["C++"].code \in Codes
        /\ ~intact => result'["C++"].code # "OK"
    BY <2>3, <2>5, DecodeCodes
  <2>. QED
    BY <2>1, <2>6, <2>7, <2>8
<1>6. CASE UNCHANGED vars
  BY <1>6 DEF vars, LanguagesAgree
<1>7. ASSUME NEW p \in Bits, NEW q \in Bits, p <= q, Damage({p, q})
      PROVE  TransferInv'
  <2>1. p \in 0 .. 63 /\ q \in 0 .. 63
    BY TransferAssumption
  <2>. QED
    BY <1>2, <1>7, <2>1, PairOfBits
<1>8. ASSUME NEW p \in 0 .. 56, NEW b \in (SUBSET (0 .. 7)) \ {{}},
             Damage({p + i : i \in b})
      PROVE  TransferInv'
  BY <1>2, <1>8, EightBits
<1>. QED
  BY <1>3, <1>4, <1>5, <1>6, <1>7, <1>8 DEF Next

(* Every frame on the wire is a sequence of bytes, and a receiver of it    *)
(* says one of the seven things it can.                                    *)
THEOREM TransferTypeCorrect == Spec => []TypeOK
<1>1. TransferInv => TypeOK
  BY DEF TransferInv, TypeOK, LanguagesAgree, Languages
<1>. QED
  BY <1>1, TransferInit, TransferNext, PTL DEF Spec

(* The CRC of openFrame() and _open() and the test of the length catch     *)
(* whatever happens to a frame of any message within the damage they are   *)
(* made for: one or two bits anywhere, eight consecutive bits, another     *)
(* length, another identifier.                                             *)
THEOREM DamageIsAlwaysRefused == Spec => []DamageIsRefused
<1>1. TransferInv => DamageIsRefused
  BY DEF TransferInv, DamageIsRefused, LanguagesAgree, Languages
<1>. QED
  BY <1>1, TransferInit, TransferNext, PTL DEF Spec

(* Whatever bytes arrive, whole, damaged, cut short or under another       *)
(* identifier, decodeControl(), decodeTelemetry*() and their Python        *)
(* counterparts say the same of them.                                      *)
THEOREM LanguagesNeverDiffer == Spec => []LanguagesAgree
<1>1. TransferInv => LanguagesAgree
  BY DEF TransferInv
<1>. QED
  BY <1>1, TransferInit, TransferNext, PTL DEF Spec

(* A frame that arrives whole says to both languages exactly what its      *)
(* sender in either language said, for every value of every field; a       *)
(* command outside the protocol is refused for a reason it has.            *)
THEOREM WholeFramesRoundTrip == Spec => []RoundTrip
<1>1. TransferInv => RoundTrip
  <2> SUFFICES ASSUME TransferInv, result # Pending, intact,
                      NEW lang \in Languages
               PROVE  Understood(sent.kind, sent.msg, sent.seq, result[lang])
    BY DEF RoundTrip, Understood
  <2>1. result[lang] = result["C++"]
    BY DEF TransferInv, LanguagesAgree, Languages
  <2>. QED
    BY <2>1 DEF TransferInv
<1>. QED
  BY <1>1, TransferInit, TransferNext, PTL DEF Spec
=============================================================================
