--------------------------- MODULE SimLinkProofs ----------------------------
(***************************************************************************)
(* Both directions of the pipe link are FIFOs of whole messages, and the   *)
(* reader thread leaves no frame behind: for every length of a line, of a  *)
(* chunk and of the pipes, and every number of lines and frames.           *)
(***************************************************************************)
EXTENDS SimLink, SequenceTheorems, TLAPS

(***************************************************************************)
(* The inductive invariant                                                 *)
(***************************************************************************)

Part == Nat \X Nat

QueuesOK ==
  /\ stdin_pipe \in Seq(Part) /\ pending \in Seq(Part)
  /\ ingested \in Seq(Seq(Part))
  /\ stdout_pipe \in Seq(Nat) /\ rbuf \in Seq(Nat)
  /\ frames \in Seq(Nat) /\ received \in Seq(Nat)

FlagsOK == stdin_open \in BOOLEAN /\ hung \in BOOLEAN /\ reading \in BOOLEAN

PlacesOK ==
  /\ sim_pc \in {"poll", "lines", "outputs", "emit", "exited", "killed"}
  /\ caller \in {"none", "send", "recv", "close", "wait", "join", "closed"}

(* A line about to be written was counted when send() was called, and a    *)
(* cycle is begun only with room for all of it.                            *)
CountsOK ==
  /\ written \in Nat /\ calls \in Nat /\ calls <= MaxLines
  /\ written <= calls /\ (caller = "send" => written < calls)
  /\ emitted \in Nat /\ emitted <= MaxFrames
  /\ to_emit \in Nat /\ to_emit <= CycleFrames
  /\ sim_pc = "emit" => to_emit > 0 /\ emitted + to_emit <= MaxFrames
  /\ Len(stdin_pipe) <= InRoom /\ Len(stdout_pipe) <= OutRoom

(* The frames in each place on the way up carry on the numbers of those    *)
(* ahead of them, and none is missing at the end.                          *)
UpInv ==
  /\ \A i \in 1 .. Len(received) : received[i] = i
  /\ \A i \in 1 .. Len(frames) : frames[i] = Len(received) + i
  /\ \A i \in 1 .. Len(rbuf) : rbuf[i] = Len(received) + Len(frames) + i
  /\ \A i \in 1 .. Len(stdout_pipe) :
       stdout_pipe[i] = Len(received) + Len(frames) + Len(rbuf) + i
  /\ emitted = Len(received) + Len(frames) + Len(rbuf) + Len(stdout_pipe)

(* The thread ends only behind the last frame of a process that is gone.   *)
DrainInv == ~reading => Gone /\ rbuf = <<>> /\ stdout_pipe = <<>>

(* The parts on the way down, of lines the controller has not been given,  *)
(* begin with the next line, continue line by line, and end with the last  *)
(* line that was written.                                                  *)
Unread == pending \o stdin_pipe

WholeLines(parts, from, to) ==
  /\ \A k \in 1 .. Len(parts) : from <= parts[k][1] /\ parts[k][1] <= to
  /\ \A k \in 1 .. Len(parts) : k <= LineLen => parts[k] = <<from, k>>
  /\ \A k \in 1 .. Len(parts) :
       k + LineLen <= Len(parts) =>
         parts[k + LineLen] = <<parts[k][1] + 1, parts[k][2]>>
  /\ Len(parts) = 0 => from = to + 1
  /\ Len(parts) > 0 =>
       /\ LineLen <= Len(parts)
       /\ \A k \in 1 .. LineLen : parts[Len(parts) - LineLen + k] = <<to, k>>

DownInv ==
  /\ Len(ingested) <= written
  /\ \A i \in 1 .. Len(ingested) : ingested[i] = Line(i)
  /\ WholeLines(Unread, Len(ingested) + 1, written)

(* No newline stays in pending behind the while loop.                      *)
PendingInv ==
  sim_pc \in {"poll", "outputs", "emit"} =>
    \A i \in 1 .. Len(pending) : ~IsNewline(pending[i])

LinkInv ==
  /\ QueuesOK /\ FlagsOK /\ PlacesOK /\ CountsOK
  /\ UpInv /\ DrainInv /\ DownInv /\ PendingInv

(***************************************************************************)
(* Streams of whole lines                                                  *)
(***************************************************************************)

LEMMA LineIsParts ==
  ASSUME NEW n \in Nat
  PROVE  /\ Line(n) \in Seq(Part)
         /\ Len(Line(n)) = LineLen
         /\ \A k \in 1 .. LineLen : Line(n)[k] = <<n, k>>
<1>1. \A k \in 1 .. LineLen : <<n, k>> \in Part
  BY SimAssumption DEF Part
<1>2. Line(n) \in [1 .. LineLen -> Part]
  BY <1>1 DEF Line
<1>3. Line(n) \in Seq(Part)
  BY <1>2, SimAssumption, SeqDef
<1>. QED
  BY <1>2, <1>3, LenProperties, SimAssumption DEF Line

(* One line more at the end leaves a stream of whole lines.                *)
LEMMA LineAdded ==
  ASSUME NEW parts \in Seq(Part), NEW from \in Nat, NEW to \in Nat,
         from <= to + 1, WholeLines(parts, from, to)
  PROVE  WholeLines(parts \o Line(to + 1), from, to + 1)
<1> DEFINE n == Len(parts)
           more == parts \o Line(to + 1)
           m == Len(more)
<1>1. n \in Nat /\ LineLen \in Nat \ {0}
  BY LenProperties, SimAssumption
<1>2. /\ m = n + LineLen
      /\ \A k \in 1 .. n : more[k] = parts[k]
      /\ \A k \in 1 .. n + LineLen : k > n => more[k] = <<to + 1, k - n>>
  <2>1. Line(to + 1) \in Seq(Part) /\ Len(Line(to + 1)) = LineLen
        /\ \A k \in 1 .. LineLen : Line(to + 1)[k] = <<to + 1, k>>
    BY LineIsParts
  <2>2. /\ more \in Seq(Part) /\ Len(more) = n + LineLen
        /\ \A k \in 1 .. n + LineLen :
             more[k] = IF k <= n THEN parts[k] ELSE Line(to + 1)[k - n]
    BY <2>1, ConcatProperties
  <2>. QED
    BY <1>1, <2>1, <2>2
<1>3. /\ \A k \in 1 .. n : from <= parts[k][1] /\ parts[k][1] <= to
      /\ \A k \in 1 .. n : k <= LineLen => parts[k] = <<from, k>>
      /\ \A k \in 1 .. n :
           k + LineLen <= n => parts[k + LineLen] = <<parts[k][1] + 1, parts[k][2]>>
      /\ n = 0 => from = to + 1
      /\ n > 0 => /\ LineLen <= n
                  /\ \A k \in 1 .. LineLen : parts[n - LineLen + k] = <<to, k>>
  BY <1>1 DEF WholeLines
<1>4. \A k \in 1 .. n : parts[k][1] \in Nat
  BY ElementOfSeq DEF Part
<1> HIDE DEF n, more, m
<1>5. ASSUME NEW k \in 1 .. m
      PROVE  from <= more[k][1] /\ more[k][1] <= to + 1
  <2>1. CASE k <= n
    <3>1. k \in 1 .. n /\ more[k] = parts[k]
      BY <1>1, <1>2, <2>1
    <3>. QED
      BY <1>3, <1>4, <3>1
  <2>2. CASE k > n
    <3>1. more[k] = <<to + 1, k - n>>
      BY <1>2, <2>2
    <3>. QED
      BY <3>1
  <2>. QED
    BY <1>1, <2>1, <2>2
<1>6. ASSUME NEW k \in 1 .. m, k <= LineLen
      PROVE  more[k] = <<from, k>>
  <2>1. CASE n = 0
    BY <1>1, <1>2, <1>3, <1>6, <2>1
  <2>2. CASE n > 0
    <3>1. k \in 1 .. n
      BY <1>1, <1>3, <1>6, <2>2
    <3>. QED
      BY <1>2, <1>3, <1>6, <3>1
  <2>. QED
    BY <1>1, <2>1, <2>2
<1>7. ASSUME NEW k \in 1 .. m, k + LineLen <= m
      PROVE  more[k + LineLen] = <<more[k][1] + 1, more[k][2]>>
  <2>1. CASE k + LineLen <= n
    <3>1. k \in 1 .. n /\ k + LineLen \in 1 .. n
      BY <1>1, <1>2, <2>1
    <3>2. more[k] = parts[k] /\ more[k + LineLen] = parts[k + LineLen]
      BY <1>2, <3>1
    <3>. QED
      BY <1>3, <2>1, <3>1, <3>2
  <2>2. CASE k + LineLen > n
    <3>1. n > 0 /\ k + LineLen - n \in 1 .. LineLen /\ k \in 1 .. n
      BY <1>1, <1>2, <1>3, <1>7, <2>2
    <3>2. parts[n - LineLen + (k + LineLen - n)] = <<to, k + LineLen - n>>
      BY <3>1, <1>3
    <3>3. n - LineLen + (k + LineLen - n) = k
      BY <1>1
    <3>4. more[k] = <<to, k + LineLen - n>>
      BY <3>1, <3>2, <3>3, <1>2
    <3>. QED
      BY <1>1, <1>2, <3>1, <3>4, <2>2
  <2>. QED
    BY <1>1, <2>1, <2>2
<1>8. \A k \in 1 .. LineLen : more[m - LineLen + k] = <<to + 1, k>>
  BY <1>1, <1>2
<1>9. m > 0 /\ LineLen <= m
  BY <1>1, <1>2
<1>10. WholeLines(more, from, to + 1)
  <2>1. \A k \in 1 .. m : from <= more[k][1] /\ more[k][1] <= to + 1
    BY <1>5
  <2>2. \A k \in 1 .. m : k <= LineLen => more[k] = <<from, k>>
    BY <1>6
  <2>3. \A k \in 1 .. m :
          k + LineLen <= m => more[k + LineLen] = <<more[k][1] + 1, more[k][2]>>
    BY <1>7
  <2>4. m = 0 => from = to + 1 + 1
    BY <1>9
  <2>. QED
    BY <2>1, <2>2, <2>3, <2>4, <1>8, <1>9 DEF WholeLines, m
<1>. QED
  BY <1>10 DEF more

(* The first newline ends the first line.                                  *)
LEMMA FirstLineEnds ==
  ASSUME NEW parts \in Seq(Part), NEW from \in Nat, NEW to \in Nat,
         WholeLines(parts, from, to),
         NEW i \in 1 .. Len(parts), IsNewline(parts[i]),
         \A j \in 1 .. i - 1 : ~IsNewline(parts[j])
  PROVE  i = LineLen
<1>1. Len(parts) \in Nat /\ LineLen \in Nat \ {0} /\ parts # <<>>
  BY LenProperties, SimAssumption, EmptySeq
<1>2. LineLen <= Len(parts)
  BY <1>1 DEF WholeLines
<1>3. \A k \in 1 .. LineLen : parts[k] = <<from, k>>
  BY <1>1, <1>2 DEF WholeLines
<1>. QED
  BY <1>1, <1>2, <1>3 DEF IsNewline

(* One line less at the front leaves a stream of whole lines.              *)
LEMMA LineTaken ==
  ASSUME NEW parts \in Seq(Part), NEW from \in Nat, NEW to \in Nat,
         WholeLines(parts, from, to), parts # <<>>,
         NEW rest \in Seq(Part), Len(rest) = Len(parts) - LineLen,
         \A k \in 1 .. Len(rest) : rest[k] = parts[k + LineLen]
  PROVE  from <= to /\ WholeLines(rest, from + 1, to)
<1> DEFINE n == Len(parts)
           m == Len(rest)
<1>1. n \in Nat \ {0} /\ m \in Nat /\ LineLen \in Nat \ {0} /\ m = n - LineLen
  BY LenProperties, SimAssumption, EmptySeq
<1>2. /\ \A k \in 1 .. n : from <= parts[k][1] /\ parts[k][1] <= to
      /\ \A k \in 1 .. n : k <= LineLen => parts[k] = <<from, k>>
      /\ \A k \in 1 .. n :
           k + LineLen <= n => parts[k + LineLen] = <<parts[k][1] + 1, parts[k][2]>>
      /\ LineLen <= n
      /\ \A k \in 1 .. LineLen : parts[n - LineLen + k] = <<to, k>>
  <2>1. n > 0
    BY <1>1
  <2>. QED
    BY <2>1 DEF WholeLines
<1>3. \A k \in 1 .. m : rest[k] = parts[k + LineLen]
  OBVIOUS
<1>4. \A k \in 1 .. n : parts[k][1] \in Nat /\ parts[k] = <<parts[k][1], parts[k][2]>>
  BY ElementOfSeq DEF Part
<1> HIDE DEF n, m
<1>6. from <= to
  BY <1>1, <1>2, <1>4
<1>7. \A k \in 1 .. m : rest[k] = <<parts[k][1] + 1, parts[k][2]>>
  BY <1>1, <1>2, <1>3
<1>8. \A k \in 1 .. m : from + 1 <= rest[k][1] /\ rest[k][1] <= to
  <2> SUFFICES ASSUME NEW k \in 1 .. m
               PROVE  from + 1 <= rest[k][1] /\ rest[k][1] <= to
    OBVIOUS
  <2>1. k \in 1 .. n /\ k + LineLen \in 1 .. n
    BY <1>1
  <2>2. rest[k][1] = parts[k][1] + 1 /\ rest[k][1] = parts[k + LineLen][1]
    BY <1>3, <1>7
  <2>. QED
    BY <1>2, <1>4, <2>1, <2>2
<1>9. \A k \in 1 .. m : k <= LineLen => rest[k] = <<from + 1, k>>
  BY <1>1, <1>2, <1>7
<1>10. \A k \in 1 .. m :
         k + LineLen <= m => rest[k + LineLen] = <<rest[k][1] + 1, rest[k][2]>>
  <2> SUFFICES ASSUME NEW k \in 1 .. m, k + LineLen <= m
               PROVE  rest[k + LineLen] = <<rest[k][1] + 1, rest[k][2]>>
    OBVIOUS
  <2>1. /\ k + LineLen \in 1 .. n /\ k + LineLen \in 1 .. m
        /\ (k + LineLen) + LineLen <= n
    BY <1>1
  <2>. QED
    BY <1>2, <1>3, <2>1
<1>11. m = 0 => from + 1 = to + 1
  BY <1>1, <1>2
<1>12. ASSUME m > 0
       PROVE  /\ LineLen <= m
              /\ \A k \in 1 .. LineLen : rest[m - LineLen + k] = <<to, k>>
  <2>1. LineLen <= m
    <3>1. parts[m + 1] = <<to, 1>>
      <4>1. 1 \in 1 .. LineLen /\ n - LineLen + 1 = m + 1
        BY <1>1
      <4>2. parts[n - LineLen + 1] = <<to, 1>>
        BY <1>2, <4>1
      <4>. QED
        BY <4>1, <4>2
    <3>2. m < LineLen => parts[m + 1] = <<from, m + 1>>
      BY <1>1, <1>2
    <3>. QED
      BY <1>1, <1>12, <3>1, <3>2
  <2>2. \A k \in 1 .. LineLen :
          /\ m - LineLen + k \in 1 .. m
          /\ (m - LineLen + k) + LineLen = n - LineLen + k
    BY <1>1, <2>1
  <2>. QED
    BY <1>2, <1>3, <2>1, <2>2
<1>. QED
  BY <1>6, <1>8, <1>9, <1>10, <1>11, <1>12 DEF WholeLines, m

(***************************************************************************)
(* Types and counts                                                        *)
(***************************************************************************)

LEMMA InitIsSound == Init => LinkInv
<1> SUFFICES ASSUME Init PROVE LinkInv
  OBVIOUS
<1>. USE DEF Init, SimInit
<1>1. QueuesOK
  BY EmptySeq DEF QueuesOK
<1>2. FlagsOK
  BY DEF FlagsOK
<1>3. PlacesOK
  BY DEF PlacesOK
<1>4. Len(stdin_pipe) = 0 /\ Len(stdout_pipe) = 0 /\ Len(pending) = 0
      /\ Len(ingested) = 0 /\ Len(rbuf) = 0 /\ Len(frames) = 0
      /\ Len(received) = 0
  BY EmptySeq
<1>5. CountsOK
  BY <1>4, SimAssumption, LinkAssumption DEF CountsOK
<1>6. UpInv
  BY <1>4 DEF UpInv
<1>7. DrainInv
  BY DEF DrainInv
<1>8. Len(Unread) = 0
  BY <1>1, <1>4, ConcatProperties DEF QueuesOK, Unread
<1>9. DownInv
  BY <1>4, <1>8, SimAssumption DEF DownInv, WholeLines
<1>10. PendingInv
  BY <1>4 DEF PendingInv
<1>. QED
  BY <1>1, <1>2, <1>3, <1>5, <1>6, <1>7, <1>9, <1>10 DEF LinkInv

(* What a read takes off the pipe is what goes into pending.               *)
LEMMA ReadMoves ==
  ASSUME QueuesOK, ReadChunk
  PROVE  /\ stdin_pipe' \in Seq(Part) /\ pending' \in Seq(Part)
         /\ Len(stdin_pipe') <= Len(stdin_pipe)
         /\ Unread' = Unread
<1> DEFINE n == IF Len(stdin_pipe) < ChunkLen THEN Len(stdin_pipe) ELSE ChunkLen
<1>1. /\ stdin_pipe \in Seq(Part) /\ pending \in Seq(Part)
      /\ Len(stdin_pipe) \in Nat /\ ChunkLen \in Nat \ {0}
  BY SimAssumption, LenProperties DEF QueuesOK
<1>2. n \in Nat /\ n <= Len(stdin_pipe)
  BY <1>1
<1>3. \A i \in 1 .. Len(stdin_pipe) : stdin_pipe[i] \in Part
  BY <1>1, ElementOfSeq
<1> HIDE DEF n
<1>4. Chunk \in Seq(Part) /\ Len(Chunk) = n
  <2>1. \A i \in 1 .. n : stdin_pipe[i] \in Part
    BY <1>1, <1>2, <1>3
  <2>2. SubSeq(stdin_pipe, 1, n) \in Seq(Part) /\ Len(SubSeq(stdin_pipe, 1, n)) = n
    BY <1>2, <2>1, SubSeqProperties
  <2>. QED
    BY <2>2 DEF Chunk, n
<1>5. stdin_pipe' = SubSeq(stdin_pipe, n + 1, Len(stdin_pipe))
  BY <1>4 DEF ReadChunk
<1>6. stdin_pipe' \in Seq(Part) /\ Len(stdin_pipe') <= Len(stdin_pipe)
  <2>1. \A i \in n + 1 .. Len(stdin_pipe) : stdin_pipe[i] \in Part
    BY <1>1, <1>2, <1>3
  <2>. QED
    BY <1>1, <1>2, <1>5, <2>1, SubSeqProperties
<1>7. pending' = pending \o Chunk
  BY DEF ReadChunk, Joined
<1>8. pending' \in Seq(Part)
  BY <1>1, <1>4, <1>7, ConcatProperties
<1>9. Chunk \o stdin_pipe' = stdin_pipe
  <2>1. Chunk = SubSeq(stdin_pipe, 1, n)
    BY DEF Chunk, n
  <2>2. SubSeq(stdin_pipe, 1, n) \o SubSeq(stdin_pipe, n + 1, Len(stdin_pipe))
          = SubSeq(stdin_pipe, 1, Len(stdin_pipe))
    <3>1. /\ 1 \in 1 .. Len(stdin_pipe) + 1 /\ n \in 1 - 1 .. Len(stdin_pipe)
          /\ Len(stdin_pipe) \in n .. Len(stdin_pipe)
      BY <1>1, <1>2
    <3>. QED
      BY <1>1, <3>1, ConcatAdjacentSubSeq
  <2>. QED
    BY <1>1, <1>5, <2>1, <2>2, SubSeqFull
<1>10. (pending \o Chunk) \o stdin_pipe' = pending \o (Chunk \o stdin_pipe')
  <2>1. /\ pending \in Seq(Part) /\ Chunk \in Seq(Part)
        /\ stdin_pipe' \in Seq(Part)
    BY <1>1, <1>4, <1>6
  <2>2. \A u \in Seq(Part) : (pending \o Chunk) \o u = pending \o (Chunk \o u)
    BY <2>1, ConcatAssociative
  <2>. QED
    BY <2>1, <2>2
<1>. QED
  BY <1>6, <1>7, <1>8, <1>9, <1>10 DEF Unread

(* What the loop takes off pending is the next line, ...                   *)
LEMMA LineMoves ==
  ASSUME QueuesOK, CountsOK, DownInv, IngestLine
  PROVE  /\ pending' \in Seq(Part)
         /\ ingested' = Append(ingested, Line(Len(ingested) + 1))
         /\ Len(ingested) + 1 <= written
         /\ WholeLines(Unread', Len(ingested) + 2, written)
<1> DEFINE n == Len(ingested)
<1>1. /\ stdin_pipe \in Seq(Part) /\ pending \in Seq(Part)
      /\ Len(stdin_pipe) \in Nat /\ Len(pending) \in Nat
      /\ LineLen \in Nat \ {0} /\ n \in Nat /\ written \in Nat
  BY SimAssumption, LenProperties DEF QueuesOK, CountsOK
<1>2. WholeLines(Unread, n + 1, written)
  BY DEF DownInv
<1>3. /\ Unread \in Seq(Part) /\ Len(Unread) = Len(pending) + Len(stdin_pipe)
      /\ \A k \in 1 .. Len(pending) + Len(stdin_pipe) :
           Unread[k] = IF k <= Len(pending) THEN pending[k]
                       ELSE stdin_pipe[k - Len(pending)]
  BY <1>1, ConcatProperties DEF Unread
<1>4. PICK i \in 1 .. Len(pending) :
        /\ FirstNewline(i)
        /\ ingested' = Append(ingested, SubSeq(pending, 1, i))
        /\ pending' = SubSeq(pending, i + 1, Len(pending))
  BY DEF IngestLine
<1> HIDE DEF n
<1>5. i = LineLen
  <2>1. i \in 1 .. Len(Unread) /\ IsNewline(Unread[i])
    BY <1>1, <1>3, <1>4 DEF FirstNewline
  <2>2. \A j \in 1 .. i - 1 : ~IsNewline(Unread[j])
    BY <1>1, <1>3, <1>4 DEF FirstNewline
  <2>3. n + 1 \in Nat
    BY <1>1
  <2>. QED
    BY <1>1, <1>2, <1>3, <2>1, <2>2, <2>3, FirstLineEnds
<1>6. LineLen <= Len(pending)
  BY <1>4, <1>5
<1>7. \A k \in 1 .. Len(pending) : pending[k] \in Part
  BY <1>1, ElementOfSeq
<1>8. /\ pending' \in Seq(Part) /\ Len(pending') = Len(pending) - LineLen
      /\ \A k \in 1 .. Len(pending) - LineLen : pending'[k] = pending[k + LineLen]
  <2>1. \A k \in LineLen + 1 .. Len(pending) : pending[k] \in Part
    BY <1>1, <1>7
  <2>2. pending' = SubSeq(pending, LineLen + 1, Len(pending))
    BY <1>4, <1>5
  <2>3. /\ pending' \in Seq(Part)
        /\ Len(pending') = IF LineLen + 1 <= Len(pending)
                           THEN Len(pending) - (LineLen + 1) + 1 ELSE 0
        /\ \A k \in 1 .. Len(pending) - (LineLen + 1) + 1 :
             pending'[k] = pending[LineLen + 1 + k - 1]
    BY <1>1, <2>1, <2>2, SubSeqProperties
  <2>. QED
    BY <1>1, <1>6, <2>3
<1>9. SubSeq(pending, 1, i) = Line(n + 1)
  <2>1. \A k \in 1 .. LineLen : pending[k] \in Part
    BY <1>1, <1>6, <1>7
  <2>2. /\ SubSeq(pending, 1, LineLen) \in Seq(Part)
        /\ Len(SubSeq(pending, 1, LineLen)) = LineLen
        /\ \A k \in 1 .. LineLen : SubSeq(pending, 1, LineLen)[k] = pending[k]
    BY <1>1, <2>1, SubSeqProperties
  <2>3. \A k \in 1 .. LineLen : k \in 1 .. Len(Unread) /\ Unread[k] = pending[k]
    BY <1>1, <1>3, <1>6
  <2>4. \A k \in 1 .. LineLen : pending[k] = <<n + 1, k>>
    <3>1. \A k \in 1 .. Len(Unread) : k <= LineLen => Unread[k] = <<n + 1, k>>
      BY <1>2 DEF WholeLines
    <3>. QED
      BY <1>1, <2>3, <3>1
  <2>5. /\ Line(n + 1) \in Seq(Part) /\ Len(Line(n + 1)) = LineLen
        /\ \A k \in 1 .. LineLen : Line(n + 1)[k] = <<n + 1, k>>
    BY <1>1, LineIsParts
  <2>. QED
    BY <1>5, <2>2, <2>4, <2>5, SeqEqual
<1>10. /\ Unread' \in Seq(Part) /\ Len(Unread') = Len(Unread) - LineLen
       /\ \A k \in 1 .. Len(Unread') : Unread'[k] = Unread[k + LineLen]
  <2>1. Unread' = pending' \o stdin_pipe
    BY DEF Unread, IngestLine
  <2>2. /\ Unread' \in Seq(Part) /\ Len(Unread') = Len(pending') + Len(stdin_pipe)
        /\ \A k \in 1 .. Len(pending') + Len(stdin_pipe) :
             Unread'[k] = IF k <= Len(pending') THEN pending'[k]
                          ELSE stdin_pipe[k - Len(pending')]
    <3>1. \A s \in Seq(Part) :
            /\ s \o stdin_pipe \in Seq(Part)
            /\ Len(s \o stdin_pipe) = Len(s) + Len(stdin_pipe)
            /\ \A k \in 1 .. Len(s) + Len(stdin_pipe) :
                 (s \o stdin_pipe)[k] = IF k <= Len(s) THEN s[k]
                                        ELSE stdin_pipe[k - Len(s)]
      BY <1>1, ConcatProperties
    <3>. QED
      BY <1>8, <2>1, <3>1
  <2>3. Len(Unread') = Len(Unread) - LineLen
    BY <1>1, <1>3, <1>8, <2>2
  <2>4. ASSUME NEW k \in 1 .. Len(Unread') PROVE Unread'[k] = Unread[k + LineLen]
    <3>1. /\ k \in 1 .. Len(pending') + Len(stdin_pipe)
          /\ k + LineLen \in 1 .. Len(pending) + Len(stdin_pipe)
      BY <1>1, <1>3, <1>8, <2>2, <2>3
    <3>2. CASE k <= Len(pending) - LineLen
      <4>1. k \in 1 .. Len(pending) - LineLen /\ k + LineLen <= Len(pending)
        BY <1>1, <3>1, <3>2
      <4>. QED
        BY <1>3, <1>8, <2>2, <3>1, <3>2, <4>1
    <3>3. CASE k > Len(pending) - LineLen
      <4>1. /\ ~(k <= Len(pending')) /\ ~(k + LineLen <= Len(pending))
            /\ k + LineLen - Len(pending) = k - Len(pending')
        BY <1>1, <1>8, <3>1, <3>3
      <4>2. Unread'[k] = stdin_pipe[k - Len(pending')]
        BY <2>2, <3>1, <4>1
      <4>3. Unread[k + LineLen] = stdin_pipe[k + LineLen - Len(pending)]
        <5>1. \A j \in 1 .. Len(pending) + Len(stdin_pipe) :
                ~(j <= Len(pending)) => Unread[j] = stdin_pipe[j - Len(pending)]
          BY <1>3
        <5>. QED
          BY <1>1, <3>1, <4>1, <5>1
      <4>. QED
        BY <4>1, <4>2, <4>3
    <3>. QED
      BY <1>1, <3>1, <3>2, <3>3
  <2>. QED
    BY <2>2, <2>3, <2>4
<1>11. Unread # <<>> /\ n + 1 \in Nat
  BY <1>1, <1>3, <1>4, EmptySeq
<1>12. n + 1 <= written /\ WholeLines(Unread', n + 1 + 1, written)
  BY <1>1, <1>2, <1>3, <1>10, <1>11, LineTaken
<1>13. n + 1 + 1 = n + 2
  BY <1>1
<1>. QED
  BY <1>4, <1>8, <1>9, <1>12, <1>13 DEF n

LEMMA QueuesStep ==
  ASSUME LinkInv, [Next]_allVars
  PROVE  QueuesOK'
<1>. USE DEF allVars, simVars, linkVars
<1>1. /\ stdin_pipe \in Seq(Part) /\ pending \in Seq(Part)
      /\ ingested \in Seq(Seq(Part))
      /\ stdout_pipe \in Seq(Nat) /\ rbuf \in Seq(Nat)
      /\ frames \in Seq(Nat) /\ received \in Seq(Nat)
      /\ written \in Nat /\ emitted \in Nat
  BY DEF LinkInv, QueuesOK, CountsOK
<1>2. CASE Write
  <2>1. Line(written') \in Seq(Part)
    <3>1. written' \in Nat
      BY <1>1, <1>2 DEF Write
    <3>. QED
      BY <3>1, LineIsParts
  <2>2. stdin_pipe' \in Seq(Part)
    BY <1>1, <1>2, <2>1, ConcatProperties DEF Write
  <2>. QED
    BY <1>1, <1>2, <2>2 DEF Write, QueuesOK
<1>3. CASE GetFrame
  <2>1. Head(frames) \in Nat /\ Tail(frames) \in Seq(Nat)
    BY <1>1, <1>3, HeadTailProperties DEF GetFrame
  <2>2. Append(received, Head(frames)) \in Seq(Nat)
    BY <1>1, <2>1, AppendProperties
  <2>. QED
    BY <1>1, <1>3, <2>1, <2>2 DEF GetFrame, QueuesOK
<1>4. CASE FillBuffer
  BY <1>1, <1>4, EmptySeq DEF FillBuffer, QueuesOK
<1>5. CASE PutFrame
  <2>1. Head(rbuf) \in Nat /\ Tail(rbuf) \in Seq(Nat)
    BY <1>1, <1>5, HeadTailProperties DEF PutFrame
  <2>2. Append(frames, Head(rbuf)) \in Seq(Nat)
    BY <1>1, <2>1, AppendProperties
  <2>. QED
    BY <1>1, <1>5, <2>1, <2>2 DEF PutFrame, BufferAfter, QueuesOK
<1>6. CASE ReadChunk /\ UNCHANGED linkVars
  <2>1. stdin_pipe' \in Seq(Part) /\ pending' \in Seq(Part)
    BY <1>6, ReadMoves DEF LinkInv
  <2>. QED
    BY <1>1, <1>6, <2>1 DEF ReadChunk, QueuesOK
<1>7. CASE IngestLine /\ UNCHANGED linkVars
  <2>1. /\ pending' \in Seq(Part)
        /\ ingested' = Append(ingested, Line(Len(ingested) + 1))
    BY <1>7, LineMoves DEF LinkInv
  <2>2. Line(Len(ingested) + 1) \in Seq(Part)
    <3>1. Len(ingested) + 1 \in Nat
      BY <1>1, LenProperties
    <3>. QED
      BY <3>1, LineIsParts
  <2>3. ingested' \in Seq(Seq(Part))
    BY <1>1, <2>1, <2>2, AppendProperties
  <2>. QED
    BY <1>1, <1>7, <2>1, <2>3 DEF IngestLine, QueuesOK
<1>8. CASE EmitFrame /\ UNCHANGED linkVars
  <2>1. stdout_pipe' \in Seq(Nat)
    BY <1>1, <1>8, AppendProperties DEF EmitFrame
  <2>. QED
    BY <1>1, <1>8, <2>1 DEF EmitFrame, QueuesOK
<1>9. CASE UNCHANGED <<stdin_pipe, pending, ingested, stdout_pipe, rbuf, frames,
                       received>>
  BY <1>1, <1>9 DEF QueuesOK
<1>. QED
  BY <1>2, <1>3, <1>4, <1>5, <1>6, <1>7, <1>8, <1>9
     DEF Next, Call, HostStep, WriteBroken, GetEmpty, CloseStdin, Waited,
         WaitExpires, Join, ReaderStep, ReaderEnds, SimStep, LinesDone,
         ReadEnd, PollExpires, Pass, Hang, Die

LEMMA FlagsStep ==
  ASSUME LinkInv, [Next]_allVars
  PROVE  FlagsOK' /\ PlacesOK'
<1>. USE DEF allVars, simVars, linkVars
<1>1. FlagsOK /\ PlacesOK
  BY DEF LinkInv
<1>2. FlagsOK'
  <2>1. stdin_open' = stdin_open \/ stdin_open' = FALSE
    BY DEF Next, Call, HostStep, Write, WriteBroken, GetFrame, GetEmpty,
           CloseStdin, Waited, WaitExpires, Join, ReaderStep, FillBuffer,
           PutFrame, ReaderEnds, SimStep, ReadChunk, IngestLine, LinesDone,
           ReadEnd, PollExpires, Pass, EmitFrame, Hang, Die
  <2>2. hung' = hung \/ hung' = TRUE
    BY DEF Next, Call, HostStep, Write, WriteBroken, GetFrame, GetEmpty,
           CloseStdin, Waited, WaitExpires, Join, ReaderStep, FillBuffer,
           PutFrame, ReaderEnds, SimStep, ReadChunk, IngestLine, LinesDone,
           ReadEnd, PollExpires, Pass, EmitFrame, Hang, Die
  <2>3. reading' = reading \/ reading' = FALSE
    BY DEF Next, Call, HostStep, Write, WriteBroken, GetFrame, GetEmpty,
           CloseStdin, Waited, WaitExpires, Join, ReaderStep, FillBuffer,
           PutFrame, ReaderEnds, SimStep, ReadChunk, IngestLine, LinesDone,
           ReadEnd, PollExpires, Pass, EmitFrame, Hang, Die
  <2>. QED
    BY <1>1, <2>1, <2>2, <2>3 DEF FlagsOK
<1>3. PlacesOK'
  <2>1. sim_pc' \in {"poll", "lines", "outputs", "emit", "exited", "killed"}
    BY <1>1
       DEF PlacesOK, Next, Call, HostStep, Write, WriteBroken, GetFrame,
           GetEmpty, CloseStdin, Waited, WaitExpires, Join, ReaderStep,
           FillBuffer, PutFrame, ReaderEnds, SimStep, ReadChunk, IngestLine,
           AfterLine, LinesDone, ReadEnd, PollExpires, Pass, EmitFrame, Hang, Die
  <2>2. caller' \in {"none", "send", "recv", "close", "wait", "join", "closed"}
    BY <1>1
       DEF PlacesOK, Next, Call, HostStep, Write, WriteBroken, GetFrame,
           GetEmpty, CloseStdin, Waited, WaitExpires, Join, ReaderStep,
           FillBuffer, PutFrame, ReaderEnds
  <2>. QED
    BY <2>1, <2>2 DEF PlacesOK
<1>. QED
  BY <1>2, <1>3

LEMMA CountsStep ==
  ASSUME LinkInv, [Next]_allVars
  PROVE  CountsOK'
<1>. USE DEF allVars, simVars, linkVars
<1>1. /\ stdin_pipe \in Seq(Part) /\ stdout_pipe \in Seq(Nat)
      /\ Len(stdin_pipe) \in Nat /\ Len(stdout_pipe) \in Nat
      /\ LineLen \in Nat \ {0} /\ OutRoom \in Nat \ {0}
      /\ CycleFrames \in Nat \ {0} /\ MaxFrames \in Nat
      /\ InRoom \in Nat /\ MaxLines \in Nat
  BY SimAssumption, LinkAssumption, LenProperties DEF LinkInv, QueuesOK
<1>2. CountsOK
  BY DEF LinkInv
<1>3. ASSUME NEW op \in {"send", "recv", "close"}, Call(op) PROVE CountsOK'
  BY <1>1, <1>2, <1>3 DEF Call, CountsOK
<1>4. CASE Write
  <2>1. Line(written') \in Seq(Part) /\ Len(Line(written')) = LineLen
    BY <1>2, <1>4, LineIsParts DEF Write, CountsOK
  <2>2. Len(stdin_pipe') = Len(stdin_pipe) + LineLen
    BY <1>1, <1>4, <2>1, ConcatProperties DEF Write
  <2>. QED
    BY <1>1, <1>2, <1>4, <2>2 DEF Write, CountsOK
<1>5. CASE FillBuffer
  BY <1>1, <1>2, <1>5, EmptySeq DEF FillBuffer, CountsOK
<1>6. CASE ReadChunk /\ UNCHANGED linkVars
  <2>1. Len(stdin_pipe') <= Len(stdin_pipe) /\ Len(stdin_pipe') \in Nat
    BY <1>6, ReadMoves, LenProperties DEF LinkInv
  <2>. QED
    BY <1>1, <1>2, <1>6, <2>1 DEF ReadChunk, CountsOK
<1>7. CASE Pass /\ UNCHANGED linkVars
  BY <1>1, <1>2, <1>7 DEF Pass, CountsOK
<1>8. CASE EmitFrame /\ UNCHANGED linkVars
  <2>1. Len(stdout_pipe') = Len(stdout_pipe) + 1
    BY <1>1, <1>2, <1>8, AppendProperties DEF EmitFrame, CountsOK
  <2>. QED
    BY <1>1, <1>2, <1>8, <2>1 DEF EmitFrame, Running, CountsOK
<1>9. CASE (IngestLine \/ LinesDone \/ ReadEnd \/ PollExpires \/ Hang \/ Die)
           /\ UNCHANGED linkVars
  BY <1>2, <1>9 DEF IngestLine, AfterLine, LinesDone, ReadEnd, PollExpires,
                    Hang, Die, CountsOK
<1>10. CASE \/ WriteBroken \/ GetFrame \/ GetEmpty \/ CloseStdin \/ Waited
            \/ WaitExpires \/ Join \/ PutFrame \/ ReaderEnds
  BY <1>2, <1>10 DEF WriteBroken, GetFrame, GetEmpty, CloseStdin, Waited,
       WaitExpires, Join, PutFrame, ReaderEnds, Die, CountsOK
<1>11. CASE UNCHANGED allVars
  BY <1>2, <1>11 DEF CountsOK
<1>. QED
  BY <1>3, <1>4, <1>5, <1>6, <1>7, <1>8, <1>9, <1>10, <1>11
     DEF Next, HostStep, ReaderStep, SimStep

(***************************************************************************)
(* The way up                                                              *)
(***************************************************************************)

LEMMA UpToNext ==
  ASSUME NEW n \in Nat, NEW m, m = n + 1
  PROVE  \A i \in 1 .. m : i \in 1 .. n \/ i = n + 1
OBVIOUS

LEMMA UpStep ==
  ASSUME LinkInv, [Next]_allVars
  PROVE  UpInv'
<1>. USE DEF allVars, simVars, linkVars
<1>1. /\ stdout_pipe \in Seq(Nat) /\ rbuf \in Seq(Nat)
      /\ frames \in Seq(Nat) /\ received \in Seq(Nat)
      /\ Len(stdout_pipe) \in Nat /\ Len(rbuf) \in Nat
      /\ Len(frames) \in Nat /\ Len(received) \in Nat /\ emitted \in Nat
  BY LenProperties DEF LinkInv, QueuesOK, CountsOK
<1>2. UpInv
  BY DEF LinkInv
<1>3. CASE GetFrame
  <2>1. /\ Head(frames) \in Nat /\ Len(frames) > 0
        /\ Head(frames) = frames[1]
        /\ Len(Tail(frames)) = Len(frames) - 1
        /\ \A i \in 1 .. Len(Tail(frames)) : Tail(frames)[i] = frames[i + 1]
    BY <1>1, <1>3, HeadTailProperties, EmptySeq DEF GetFrame
  <2>2. /\ Len(received') = Len(received) + 1
        /\ \A i \in 1 .. Len(received) : received'[i] = received[i]
        /\ received'[Len(received) + 1] = Head(frames)
    <3>1. received' = Append(received, Head(frames))
      BY <1>3 DEF GetFrame
    <3>. QED
      BY <1>1, <2>1, <3>1, AppendProperties
  <2>3. /\ Len(frames') = Len(frames) - 1
        /\ \A i \in 1 .. Len(frames) - 1 : frames'[i] = frames[i + 1]
        /\ UNCHANGED <<rbuf, stdout_pipe, emitted>>
    BY <1>3, <2>1 DEF GetFrame
  <2>4. \A i \in 1 .. Len(received') : received'[i] = i
    <3>1. frames[1] = Len(received) + 1
      BY <1>1, <1>2, <2>1 DEF UpInv
    <3>2. \A i \in 1 .. Len(received') :
            i \in 1 .. Len(received) \/ i = Len(received) + 1
      BY <1>1, <2>2, UpToNext
    <3>3. \A i \in 1 .. Len(received) : received'[i] = i
      BY <1>2, <2>2 DEF UpInv
    <3>4. received'[Len(received) + 1] = Len(received) + 1
      BY <2>1, <2>2, <3>1
    <3>. QED
      BY <3>2, <3>3, <3>4
  <2>5. \A i \in 1 .. Len(frames') : frames'[i] = Len(received') + i
    <3>1. \A i \in 1 .. Len(frames) - 1 :
            i + 1 \in 1 .. Len(frames) /\ Len(received) + (i + 1) = Len(received') + i
      BY <1>1, <2>2
    <3>. QED
      BY <1>2, <2>3, <3>1 DEF UpInv
  <2>6. Len(received') + Len(frames') = Len(received) + Len(frames)
    BY <1>1, <2>2, <2>3
  <2>. QED
    BY <1>2, <2>3, <2>4, <2>5, <2>6 DEF UpInv
<1>4. CASE FillBuffer
  BY <1>1, <1>2, <1>4, EmptySeq DEF FillBuffer, UpInv
<1>5. CASE PutFrame
  <2>1. /\ Head(rbuf) \in Nat /\ Len(rbuf) > 0
        /\ Head(rbuf) = rbuf[1]
        /\ Len(Tail(rbuf)) = Len(rbuf) - 1
        /\ \A i \in 1 .. Len(Tail(rbuf)) : Tail(rbuf)[i] = rbuf[i + 1]
    BY <1>1, <1>5, HeadTailProperties, EmptySeq DEF PutFrame
  <2>2. /\ Len(frames') = Len(frames) + 1
        /\ \A i \in 1 .. Len(frames) : frames'[i] = frames[i]
        /\ frames'[Len(frames) + 1] = Head(rbuf)
    <3>1. frames' = Append(frames, Head(rbuf))
      BY <1>5 DEF PutFrame
    <3>. QED
      BY <1>1, <2>1, <3>1, AppendProperties
  <2>3. /\ Len(rbuf') = Len(rbuf) - 1
        /\ \A i \in 1 .. Len(rbuf) - 1 : rbuf'[i] = rbuf[i + 1]
        /\ UNCHANGED <<received, stdout_pipe, emitted>>
    BY <1>5, <2>1 DEF PutFrame, BufferAfter
  <2>4. \A i \in 1 .. Len(frames') : frames'[i] = Len(received) + i
    <3>1. rbuf[1] = Len(received) + Len(frames) + 1
      BY <1>1, <1>2, <2>1 DEF UpInv
    <3>2. \A i \in 1 .. Len(frames') :
            i \in 1 .. Len(frames) \/ i = Len(frames) + 1
      BY <1>1, <2>2, UpToNext
    <3>3. Len(received) + Len(frames) + 1 = Len(received) + (Len(frames) + 1)
      BY <1>1
    <3>4. \A i \in 1 .. Len(frames) : frames'[i] = Len(received) + i
      BY <1>2, <2>2 DEF UpInv
    <3>5. frames'[Len(frames) + 1] = Len(received) + (Len(frames) + 1)
      BY <2>1, <2>2, <3>1, <3>3
    <3>. QED
      BY <3>2, <3>4, <3>5
  <2>5. \A i \in 1 .. Len(rbuf') : rbuf'[i] = Len(received) + Len(frames') + i
    <3>1. \A i \in 1 .. Len(rbuf) - 1 :
            /\ i + 1 \in 1 .. Len(rbuf)
            /\ Len(received) + Len(frames) + (i + 1) = Len(received) + Len(frames') + i
      BY <1>1, <2>2
    <3>. QED
      BY <1>2, <2>3, <3>1 DEF UpInv
  <2>6. Len(received) + Len(frames') + Len(rbuf') = Len(received) + Len(frames) + Len(rbuf)
    BY <1>1, <2>2, <2>3
  <2>. QED
    BY <1>2, <2>3, <2>4, <2>5, <2>6 DEF UpInv
<1>6. CASE EmitFrame /\ UNCHANGED linkVars
  <2>1. /\ Len(stdout_pipe') = Len(stdout_pipe) + 1
        /\ \A i \in 1 .. Len(stdout_pipe) : stdout_pipe'[i] = stdout_pipe[i]
        /\ stdout_pipe'[Len(stdout_pipe) + 1] = emitted + 1
    BY <1>1, <1>6, AppendProperties DEF EmitFrame
  <2>2. emitted' = emitted + 1 /\ UNCHANGED <<rbuf, frames, received>>
    BY <1>6 DEF EmitFrame
  <2>3. emitted + 1 = Len(received) + Len(frames) + Len(rbuf) + (Len(stdout_pipe) + 1)
    BY <1>1, <1>2 DEF UpInv
  <2>4. \A i \in 1 .. Len(stdout_pipe') :
          stdout_pipe'[i] = Len(received) + Len(frames) + Len(rbuf) + i
    <3>1. \A i \in 1 .. Len(stdout_pipe') :
            i \in 1 .. Len(stdout_pipe) \/ i = Len(stdout_pipe) + 1
      BY <1>1, <2>1, UpToNext
    <3>2. \A i \in 1 .. Len(stdout_pipe) :
            stdout_pipe'[i] = Len(received) + Len(frames) + Len(rbuf) + i
      BY <1>2, <2>1 DEF UpInv
    <3>. QED
      BY <2>1, <2>3, <3>1, <3>2
  <2>. QED
    BY <1>2, <2>1, <2>2, <2>3, <2>4 DEF UpInv
<1>7. CASE UNCHANGED <<emitted, stdout_pipe, rbuf, frames, received>>
  BY <1>2, <1>7 DEF UpInv
<1>. QED
  BY <1>3, <1>4, <1>5, <1>6, <1>7
     DEF Next, Call, HostStep, Write, WriteBroken, GetEmpty, CloseStdin, Waited,
         WaitExpires, Join, ReaderStep, ReaderEnds, SimStep, ReadChunk,
         IngestLine, LinesDone, ReadEnd, PollExpires, Pass, Hang, Die

LEMMA DrainStep ==
  ASSUME LinkInv, [Next]_allVars
  PROVE  DrainInv'
<1>. USE DEF allVars, simVars, linkVars
<1>1. DrainInv /\ FlagsOK
  BY DEF LinkInv
<1>2. Gone => Gone'
  BY DEF Gone, Next, Call, HostStep, Write, WriteBroken, GetFrame, GetEmpty,
         CloseStdin, Waited, WaitExpires, Join, ReaderStep, FillBuffer,
         PutFrame, ReaderEnds, SimStep, Running, ReadChunk, IngestLine,
         LinesDone, ReadEnd, PollExpires, Pass, EmitFrame, Hang, Die
<1>3. ASSUME Gone, stdout_pipe = <<>> PROVE stdout_pipe' = <<>>
  BY <1>3
     DEF Gone, Next, Call, HostStep, Write, WriteBroken, GetFrame, GetEmpty,
         CloseStdin, Waited, WaitExpires, Join, ReaderStep, FillBuffer,
         PutFrame, ReaderEnds, SimStep, Running, ReadChunk, IngestLine,
         LinesDone, ReadEnd, PollExpires, Pass, EmitFrame, Hang, Die
<1>4. ASSUME ~reading, rbuf = <<>> PROVE ~reading' /\ rbuf' = <<>>
  BY <1>4
     DEF Next, Call, HostStep, Write, WriteBroken, GetFrame, GetEmpty,
         CloseStdin, Waited, WaitExpires, Join, ReaderStep, FillBuffer,
         PutFrame, ReaderEnds, SimStep, ReadChunk, IngestLine, LinesDone,
         ReadEnd, PollExpires, Pass, EmitFrame, Hang, Die
<1>5. ASSUME reading, ~reading' PROVE ReaderEnds
  BY <1>5
     DEF Next, Call, HostStep, Write, WriteBroken, GetFrame, GetEmpty,
         CloseStdin, Waited, WaitExpires, Join, ReaderStep, FillBuffer,
         PutFrame, ReaderEnds, SimStep, ReadChunk, IngestLine, LinesDone,
         ReadEnd, PollExpires, Pass, EmitFrame, Hang, Die
<1>6. CASE reading
  <2>1. SUFFICES ASSUME ~reading' PROVE Gone' /\ rbuf' = <<>> /\ stdout_pipe' = <<>>
    BY DEF DrainInv
  <2>2. ReaderEnds
    BY <1>5, <1>6, <2>1
  <2>. QED
    BY <1>2, <2>2 DEF ReaderEnds
<1>7. CASE ~reading
  BY <1>1, <1>2, <1>3, <1>4, <1>7 DEF DrainInv
<1>. QED
  BY <1>6, <1>7

(***************************************************************************)
(* The way down                                                            *)
(***************************************************************************)

LEMMA DownStep ==
  ASSUME LinkInv, [Next]_allVars
  PROVE  DownInv'
<1>. USE DEF allVars, simVars, linkVars
<1>1. /\ stdin_pipe \in Seq(Part) /\ pending \in Seq(Part)
      /\ ingested \in Seq(Seq(Part))
      /\ Len(ingested) \in Nat /\ written \in Nat
  BY LenProperties DEF LinkInv, QueuesOK, CountsOK
<1>2. DownInv
  BY DEF LinkInv
<1>3. CASE Write
  <2>1. /\ written' = written + 1
        /\ stdin_pipe' = stdin_pipe \o Line(written + 1)
        /\ UNCHANGED <<pending, ingested>>
    BY <1>3 DEF Write
  <2>2. Line(written + 1) \in Seq(Part)
    BY <1>1, LineIsParts
  <2>3. Unread' = Unread \o Line(written + 1)
    <3>1. \A s \in Seq(Part) :
            (pending \o stdin_pipe) \o s = pending \o (stdin_pipe \o s)
      BY <1>1, ConcatAssociative
    <3>. QED
      BY <2>1, <2>2, <3>1 DEF Unread
  <2>4. Unread \in Seq(Part) /\ Len(ingested) + 1 \in Nat
    BY <1>1, ConcatProperties DEF Unread
  <2>5. WholeLines(Unread', Len(ingested) + 1, written + 1)
    BY <1>1, <1>2, <2>3, <2>4, LineAdded DEF DownInv
  <2>. QED
    BY <1>1, <1>2, <2>1, <2>5 DEF DownInv
<1>4. CASE ReadChunk /\ UNCHANGED linkVars
  <2>1. Unread' = Unread /\ UNCHANGED <<ingested, written>>
    BY <1>4, ReadMoves DEF LinkInv, ReadChunk
  <2>. QED
    BY <1>2, <2>1 DEF DownInv
<1>5. CASE IngestLine /\ UNCHANGED linkVars
  <2>1. /\ ingested' = Append(ingested, Line(Len(ingested) + 1))
        /\ Len(ingested) + 1 <= written
        /\ WholeLines(Unread', Len(ingested) + 2, written)
        /\ written' = written
    BY <1>5, LineMoves DEF LinkInv
  <2>2. Line(Len(ingested) + 1) \in Seq(Part)
    <3>1. Len(ingested) + 1 \in Nat
      BY <1>1
    <3>. QED
      BY <3>1, LineIsParts
  <2>3. /\ Len(ingested') = Len(ingested) + 1
        /\ \A i \in 1 .. Len(ingested) : ingested'[i] = ingested[i]
        /\ ingested'[Len(ingested) + 1] = Line(Len(ingested) + 1)
    BY <1>1, <2>1, <2>2, AppendProperties
  <2>4. \A i \in 1 .. Len(ingested') : ingested'[i] = Line(i)
    <3>1. \A i \in 1 .. Len(ingested) : ingested[i] = Line(i)
      BY <1>2 DEF DownInv
    <3>2. \A i \in 1 .. Len(ingested') : i \in 1 .. Len(ingested) \/ i = Len(ingested) + 1
      BY <1>1, <2>3
    <3>. QED
      BY <2>3, <3>1, <3>2
  <2>5. Len(ingested') + 1 = Len(ingested) + 2
    BY <1>1, <2>3
  <2>. QED
    BY <2>1, <2>3, <2>4, <2>5 DEF DownInv
<1>6. CASE UNCHANGED <<stdin_pipe, pending, ingested, written>>
  BY <1>2, <1>6 DEF DownInv, Unread
<1>. QED
  BY <1>3, <1>4, <1>5, <1>6
     DEF Next, Call, HostStep, WriteBroken, GetFrame, GetEmpty, CloseStdin,
         Waited, WaitExpires, Join, ReaderStep, FillBuffer, PutFrame, ReaderEnds,
         SimStep, LinesDone, ReadEnd, PollExpires, Pass, EmitFrame, Hang, Die

LEMMA PendingStep ==
  ASSUME LinkInv, [Next]_allVars
  PROVE  PendingInv'
<1>. USE DEF allVars, simVars, linkVars
<1>1. PendingInv
  BY DEF LinkInv
<1>2. CASE (ReadChunk \/ IngestLine) /\ UNCHANGED linkVars
  BY <1>2 DEF ReadChunk, IngestLine, AfterLine, PendingInv
<1>3. CASE LinesDone /\ UNCHANGED linkVars
  BY <1>3 DEF LinesDone, PendingInv
<1>4. CASE \/ (ReadEnd \/ Die) /\ UNCHANGED linkVars
           \/ WaitExpires
  BY <1>4 DEF ReadEnd, WaitExpires, Die, PendingInv
<1>5. CASE (PollExpires \/ Pass \/ EmitFrame \/ Hang) /\ UNCHANGED linkVars
  BY <1>1, <1>5 DEF PollExpires, Pass, EmitFrame, Hang, Running, PendingInv
<1>6. CASE UNCHANGED simVars
  BY <1>1, <1>6 DEF PendingInv
<1>7. CASE UNCHANGED <<sim_pc, pending>>
  BY <1>1, <1>7 DEF PendingInv
<1>. QED
  BY <1>2, <1>3, <1>4, <1>5, <1>6, <1>7
     DEF Next, Call, HostStep, Write, WriteBroken, GetFrame, GetEmpty,
         CloseStdin, Waited, Join, ReaderStep, FillBuffer, PutFrame, ReaderEnds,
         SimStep

(***************************************************************************)
(* Theorems                                                                *)
(***************************************************************************)

(* The invariant holds in every state of the link.                         *)
THEOREM LinkIsSound == Spec => []LinkInv
<1>1. LinkInv /\ [Next]_allVars => LinkInv'
  BY QueuesStep, FlagsStep, CountsStep, UpStep, DrainStep, DownStep, PendingStep
     DEF LinkInv
<1>. QED
  BY InitIsSound, <1>1, PTL DEF Spec

(* The while loop leaves less than a line in pending.                      *)
LEMMA PendingIsShort ==
  ASSUME LinkInv, sim_pc \in {"poll", "outputs", "emit"}
  PROVE  Len(pending) < LineLen
<1>1. /\ stdin_pipe \in Seq(Part) /\ pending \in Seq(Part)
      /\ Len(stdin_pipe) \in Nat /\ Len(pending) \in Nat /\ LineLen \in Nat \ {0}
  BY SimAssumption, LenProperties DEF LinkInv, QueuesOK
<1>2. SUFFICES ASSUME LineLen <= Len(pending) PROVE FALSE
  BY <1>1
<1>3. Len(Unread) = Len(pending) + Len(stdin_pipe) /\ Unread[LineLen] = pending[LineLen]
  BY <1>1, <1>2, ConcatProperties DEF Unread
<1>4. Unread[LineLen] = <<Len(ingested) + 1, LineLen>>
  BY <1>1, <1>2, <1>3 DEF LinkInv, DownInv, WholeLines
<1>5. IsNewline(pending[LineLen])
  BY <1>3, <1>4 DEF IsNewline
<1>. QED
  BY <1>1, <1>2, <1>5 DEF LinkInv, PendingInv

(* The pipes keep to their room, and the while loop (rover_sim.cpp) leaves *)
(* no whole line in pending.                                               *)
THEOREM LinkTypeCorrect == Spec => []TypeOK
<1>1. ASSUME LinkInv PROVE TypeOK
  <2>1. /\ written \in 0 .. MaxLines /\ calls \in 0 .. MaxLines
        /\ emitted \in 0 .. MaxFrames /\ to_emit \in 0 .. CycleFrames
        /\ Len(stdin_pipe) <= InRoom /\ Len(stdout_pipe) <= OutRoom
    BY <1>1, SimAssumption, LinkAssumption DEF LinkInv, CountsOK
  <2>2. sim_pc \in {"poll", "outputs", "emit"} => Len(pending) < LineLen
    BY <1>1, PendingIsShort
  <2>3. {stdin_open, hung, reading} \subseteq BOOLEAN
    BY <1>1 DEF LinkInv, FlagsOK
  <2>4. /\ sim_pc \in {"poll", "lines", "outputs", "emit", "exited", "killed"}
        /\ caller \in {"none", "send", "recv", "close", "wait", "join", "closed"}
    BY <1>1 DEF LinkInv, PlacesOK
  <2>. QED
    BY <2>1, <2>2, <2>3, <2>4 DEF TypeOK
<1>. QED
  BY LinkIsSound, <1>1, PTL

(* Once SimLink's reader thread has ended, all that was emitted is at the  *)
(* caller or in the queue.                                                 *)
THEOREM NoFrameLeftBehind == Spec => []ReaderDrains
<1>1. ASSUME LinkInv PROVE ReaderDrains
  <2>1. SUFFICES ASSUME ~reading PROVE Len(received \o frames) = emitted
    BY DEF ReaderDrains
  <2>2. /\ received \in Seq(Nat) /\ frames \in Seq(Nat)
        /\ Len(received) \in Nat /\ Len(frames) \in Nat
    BY <1>1, LenProperties DEF LinkInv, QueuesOK
  <2>3. Len(rbuf) = 0 /\ Len(stdout_pipe) = 0
    BY <1>1, <2>1, EmptySeq DEF LinkInv, DrainInv
  <2>4. Len(received \o frames) = Len(received) + Len(frames)
    BY <2>2, ConcatProperties
  <2>. QED
    BY <1>1, <2>2, <2>3, <2>4 DEF LinkInv, UpInv
<1>. QED
  BY LinkIsSound, <1>1, PTL

(* The simulator's frames pass the pipe, the reader's buffer and the queue *)
(* as through a FIFO: every step puts one, takes one, or does neither.     *)
THEOREM UpIsFifo == Spec => FramesArrive
<1>1. Init => Up!Init
  BY DEF Init, SimInit, Up!Init
<1>2. ASSUME LinkInv, LinkInv', [Next]_allVars
      PROVE  [Up!Put \/ Up!Get]_<<emitted, received>>
  <2>. USE DEF allVars, simVars, linkVars
  <2>1. CASE EmitFrame /\ UNCHANGED linkVars
    BY <2>1 DEF EmitFrame, Up!Put
  <2>2. CASE GetFrame
    <3>1. /\ received \in Seq(Nat) /\ frames \in Seq(Nat)
          /\ Len(received) \in Nat /\ Len(frames) \in Nat
          /\ Len(rbuf) \in Nat /\ Len(stdout_pipe) \in Nat
          /\ received' \in Seq(Nat)
      BY <1>2, LenProperties DEF LinkInv, QueuesOK
    <3>2. received' = Append(received, Head(frames)) /\ frames # <<>>
          /\ emitted' = emitted
      BY <2>2 DEF GetFrame
    <3>3. Len(received') = Len(received) + 1
      BY <3>1, <3>2, HeadTailProperties, AppendProperties
    <3>4. Len(received) + 1 \in Len(received) + 1 .. emitted
      <4>1. Len(frames) > 0
        BY <3>1, <3>2, EmptySeq
      <4>. QED
        BY <1>2, <3>1, <4>1 DEF LinkInv, UpInv
    <3>5. /\ DOMAIN received' = 1 .. Len(received) + 1
          /\ received' = [i \in DOMAIN received' |-> received'[i]]
      BY <3>1, <3>3, LenProperties
    <3>6. \A i \in 1 .. Len(received) + 1 : received'[i] = i
      BY <1>2, <3>3 DEF LinkInv, UpInv
    <3>7. received' = [i \in 1 .. Len(received) + 1 |-> i]
      BY <3>5, <3>6
    <3>. QED
      BY <3>2, <3>4, <3>7 DEF Up!Get
  <2>3. CASE UNCHANGED <<emitted, received>>
    BY <2>3
  <2>. QED
    BY <1>2, <2>1, <2>2, <2>3
       DEF Next, Call, HostStep, Write, WriteBroken, GetEmpty, CloseStdin,
           Waited, WaitExpires, Join, ReaderStep, FillBuffer, PutFrame,
           ReaderEnds, SimStep, ReadChunk, IngestLine, LinesDone, ReadEnd,
           PollExpires, Pass, Hang, Die
<1>3. Up!Init /\ [][Up!Put \/ Up!Get]_<<emitted, received>> => FramesArrive
  BY DEF FramesArrive, Up!Spec
<1>. QED
  BY LinkIsSound, <1>1, <1>2, <1>3, PTL DEF Spec

(* No two lines are the same, so a line given to ingestFrame() has one     *)
(* number.                                                                 *)
LEMMA LineHasNumber ==
  ASSUME written \in Nat, NEW n \in 1 .. written
  PROVE  NumberOf(Line(n)) = n
<1>1. \A k \in 1 .. written : Line(k) = Line(n) => k = n
  <2>1. ASSUME NEW k \in 1 .. written, Line(k) = Line(n) PROVE k = n
    <3>1. Line(k)[1] = <<k, 1>> /\ Line(n)[1] = <<n, 1>>
      BY SimAssumption, LineIsParts
    <3>. QED
      BY <2>1, <3>1
  <2>. QED
    BY <2>1
<1>2. (CHOOSE k \in 1 .. written : Line(k) = Line(n)) = n
  BY <1>1
<1>. QED
  BY <1>2 DEF NumberOf

InOrder ==
  [i \in DOMAIN ingested |-> NumberOf(ingested[i])]
    = [i \in 1 .. Len(ingested) |-> i]

LEMMA NumbersAreInOrder == ASSUME LinkInv PROVE InOrder
<1>1. /\ DOMAIN ingested = 1 .. Len(ingested) /\ Len(ingested) \in Nat
      /\ written \in Nat /\ Len(ingested) <= written
      /\ \A i \in 1 .. Len(ingested) : ingested[i] = Line(i)
  BY LenProperties DEF LinkInv, QueuesOK, CountsOK, DownInv
<1>2. \A i \in 1 .. Len(ingested) : NumberOf(ingested[i]) = i
  BY <1>1, LineHasNumber
<1>. QED
  BY <1>1, <1>2 DEF InOrder

(* The host's lines pass the pipe, the chunks of read() and the string     *)
(* pending as through a FIFO: the controller is given each line whole.     *)
THEOREM DownIsFifo == Spec => LinesArrive
<1> DEFINE got == [i \in DOMAIN ingested |-> NumberOf(ingested[i])]
<1>1. Init => Down!Init
  <2>1. SUFFICES ASSUME Init PROVE Down!Init
    OBVIOUS
  <2>2. DOMAIN ingested = {}
    BY <2>1 DEF Init, SimInit
  <2>3. got = <<>>
    BY <2>2
  <2>. QED
    BY <2>1, <2>3 DEF Init, Down!Init
<1>2. ASSUME LinkInv, InOrder, InOrder', [Next]_allVars
      PROVE  [Down!Put \/ Down!Get]_<<written, got>>
  <2>. USE DEF allVars, simVars, linkVars
  <2>1. /\ got = [i \in 1 .. Len(ingested) |-> i]
        /\ got' = [i \in 1 .. Len(ingested)' |-> i]
    BY <1>2 DEF InOrder
  <2>2. Len(ingested) \in Nat /\ written \in Nat
    BY <1>2, LenProperties DEF LinkInv, QueuesOK, CountsOK
  <2>3. Len(got) = Len(ingested)
    BY <2>1, <2>2
  <2> HIDE DEF got
  <2>4. CASE Write
    <3>1. written' = written + 1 /\ got' = got
      BY <2>1, <2>4 DEF Write
    <3>. QED
      BY <3>1 DEF Down!Put, got
  <2>5. CASE IngestLine /\ UNCHANGED linkVars
    <3>1. /\ ingested' = Append(ingested, Line(Len(ingested) + 1))
          /\ Len(ingested) + 1 <= written
          /\ written' = written
      BY <1>2, <2>5, LineMoves DEF LinkInv
    <3>2. Len(ingested)' = Len(ingested) + 1
      <4>1. Len(ingested) + 1 \in Nat
        BY <2>2
      <4>. QED
        BY <1>2, <3>1, <4>1, LineIsParts, AppendProperties DEF LinkInv, QueuesOK
    <3>3. \E n \in Len(got) + 1 .. written : got' = [i \in 1 .. n |-> i]
      BY <2>1, <2>2, <2>3, <3>1, <3>2
    <3>. QED
      BY <3>1, <3>3 DEF Down!Get, got
  <2>6. CASE UNCHANGED <<written, ingested>>
    <3>1. got' = got
      BY <2>1, <2>6
    <3>. QED
      BY <2>6, <3>1
  <2>. QED
    BY <1>2, <2>4, <2>5, <2>6
       DEF Next, Call, HostStep, WriteBroken, GetFrame, GetEmpty, CloseStdin,
           Waited, WaitExpires, Join, ReaderStep, FillBuffer, PutFrame,
           ReaderEnds, SimStep, ReadChunk, LinesDone, ReadEnd, PollExpires,
           Pass, EmitFrame, Hang, Die
<1>3. Down!Init /\ [][Down!Put \/ Down!Get]_<<written, got>> => LinesArrive
  BY DEF LinesArrive, Down!Spec
<1>. QED
  BY LinkIsSound, NumbersAreInOrder, <1>1, <1>2, <1>3, PTL DEF Spec
=============================================================================
