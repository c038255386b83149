------------------------------- MODULE SimLink ------------------------------
(***************************************************************************)
(* SimLink (host/can_link.py) on the other end of the simulator's pipes:   *)
(* the caller's thread is in one of send(), recv() and close(), or in      *)
(* none, while the reader thread moves frames from stdout to the queue.    *)
(***************************************************************************)
EXTENDS RoverSim

CONSTANTS
  InRoom,   \* environment: parts that fit into the stdin pipe
  MaxLines  \* bound: calls of send()

ASSUME LinkAssumption ==
  InRoom \in Nat /\ InRoom >= LineLen /\ MaxLines \in Nat

VARIABLES
  caller,     \* the call the caller's thread is in
  written,    \* how many lines were written, numbered from 1
  reading,    \* the reader thread runs
  rbuf,       \* frames in the reader's buffer of proc.stdout
  frames,     \* _frames, the queue
  received,   \* history: the frames recv() has returned or holds
  calls       \* bound: calls of send() so far

linkVars == <<caller, written, reading, rbuf, frames, received, calls>>
allVars == <<simVars, linkVars>>

Init ==
  /\ SimInit
  /\ caller = "none"
  /\ written = 0
  /\ reading = TRUE
  /\ rbuf = <<>>
  /\ frames = <<>>
  /\ received = <<>>
  /\ calls = 0

(* The caller calls.                                                       *)
Call(op) ==
  /\ caller = "none"
  /\ caller' = op
  /\ calls' = IF op = "send" THEN calls + 1 ELSE calls
  /\ calls' <= MaxLines
  /\ UNCHANGED <<simVars, written, reading, rbuf, frames, received>>

(* send(): a line goes into the pipe in one piece, or waits for room.      *)
Write ==
  /\ caller = "send"
  /\ ~Gone
  /\ Len(stdin_pipe) + LineLen <= InRoom
  /\ written' = written + 1
  /\ stdin_pipe' = stdin_pipe \o Line(written')
  /\ caller' = "none"
  /\ UNCHANGED <<stdin_open, sim_pc, hung, pending, ingested, to_emit, emitted,
                 stdout_pipe, reading, rbuf, frames, received, calls>>

(* BrokenPipeError: the simulator is gone, the frame is dropped.           *)
WriteBroken ==
  /\ caller = "send"
  /\ Gone
  /\ caller' = "none"
  /\ UNCHANGED <<simVars, written, reading, rbuf, frames, received, calls>>

(* recv() takes frames one by one, until it finds the queue empty.         *)
GetFrame ==
  /\ caller = "recv"
  /\ frames # <<>>
  /\ received' = Append(received, Head(frames))
  /\ frames' = Tail(frames)
  /\ UNCHANGED <<simVars, caller, written, reading, rbuf, calls>>

GetEmpty ==
  /\ caller = "recv"
  /\ frames = <<>>
  /\ caller' = "none"
  /\ UNCHANGED <<simVars, written, reading, rbuf, frames, received, calls>>

(* When the reader thread may run: at any time.                            *)
MayReadInRecv == caller = "recv"  \* mutant: no thread, recv() polls the pipe
MayRead == TRUE

(* Its file takes all there is in the pipe into its own buffer at once ... *)
FillBuffer ==
  /\ reading /\ MayRead
  /\ rbuf = <<>> /\ stdout_pipe # <<>>
  /\ rbuf' = stdout_pipe
  /\ stdout_pipe' = <<>>
  /\ UNCHANGED <<stdin_pipe, stdin_open, sim_pc, hung, pending, ingested,
                 to_emit, emitted, caller, written, reading, frames, received,
                 calls>>

(* ... and gives it out line by line.                                      *)
BufferAfterRefill == <<>>  \* mutant: the next line is read from the pipe
BufferAfter == Tail(rbuf)
PutFrame ==
  /\ reading /\ MayRead
  /\ rbuf # <<>>
  /\ frames' = Append(frames, Head(rbuf))
  /\ rbuf' = BufferAfter
  /\ UNCHANGED <<simVars, caller, written, reading, received, calls>>

(* The end of the output ends the thread.                                  *)
ReaderEndsWithProcess ==  \* mutant: looks at the process, not at its output
  /\ reading /\ MayRead
  /\ rbuf = <<>> /\ Gone
  /\ reading' = FALSE
  /\ UNCHANGED <<simVars, caller, written, rbuf, frames, received, calls>>
ReaderEnds ==
  /\ reading /\ MayRead
  /\ rbuf = <<>> /\ stdout_pipe = <<>> /\ Gone
  /\ reading' = FALSE
  /\ UNCHANGED <<simVars, caller, written, rbuf, frames, received, calls>>

(* close(): the input ends, ...                                            *)
CloseStdin ==
  /\ caller = "close"
  /\ stdin_open' = FALSE
  /\ caller' = "wait"
  /\ UNCHANGED <<stdin_pipe, sim_pc, hung, pending, ingested, to_emit, emitted,
                 stdout_pipe, written, reading, rbuf, frames, received, calls>>

(* ... the simulator is given time to exit ...                             *)
Waited ==
  /\ caller = "wait"
  /\ Gone
  /\ caller' = "join"
  /\ UNCHANGED <<simVars, written, reading, rbuf, frames, received, calls>>

(* ... and killed if it does not, ...                                      *)
WaitForever ==  \* mutant: no timeout
  /\ Waited
  /\ stdin_open
WaitExpires ==
  /\ caller = "wait"
  /\ Die
  /\ caller' = "join"
  /\ UNCHANGED <<written, reading, rbuf, frames, received, calls>>

(* ... and the reader is given time to end.                                *)
Join ==
  /\ caller = "join"
  /\ caller' = "closed"
  /\ UNCHANGED <<simVars, written, reading, rbuf, frames, received, calls>>

HostStep ==
  \/ Write \/ WriteBroken
  \/ GetFrame \/ GetEmpty
  \/ CloseStdin \/ Waited \/ WaitExpires \/ Join

ReaderStep == FillBuffer \/ PutFrame \/ ReaderEnds

Next ==
  \/ \E op \in {"send", "recv", "close"} : Call(op)
  \/ HostStep
  \/ ReaderStep
  \/ (SimStep \/ Hang \/ Die) /\ UNCHANGED linkVars

(* The threads and the process are scheduled; a caller need not call.      *)
Fairness ==
  /\ WF_allVars(HostStep)
  /\ WF_allVars(ReaderStep)
  /\ WF_allVars(SimStep /\ UNCHANGED linkVars)

Spec == Init /\ [][Next]_allVars /\ Fairness

(***************************************************************************)
(* Properties                                                              *)
(***************************************************************************)

(* The pipes keep to their room, and no unread line is left in pending     *)
(* when the while loop is done.                                            *)
TypeOK ==
  /\ written \in 0 .. MaxLines /\ calls \in 0 .. MaxLines
  /\ emitted \in 0 .. MaxFrames
  /\ to_emit \in 0 .. CycleFrames
  /\ Len(stdin_pipe) <= InRoom
  /\ Len(stdout_pipe) <= OutRoom
  /\ sim_pc \in {"poll", "outputs", "emit"} => Len(pending) < LineLen
  /\ {stdin_open, hung, reading} \subseteq BOOLEAN
  /\ sim_pc \in {"poll", "lines", "outputs", "emit", "exited", "killed"}
  /\ caller \in {"none", "send", "recv", "close", "wait", "join", "closed"}

(* The number of the line ingestFrame() was given, 0 when it is none.      *)
NumberOf(parts) ==
  IF parts \in {Line(n) : n \in 1 .. written}
  THEN CHOOSE n \in 1 .. written : Line(n) = parts
  ELSE 0

(* Wherever the reads cut the stream, the controller is given the lines    *)
(* that were sent, whole, once each and in order.                          *)
Down == INSTANCE Fifo
        WITH put <- written,
             got <- [i \in DOMAIN ingested |-> NumberOf(ingested[i])]
LinesArrive == Down!Spec

(* Through the pipe, the reader's buffer and the queue, and with a reader  *)
(* and a caller that run at once, recv() returns the frames that were      *)
(* emitted, once each and in order.                                        *)
Up == INSTANCE Fifo WITH put <- emitted, got <- received
FramesArrive == Up!Spec

(* When the reader thread has ended every frame ever emitted is there for  *)
(* recv(), even of a simulator that was killed in the middle of a cycle.   *)
ReaderDrains == ~reading => Len(received \o frames) = emitted

(* send() returns unless the simulator hangs.  With both pipes full the    *)
(* simulator waits for the host and the host for the simulator; the reader *)
(* thread lets go of them.                                                 *)
SendReturns == (caller = "send") ~> (caller # "send" \/ hung)

(* A line that was written is ingested, however long the host is silent    *)
(* afterwards and even if it closes at once, unless the simulator hangs or *)
(* is killed.                                                              *)
SentIsIngested ==
  \A n \in 1 .. MaxLines :
    (written >= n) ~> (Len(ingested) >= n \/ hung \/ sim_pc = "killed")

(* close() returns, whatever the simulator does.                           *)
CloseReturns == (caller = "close") ~> (caller = "closed")
=============================================================================
