------------------------------ MODULE RoverSim ------------------------------
(***************************************************************************)
(* The simulator process (tools/rover_sim.cpp) between its two pipes: it   *)
(* reads stdin in chunks that cut lines anywhere, ingests whole lines, and *)
(* writes telemetry cycles to stdout, which may block.  A line is a run of *)
(* LineLen parts, each a pair of the line's number and a place in it, the  *)
(* last its newline; what the controller makes of a line is module         *)
(* RoverController.                                                        *)
(***************************************************************************)
EXTENDS Naturals, Sequences

CONSTANTS
  LineLen,      \* parts of a line
  ChunkLen,     \* parts that fit into chunk[512]
  OutRoom,      \* environment: frames that fit into the stdout pipe
  CycleFrames,  \* frames of a telemetry cycle, 4
  MaxFrames     \* bound: telemetry frames of a run

ASSUME SimAssumption ==
  /\ LineLen \in Nat \ {0} /\ ChunkLen \in Nat \ {0}
  /\ OutRoom \in Nat \ {0} /\ CycleFrames \in Nat \ {0}
  /\ MaxFrames \in Nat

VARIABLES
  stdin_pipe,   \* parts written and not yet read
  stdin_open,   \* the host holds the write end
  sim_pc,       \* where main() stands, until it has "exited" or was "killed"
  hung,         \* environment: the process has stopped making progress
  pending,      \* main()'s string of parts read and not yet ingested
  ingested,     \* history: what ingestFrame() was given
  to_emit,      \* frames of the current cycle still to write
  emitted,      \* how many frames were written, numbered from 1
  stdout_pipe   \* frames written and not yet read

simVars == <<stdin_pipe, stdin_open, sim_pc, hung, pending, ingested, to_emit,
             emitted, stdout_pipe>>

Line(n) == [i \in 1 .. LineLen |-> <<n, i>>]
IsNewline(part) == part[2] = LineLen

SimInit ==
  /\ stdin_pipe = <<>>
  /\ stdin_open = TRUE
  /\ sim_pc = "poll"
  /\ hung = FALSE
  /\ pending = <<>>
  /\ ingested = <<>>
  /\ to_emit = 0
  /\ emitted = 0
  /\ stdout_pipe = <<>>

Gone == sim_pc \in {"exited", "killed"}
Running(pc) == sim_pc = pc /\ ~hung

(* read() returns what there is, up to the size of the chunk.              *)
Chunk == SubSeq(stdin_pipe, 1,
                IF Len(stdin_pipe) < ChunkLen THEN Len(stdin_pipe) ELSE ChunkLen)

(* pending.append(chunk, n).                                               *)
JoinedFresh == Chunk  \* mutant: forgets the start of a line cut by a read
Joined == pending \o Chunk

(* Something can be read: one chunk of it is.                              *)
ReadChunk ==
  /\ Running("poll")
  /\ stdin_pipe # <<>>
  /\ stdin_pipe' = SubSeq(stdin_pipe, Len(Chunk) + 1, Len(stdin_pipe))
  /\ pending' = Joined
  /\ sim_pc' = "lines"
  /\ UNCHANGED <<stdin_open, hung, ingested, to_emit, emitted, stdout_pipe>>

(* Where pending.find() sees the first newline.                            *)
FirstNewline(i) ==
  /\ IsNewline(pending[i])
  /\ \A j \in 1 .. i - 1 : ~IsNewline(pending[j])

(* The while loop takes one line after the other off the front of pending, *)
AfterLineOnce == "outputs"  \* mutant: one line per read
AfterLine == "lines"
IngestLine ==
  /\ Running("lines")
  /\ \E i \in 1 .. Len(pending) :
       /\ FirstNewline(i)
       /\ ingested' = Append(ingested, SubSeq(pending, 1, i))
       /\ pending' = SubSeq(pending, i + 1, Len(pending))
  /\ sim_pc' = AfterLine
  /\ UNCHANGED <<stdin_pipe, stdin_open, hung, to_emit, emitted, stdout_pipe>>

(* until what is left holds no newline.                                    *)
LinesDone ==
  /\ Running("lines")
  /\ \A i \in 1 .. Len(pending) : ~IsNewline(pending[i])
  /\ sim_pc' = "outputs"
  /\ UNCHANGED <<stdin_pipe, stdin_open, hung, pending, ingested, to_emit,
                 emitted, stdout_pipe>>

(* The end of the input ends the program; an unfinished line is dropped.   *)
ReadEnd ==
  /\ Running("poll")
  /\ stdin_pipe = <<>> /\ ~stdin_open
  /\ sim_pc' = "exited"
  /\ UNCHANGED <<stdin_pipe, stdin_open, hung, pending, ingested, to_emit,
                 emitted, stdout_pipe>>

(* poll() gives up after 2 ms, so that telemetry goes on in silence.       *)
PollExpires ==
  /\ Running("poll")
  /\ stdin_pipe = <<>> /\ stdin_open
  /\ sim_pc' = "outputs"
  /\ UNCHANGED <<stdin_pipe, stdin_open, hung, pending, ingested, to_emit,
                 emitted, stdout_pipe>>

(* The plant moves; a cycle is due or it is not (module SensedLoop).       *)
Pass ==
  /\ Running("outputs")
  /\ \/ sim_pc' = "poll" /\ UNCHANGED to_emit
     \/ /\ emitted + CycleFrames <= MaxFrames
        /\ sim_pc' = "emit"
        /\ to_emit' = CycleFrames
  /\ UNCHANGED <<stdin_pipe, stdin_open, hung, pending, ingested, emitted,
                 stdout_pipe>>

(* emitFrame() flushes each frame by itself and blocks on a full pipe.     *)
EmitFrame ==
  /\ Running("emit")
  /\ Len(stdout_pipe) < OutRoom
  /\ emitted' = emitted + 1
  /\ stdout_pipe' = Append(stdout_pipe, emitted')
  /\ to_emit' = to_emit - 1
  /\ sim_pc' = IF to_emit' = 0 THEN "poll" ELSE "emit"
  /\ UNCHANGED <<stdin_pipe, stdin_open, hung, pending, ingested>>

SimStep ==
  \/ ReadChunk \/ IngestLine \/ LinesDone
  \/ ReadEnd \/ PollExpires
  \/ Pass \/ EmitFrame

(* The process may stop making progress, or die, at any point.             *)
Hang ==
  /\ ~Gone /\ ~hung
  /\ hung' = TRUE
  /\ UNCHANGED <<stdin_pipe, stdin_open, sim_pc, pending, ingested, to_emit,
                 emitted, stdout_pipe>>

Die ==
  /\ ~Gone
  /\ sim_pc' = "killed"
  /\ UNCHANGED <<stdin_pipe, stdin_open, hung, pending, ingested, to_emit,
                 emitted, stdout_pipe>>
=============================================================================
