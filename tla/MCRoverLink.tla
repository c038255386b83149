---------------------------- MODULE MCRoverLink -----------------------------
(* RoverLink with the one command run() sends.                             *)
EXTENDS RoverLink

MCCommands == {"zero", "go"}
MCFrames == {ControlFrame(ManualCommand(l), s) :
               l \in BOOLEAN, s \in 0 .. SeqMod - 1}
=============================================================================
