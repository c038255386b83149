------------------------- MODULE MCControllerTiming -------------------------
(* ControllerTiming on a clock of a few milliseconds and a bus carrying    *)
(* the commands and the defective frames that tell its branches apart.     *)
EXTENDS ControllerTiming

Msg(mode, stop, abort, lost, ind) ==
  [cmd |-> "go", mode |-> mode, stop |-> stop, autonomy_abort |-> abort,
   c2_lost |-> lost, indicator_request |-> ind]

Manual      == Msg("MANUAL", FALSE, FALSE, FALSE, "OFF")
ManualNoC2  == Msg("MANUAL", FALSE, FALSE, TRUE, "OFF")
ManualStop  == Msg("MANUAL", TRUE, FALSE, FALSE, "OFF")
AutoNoC2    == Msg("AUTONOMOUS", FALSE, FALSE, TRUE, "ARRIVED")
AutoAbort   == Msg("AUTONOMOUS", FALSE, TRUE, FALSE, "OFF")
Disabled    == Msg("DISABLED", FALSE, FALSE, FALSE, "OFF")

Good(m, s) == [id |-> "CONTROL", msg |-> m, seq |-> s, defects |-> {}]
Bad(D) == [id |-> "CONTROL", msg |-> Manual, seq |-> 0, defects |-> D]
Foreign == [id |-> "OTHER", msg |-> Manual, seq |-> 0, defects |-> {}]

MCCommands == {"zero", "go"}
MCMessages == {Manual, ManualNoC2, ManualStop, AutoNoC2, AutoAbort, Disabled}
MCFrames ==
  {Good(m, s) : m \in MCMessages, s \in 0 .. SeqMod - 1}
    \cup {Bad({"BAD_CRC"}), Bad({"BAD_MODE", "BAD_RANGE"}), Foreign}

(* Enough frames to keep the link up across a wrap of the clock.           *)
MCWrapFrames == {Good(Manual, 0), Good(Manual, 1), Bad({"BAD_CRC"}), Foreign}
=============================================================================
