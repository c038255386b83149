------------------------------ MODULE Deadman -------------------------------
(***************************************************************************)
(* What the controller promises a bystander: a dead man's switch.  The     *)
(* rover moves only as commanded, and only for Timeout milliseconds of     *)
(* true time after the command, unless it is given again.  Nothing here    *)
(* wraps, and nothing but a command starts the rover.                      *)
(***************************************************************************)
EXTENDS Naturals

CONSTANTS Timeout,   \* how long a command is good for, at least 1
          Commands,  \* what can be commanded
          ZeroCmd    \* standing still, a member of Commands

VARIABLES output,  \* what the drives are told
          age      \* true ms since the last command, up to Timeout

vars == <<output, age>>

Init == output = ZeroCmd /\ age = Timeout

(* A command is given; it may be to stand still.                           *)
Command(c) == output' = c /\ age' = 0

(* A millisecond passes, and the switch opens when the command has aged.   *)
Pass ==
  /\ age < Timeout
  /\ age' = age + 1
  /\ output' = IF age' = Timeout THEN ZeroCmd ELSE output

Next == Pass \/ \E c \in Commands : Command(c)

Spec == Init /\ [][Next]_vars
=============================================================================
