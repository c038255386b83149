-------------------------------- MODULE Fifo --------------------------------
(***************************************************************************)
(* What either direction of a link promises: messages, numbered as they    *)
(* are put, are got whole, once each and in order.  Any may stay unread.   *)
(***************************************************************************)
EXTENDS Naturals, Sequences

VARIABLES
  put,  \* how many messages were put
  got   \* the numbers of those read, in order

Init == put = 0 /\ got = <<>>

Put == put' = put + 1 /\ UNCHANGED got

(* A reader may take several at once, never more than there are.           *)
Get ==
  /\ \E n \in Len(got) + 1 .. put : got' = [i \in 1 .. n |-> i]
  /\ UNCHANGED put

Spec == Init /\ [][Put \/ Get]_<<put, got>>
=============================================================================
