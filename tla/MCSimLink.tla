----------------------------- MODULE MCSimLink ------------------------------
(* SimLink with pipes shorter than what the run sends through them.        *)
EXTENDS SimLink
=============================================================================
