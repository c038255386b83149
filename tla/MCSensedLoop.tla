---------------------------- MODULE MCSensedLoop ----------------------------
(* SensedLoop on a clock and encoders short enough to wrap.                *)
EXTENDS SensedLoop

MCDrives == {-19, 10}
MCSteers == {19}
=============================================================================
