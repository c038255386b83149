-------------------------- MODULE MCTelemetryLink ---------------------------
(* TelemetryLink with sequence numbers that wrap after three cycles.       *)
EXTENDS TelemetryLink

MCTelemIds == {"DRIVE_L", "DRIVE_R", "POWER", "STATE"}
MCOrder == <<"DRIVE_L", "DRIVE_R", "POWER", "STATE">>
=============================================================================
