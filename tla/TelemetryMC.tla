----------------------------- MODULE TelemetryMC -----------------------------
(***************************************************************************)
(* Small instances of Telemetry.                                          *)
(***************************************************************************)
EXTENDS Telemetry

CONSTANTS n1, n2, r1, r2, r3
=============================================================================
