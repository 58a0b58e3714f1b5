----------------------------- MODULE MCTelemetry ----------------------------
(***************************************************************************)
(* The small instances of the engine, with its metrics.                    *)
(***************************************************************************)
EXTENDS EngineTelemetry, MCEngine

=============================================================================
