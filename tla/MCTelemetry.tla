----------------------------- MODULE MCTelemetry -----------------------------
(* An instance of the telemetry UART for TLC, with the check bytes of Crc8. *)
EXTENDS Telemetry, Crc8

MCCrcOf == [byte \in Byte |-> crc8_atm(<<byte>>)]

\* A host's polynomial division.
MCRequestCrc == Remainder(ReqPosition)
=============================================================================
