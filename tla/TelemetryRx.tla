----------------------------- MODULE TelemetryRx -----------------------------
(***************************************************************************)
(* The receive side of the telemetry UART: the byte parser                 *)
(* App_Telemetry_OnByteReceived of src/src/app_telemetry.c.  A byte may be *)
(* damaged, invented or lost on the line; HAL_UART_ErrorCallback rearms    *)
(* the receiver and does not touch the parser, so that a lost byte is one  *)
(* the parser does not hear.                                               *)
(***************************************************************************)
EXTENDS Naturals, Sequences

SyncByte == 85
ReqPosition == 80

\* uint8_t.
Octets == 0 .. 255

CONSTANTS
  Noise,      \* bytes that may be heard besides those of a request
  CrcOf,      \* what crc8_atm makes of each byte
  RequestCrc  \* the check byte a host sends with ReqPosition

ASSUME RxAssumption ==
  /\ Noise \subseteq Octets /\ CrcOf \in [Octets -> Octets]
  /\ RequestCrc = CrcOf[ReqPosition] /\ RequestCrc # SyncByte

VARIABLES
  rxState,  \* currentState of app_telemetry.c
  rxCmd,    \* 0 while it is not in use
  matched   \* history: see Match

rxVars == <<rxState, rxCmd, matched>>

\* What a host sends to ask for a position.
Frame == <<SyncByte, ReqPosition, RequestCrc>>
Twice == Frame \o Frame

\* The bytes that may be heard.
Heard == Noise \cup {Frame[i] : i \in 1 .. 3}

RxInit == rxState = "WAIT_SYNC" /\ rxCmd = 0 /\ matched = 0

\* The longest beginning of two requests in a row that the bytes heard end with.
Match(b) ==
  matched' = IF b = Twice[matched + 1] THEN IF matched = 5 THEN 3 ELSE matched + 1
             ELSE IF b = SyncByte THEN 1 ELSE 0

\* Mutant: the check byte is not looked at.
CrcIgnored(b) == rxState = "WAIT_CRC" /\ rxCmd = ReqPosition
IsRequest(b) == rxState = "WAIT_CRC" /\ b = CrcOf[rxCmd] /\ rxCmd = ReqPosition

\* Mutant: a byte that does not verify is waited for again.
WaitsForCrc(b) == IF IsRequest(b) THEN "WAIT_SYNC" ELSE "WAIT_CRC"
AfterCrc(b) == "WAIT_SYNC"

Parse(b) ==
  /\ rxState' = CASE rxState = "WAIT_SYNC" -> IF b = SyncByte THEN "WAIT_CMD" ELSE rxState
                  [] rxState = "WAIT_CMD"  -> "WAIT_CRC"
                  [] rxState = "WAIT_CRC"  -> AfterCrc(b)
  /\ rxCmd' = IF rxState = "WAIT_CMD" THEN b ELSE IF rxState' = "WAIT_CRC" THEN rxCmd ELSE 0
  /\ Match(b)
=============================================================================
