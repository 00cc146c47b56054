------------------------------ MODULE Telemetry ------------------------------
(* Both sides of the telemetry UART: the parser of module TelemetryRx decides *)
(* which bytes are a request that module TelemetryTx answers. *)
EXTENDS TelemetryProperties, TelemetryRx

TelemetryInit == TxInit /\ RxInit

\* HAL_UART_RxCpltCallback; the receiver is rearmed after an answer.
Hear(b) ==
  /\ usart = "idle" /\ Parse(b)
  /\ IF IsRequest(b) THEN Request ELSE UNCHANGED txVars

TelemetryNext ==
  \/ \E b \in Heard : Hear(b)
  \/ /\ \/ EncoderStep \/ ZeroPulse \/ Answer \/ DmaByte \/ TransmitComplete
        \/ SetBaudRate \/ \E on \in BOOLEAN : SetStream(on)
     /\ UNCHANGED rxVars

telemetryVars == <<txVars, rxVars>>

\* As in TxSpec.
TelemetrySpec ==
  /\ TelemetryInit /\ [][TelemetryNext]_telemetryVars
  /\ WF_telemetryVars(Answer /\ UNCHANGED rxVars)
  /\ WF_telemetryVars(DmaByte /\ UNCHANGED rxVars)
  /\ SF_telemetryVars(TransmitComplete /\ UNCHANGED rxVars)

-----------------------------------------------------------------------------

\* Lost, damaged and invented bytes cost at most one request: whatever was heard
\* before, of two whole requests in a row the second is recognised
\* (app_telemetry.c:58-108 has no timeout, and a change of the baud rate or an
\* error does not reset the parser).
SecondRequestHeard ==
  [][matched = 5 /\ matched' = 3 => usart' = "check"]_telemetryVars

\* Nothing but a whole request is answered.
OnlyRequestsAnswered ==
  [][usart = "idle" /\ usart' # "idle" => matched' = 3]_telemetryVars

\* With the stream off, a host that repeats its request is answered again and
\* again, although each request that finds the UART busy is dropped without a
\* word (hal_telemtry.c:130) and baud rate changes abort answers.
RepeatsServed ==
  <>[]~unmasked /\ []<>(usart = "check") => []<>(dma.length = ResponseLength)

-----------------------------------------------------------------------------
(* The inductive invariant of the parser.  It may be out of step with the   *)
(* host while matched is 1 or 2; a whole request brings it back into step,  *)
(* because the check byte of a request is not the sync byte.                *)
ParserInv ==
  /\ rxState \in {"WAIT_SYNC", "WAIT_CMD", "WAIT_CRC"} /\ rxCmd \in Octets
  /\ matched \in 0 .. 5
  /\ rxState = "WAIT_CMD" => matched \in {1, 4}
  /\ rxState = "WAIT_CRC" /\ rxCmd = ReqPosition => matched \in {2, 5}
  /\ matched = 3 => rxState = "WAIT_SYNC"
  /\ matched = 4 => rxState = "WAIT_CMD"
  /\ matched = 5 => rxState = "WAIT_CRC" /\ rxCmd = ReqPosition
=============================================================================
