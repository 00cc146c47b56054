----------------------------- MODULE TelemetryTx -----------------------------
(***************************************************************************)
(* The transmit side of the telemetry UART: HAL_Telemetry_WriteBuffer of   *)
(* src/src/hal/hal_telemtry.c and its two callers in                       *)
(* src/src/app_telemetry.c.                                                *)
(*                                                                         *)
(* After App_NVIC_Reconfigure the USART6 interrupt, which answers position *)
(* requests, has priority 5 and EXTI9_5, which streams encoder steps, has  *)
(* priority 2: a step preempts an answer anywhere and runs to its end.     *)
(* The DMA reads the buffer byte by byte behind both.                      *)
(*                                                                         *)
(* A byte is known by the packet it belongs to: its kind and its position. *)
(***************************************************************************)
EXTENDS Naturals, Sequences

CONSTANTS
  ResponseLength,  \* sizeof(ResponsePacket_t) (code: 5)
  StreamLength,    \* sizeof(FastStreamPacket_t) (code: 4)
  Positions,       \* encoder counts, the initial ones 0 and NeverSent among them
  NeverSent,       \* what lastSentPos holds until a step (code: 0xFFFF)
  Disciplines      \* the hosts there may be, a subset of BOOLEAN: TRUE for one that
                   \* asks for positions only while it has not started the stream

ASSUME TelemetryAssumption ==
  /\ StreamLength \in Nat \ {0} /\ ResponseLength \in Nat
  /\ StreamLength < ResponseLength
  /\ {0, NeverSent} \subseteq Positions
  /\ Disciplines \subseteq BOOLEAN /\ Disciplines # {}

VARIABLES
  takesTurns,   \* the discipline of the host, which never changes
  unmasked,     \* the encoder lines are unmasked in EXTI->IMR
  position,     \* TIM4->CNT
  lastSentPos,  \* the static of hal_encoder.c
  gState,       \* huart6.gState
  tx_buffer,    \* the packet each byte of tx_buffer belongs to
  dma,          \* [length, sent] of the current transfer
  line,         \* the bytes this transfer has put on the line
  usart,        \* the answering interrupt: "idle", "check", "copy" or "start"
  copied,       \* bytes memcpy has copied there
  response      \* the packet it answers with

txVars == <<takesTurns, unmasked, position, lastSentPos, gState, tx_buffer, dma, line,
            usart, copied, response>>

Bytes == 1 .. ResponseLength
NoTransfer == [length |-> 0, sent |-> 0]
Empty == [kind |-> "none", pos |-> 0]

TxInit ==
  /\ takesTurns \in Disciplines
  /\ unmasked = FALSE /\ position = 0 /\ lastSentPos = NeverSent
  /\ gState = "READY" /\ tx_buffer = [b \in Bytes |-> Empty]
  /\ dma = NoTransfer /\ line = <<>>
  /\ usart = "idle" /\ copied = 0 /\ response = Empty

Filled(packet, length) == [b \in Bytes |-> IF b <= length THEN packet ELSE tx_buffer[b]]

\* Mutant: no test of gState before the copy.
AlwaysFree == TRUE
\* hal_telemtry.c:130.
BufferFree == gState = "READY"

\* Mutant: the DMA registers are written without asking the UART.
TransmitAnyway(length) ==
  gState' = "BUSY_TX" /\ dma' = [length |-> length, sent |-> 0] /\ line' = <<>>

\* HAL_UART_Transmit_DMA, refused while the UART is busy.
Transmit(length) ==
  IF gState = "READY"
    THEN gState' = "BUSY_TX" /\ dma' = [length |-> length, sent |-> 0] /\ line' = <<>>
    ELSE UNCHANGED <<gState, dma, line>>

\* EXTI9_5_IRQHandler and App_Telemetry_OnEncoderStep, if the lines are unmasked;
\* noise on the lines raises the interrupt without a new count.
EncoderStep ==
  /\ position' \in Positions
  /\ IF unmasked /\ position' # lastSentPos
       THEN /\ lastSentPos' = position'
            /\ IF BufferFree
                 THEN /\ tx_buffer' = Filled([kind |-> "stream", pos |-> position'],
                                             StreamLength)
                      /\ Transmit(StreamLength)
                 ELSE UNCHANGED <<tx_buffer, gState, dma, line>>
       ELSE UNCHANGED <<lastSentPos, tx_buffer, gState, dma, line>>
  /\ UNCHANGED <<takesTurns, unmasked, usart, copied, response>>

\* App_Encoder_OnZeroPulse, from EXTI2 (priority 0): the count restarts, and no
\* packet says so.
ZeroPulse ==
  /\ position' = 0
  /\ UNCHANGED <<takesTurns, unmasked, lastSentPos, gState, tx_buffer, dma, line, usart,
                 copied, response>>

\* App_Telemetry_OnByteReceived completes a valid request.
Request ==
  /\ usart = "idle" /\ (takesTurns => ~unmasked)
  /\ response' = [kind |-> "response", pos |-> position]
  /\ usart' = "check" /\ copied' = 0
  /\ UNCHANGED <<takesTurns, unmasked, position, lastSentPos, gState, tx_buffer, dma, line>>

\* HAL_Telemetry_WriteBuffer as called there; memcpy in any number of pieces.
Check ==
  /\ usart = "check"
  /\ usart' = IF BufferFree THEN "copy" ELSE "idle"
  /\ UNCHANGED <<takesTurns, unmasked, position, lastSentPos, gState, tx_buffer, dma,
                 line, copied, response>>

AllCopied(n) == n = ResponseLength

Copy ==
  /\ usart = "copy"
  /\ copied' = copied + 1
  /\ tx_buffer' = [tx_buffer EXCEPT ![copied'] = response]
  /\ usart' = IF AllCopied(copied') THEN "start" ELSE "copy"
  /\ UNCHANGED <<takesTurns, unmasked, position, lastSentPos, gState, dma, line, response>>

Start ==
  /\ usart = "start"
  /\ Transmit(ResponseLength) /\ usart' = "idle"
  /\ UNCHANGED <<takesTurns, unmasked, position, lastSentPos, tx_buffer, copied, response>>

\* The DMA moves the next byte to the data register.
DmaByte ==
  /\ dma.sent < dma.length
  /\ line' = Append(line, tx_buffer[dma.sent + 1])
  /\ dma' = [dma EXCEPT !.sent = @ + 1]
  /\ UNCHANGED <<takesTurns, unmasked, position, lastSentPos, gState, tx_buffer, usart,
                 copied, response>>

AllSent == dma.sent = dma.length

\* Mutant: no handler for the end of a transfer.
NoCompletion == FALSE /\ UNCHANGED txVars

\* The transmission-complete interrupt is one of USART6: it does not preempt an
\* answer.
TransmitComplete ==
  /\ gState = "BUSY_TX" /\ AllSent /\ usart = "idle"
  /\ gState' = "READY" /\ dma' = NoTransfer
  /\ UNCHANGED <<takesTurns, unmasked, position, lastSentPos, tx_buffer, line, usart,
                 copied, response>>

\* HAL_Telemetry_SetBaudRate from the main loop, which has masked the encoder
\* lines (StreamMask of module MainLoopProperties), with the USART6 interrupt
\* disabled: an ongoing transfer is aborted.
SetBaudRate ==
  /\ usart = "idle" /\ ~unmasked
  /\ gState' = "READY" /\ dma' = NoTransfer
  /\ UNCHANGED <<takesTurns, unmasked, position, lastSentPos, tx_buffer, line, usart,
                 copied, response>>

\* App_Telemetry_StartStream and App_Telemetry_StopStream, from the main loop.
SetStream(on) ==
  /\ usart = "idle" /\ unmasked # on
  /\ unmasked' = on
  /\ UNCHANGED <<takesTurns, position, lastSentPos, gState, tx_buffer, dma, line, usart,
                 copied, response>>

Answer == Check \/ Copy \/ Start

TxNext ==
  \/ EncoderStep \/ ZeroPulse \/ Request \/ Answer \/ DmaByte \/ TransmitComplete
  \/ SetBaudRate \/ \E on \in BOOLEAN : SetStream(on)

TxSafety == TxInit /\ [][TxNext]_txVars

\* The answer and the DMA proceed.  The completion interrupt stays
\* pending while an answer is prepared and is taken before the three bytes of
\* the next request have arrived.
TxSpec ==
  /\ TxSafety
  /\ WF_txVars(Answer) /\ WF_txVars(DmaByte) /\ SF_txVars(TransmitComplete)
=============================================================================
