------------------------- MODULE TelemetryProperties -------------------------
(* What makes the transmit side of module TelemetryTx correct. *)
EXTENDS TelemetryTx

Packets == [kind : {"none", "response", "stream"}, pos : Positions]

\* The types of the statics, the handle and the transfer.
TxTypeOK ==
  /\ takesTurns \in BOOLEAN
  /\ unmasked \in BOOLEAN /\ position \in Positions /\ lastSentPos \in Positions
  /\ gState \in {"READY", "BUSY_TX"} /\ tx_buffer \in [Bytes -> Packets]
  /\ dma \in [length : {0, StreamLength, ResponseLength}, sent : 0 .. ResponseLength]
  /\ usart \in {"idle", "check", "copy", "start"} /\ copied \in 0 .. ResponseLength
  /\ response \in Packets

\* A transfer, once started, runs to its last byte: no other packet starts on
\* top of it and only a change of the baud rate aborts it (hal_telemtry.c:92,
\* :139).
RunsToEnd ==
  [][dma.length # 0 /\ dma' # dma
       => \/ dma.sent = dma.length \/ SetBaudRate
          \/ dma' = [dma EXCEPT !.sent = @ + 1]]_txVars

\* "Do not overwrite the buffer if a transmission is ongoing"
\* (hal_telemtry.c:129): all bytes of a transfer belong to the same packet,
\* whoever else wanted to send meanwhile.  It does not hold of every host; see
\* the README.
PacketIntact == \A b, c \in 1 .. Len(line) : line[b] = line[c]

\* It holds with a host that asks for positions only while the stream is off,
\* across stream switching and changes of the baud rate, although the packet of
\* the last step may still be on its way when the answer is prepared.
IntactInTurns == takesTurns => PacketIntact

\* Types, and whole packets for hosts that take turns.
TxInv == TxTypeOK /\ IntactInTurns

\* The UART does not stay busy, so that a request or a step that is dropped
\* because a transfer is under way can be repeated (hal_telemtry.c:130).
LineFrees == gState = "BUSY_TX" ~> gState = "READY"

-----------------------------------------------------------------------------
(* The inductive invariant: TxInv strengthened by what holds of a transfer  *)
(* with every host, and of the buffer with one that takes turns.            *)

\* The UART is ready only between transfers; an answer is started when all of
\* it is copied.
TransferInv ==
  /\ line \in Seq(Packets)
  /\ gState = "READY" => dma = NoTransfer
  /\ usart = "check" => copied = 0
  /\ usart = "copy" => copied < ResponseLength
  /\ usart = "start" => copied = ResponseLength

\* While an answer is prepared no step can touch the buffer, nor can the DMA read
\* it; while the DMA reads it, it holds one packet as far as the transfer goes,
\* the one that is on the line.
TurnInv ==
  takesTurns =>
    /\ usart # "idle" => ~unmasked
    /\ usart \in {"copy", "start"} =>
         gState = "READY" /\ \A b \in 1 .. copied : tx_buffer[b] = response
    /\ gState = "BUSY_TX" =>
         /\ \A b \in 1 .. dma.length : tx_buffer[b] = tx_buffer[1]
         /\ \A b \in 1 .. Len(line) : line[b] = tx_buffer[1]

TxIInv == TxInv /\ TransferInv /\ TurnInv
=============================================================================
