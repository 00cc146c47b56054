--------------------------- MODULE TelemetryProofs ---------------------------
(***************************************************************************)
(* The transmit side of the telemetry UART, for every length of the two    *)
(* packets, every set of positions and every host.  The theorems are of    *)
(* TxSafety, so they hold of every module whose steps are those of TxNext  *)
(* or leave txVars unchanged, as those of module Telemetry do.             *)
(***************************************************************************)
EXTENDS TelemetryProperties, TLAPS, SequenceTheorems

LEMMA Lengths ==
  /\ StreamLength \in Nat \ {0} /\ ResponseLength \in Nat \ {0}
  /\ StreamLength < ResponseLength
  /\ 0 \in Positions /\ NeverSent \in Positions
  /\ 0 \in 0 .. ResponseLength /\ 1 \in Bytes
BY TelemetryAssumption DEF Bytes

\* The packets a step and a request make.
LEMMA PacketTypes ==
  ASSUME NEW p \in Positions
  PROVE  /\ [kind |-> "stream", pos |-> p] \in Packets
         /\ [kind |-> "response", pos |-> p] \in Packets
         /\ [kind |-> "none", pos |-> p] \in Packets
BY DEF Packets

\* What HAL_Telemetry_WriteBuffer copies: the packet up to its length, the old
\* bytes behind it.
LEMMA FilledFacts ==
  ASSUME tx_buffer \in [Bytes -> Packets], NEW packet \in Packets, NEW length \in Nat
  PROVE  /\ Filled(packet, length) \in [Bytes -> Packets]
         /\ \A b \in Bytes : b <= length => Filled(packet, length)[b] = packet
BY DEF Filled

\* A transfer that has not begun.
LEMMA NewTransfer ==
  ASSUME NEW n \in {0, StreamLength, ResponseLength}
  PROVE  [length |-> n, sent |-> 0]
           \in [length : {0, StreamLength, ResponseLength}, sent : 0 .. ResponseLength]
BY Lengths

LEMMA TransmitFacts ==
  ASSUME NEW n \in {StreamLength, ResponseLength}, Transmit(n), TxTypeOK, TransferInv
  PROVE  /\ gState' = "BUSY_TX"
         /\ dma' \in [length : {0, StreamLength, ResponseLength}, sent : 0 .. ResponseLength]
         /\ line' \in Seq(Packets)
         /\ gState = "READY" => line' = << >> /\ dma'.length = n
         /\ gState # "READY" => line' = line /\ dma' = dma
<1>1. CASE gState = "READY"
  BY <1>1, NewTransfer DEF Transmit
<1>2. CASE gState # "READY"
  BY <1>2 DEF Transmit, TxTypeOK, TransferInv
<1> QED BY <1>1, <1>2

-----------------------------------------------------------------------------
(* The inductive invariant. *)

LEMMA InitTx == TxInit => TxIInv
<1> SUFFICES ASSUME TxInit PROVE TxIInv
  OBVIOUS
<1>1. Empty \in Packets
  BY Lengths, PacketTypes DEF Empty
<1>2. tx_buffer \in [Bytes -> Packets]
  BY <1>1 DEF TxInit
<1>3. NoTransfer \in [length : {0, StreamLength, ResponseLength}, sent : 0 .. ResponseLength]
  BY NewTransfer DEF NoTransfer
<1>4. takesTurns \in BOOLEAN /\ unmasked \in BOOLEAN
  BY TelemetryAssumption, Zenon DEF TxInit
<1>5. TxTypeOK
  BY <1>1, <1>2, <1>3, <1>4, Lengths DEF TxInit, TxTypeOK
<1>6. line = << >> /\ usart = "idle" /\ gState = "READY" /\ dma = NoTransfer
  BY DEF TxInit
<1>7. TransferInv /\ IntactInTurns /\ TurnInv
  BY <1>6 DEF TransferInv, IntactInTurns, PacketIntact, TurnInv
<1> QED BY <1>5, <1>7 DEF TxIInv, TxInv

LEMMA NextTxType ==
  TxTypeOK /\ TransferInv /\ [TxNext]_txVars => TxTypeOK' /\ TransferInv'
<1> SUFFICES ASSUME TxTypeOK, TransferInv, [TxNext]_txVars PROVE TxTypeOK' /\ TransferInv'
  OBVIOUS
<1> DEFINE Dma == [length : {0, StreamLength, ResponseLength}, sent : 0 .. ResponseLength]
<1>1. CASE EncoderStep
  <2>1. position' \in Positions /\ UNCHANGED <<takesTurns, unmasked, usart, copied, response>>
    BY <1>1, Zenon DEF EncoderStep
  <2>2. CASE (unmasked /\ position' # lastSentPos) /\ BufferFree
    <3>1. /\ lastSentPos' = position'
          /\ tx_buffer' = Filled([kind |-> "stream", pos |-> position'], StreamLength)
          /\ Transmit(StreamLength)
      BY <1>1, <2>2, Zenon DEF EncoderStep
    <3>2. tx_buffer' \in [Bytes -> Packets]
      BY <2>1, <3>1, PacketTypes, FilledFacts, Lengths DEF TxTypeOK
    <3>3. gState' = "BUSY_TX" /\ dma' \in Dma /\ line' \in Seq(Packets)
      BY <3>1, TransmitFacts, Zenon
    <3>4. TxTypeOK'
      BY <2>1, <3>1, <3>2, <3>3 DEF TxTypeOK
    <3> QED BY <2>1, <3>3, <3>4 DEF TransferInv
  <2>3. CASE ~((unmasked /\ position' # lastSentPos) /\ BufferFree)
    <3>1. /\ UNCHANGED <<tx_buffer, gState, dma, line>>
          /\ (lastSentPos' = position') \/ (lastSentPos' = lastSentPos)
      BY <1>1, <2>3, Zenon DEF EncoderStep
    <3> QED BY <2>1, <3>1 DEF TxTypeOK, TransferInv
  <2> QED BY <2>2, <2>3, Zenon
<1>2. CASE ZeroPulse
  BY <1>2, Lengths DEF ZeroPulse, TxTypeOK, TransferInv
<1>3. CASE Request
  <2>1. response' \in Packets
    BY <1>3, PacketTypes DEF Request, TxTypeOK
  <2> QED BY <1>3, <2>1, Lengths DEF Request, TxTypeOK, TransferInv
<1>4. CASE Check
  <2>1. /\ usart' \in {"idle", "copy"} /\ copied' = 0
        /\ UNCHANGED <<takesTurns, unmasked, position, lastSentPos, gState, tx_buffer, dma,
                       line, response>>
    BY <1>4 DEF Check, TransferInv
  <2>2. 0 < ResponseLength
    BY Lengths
  <2> QED BY <2>1, <2>2, Lengths DEF TxTypeOK, TransferInv
<1>5. CASE Copy
  <2>1. copied' \in 1 .. ResponseLength
    BY <1>5, Lengths DEF Copy, TxTypeOK, TransferInv
  <2>2. tx_buffer' \in [Bytes -> Packets]
    BY <1>5, <2>1 DEF Copy, TxTypeOK, Bytes
  <2>3. /\ usart' \in {"copy", "start"}
        /\ usart' = "copy" => copied' < ResponseLength
        /\ usart' = "start" => copied' = ResponseLength
    BY <1>5, <2>1, Lengths DEF Copy, AllCopied
  <2> QED BY <1>5, <2>1, <2>2, <2>3 DEF Copy, TxTypeOK, TransferInv
<1>6. CASE Start
  <2>1. gState' = "BUSY_TX" /\ dma' \in Dma /\ line' \in Seq(Packets)
    BY <1>6, TransmitFacts, Zenon DEF Start
  <2> QED BY <1>6, <2>1 DEF Start, TxTypeOK, TransferInv
<1>7. CASE DmaByte
  <2>1. /\ dma \in Dma /\ dma.sent < dma.length /\ dma' = [dma EXCEPT !.sent = @ + 1]
        /\ gState # "READY"
    BY <1>7, Lengths DEF DmaByte, TxTypeOK, TransferInv, NoTransfer
  <2>2. dma' \in Dma /\ dma.sent + 1 \in Bytes
    BY <2>1, Lengths DEF Bytes
  <2>3. tx_buffer[dma.sent + 1] \in Packets
    BY <2>2 DEF TxTypeOK
  <2>4. line' \in Seq(Packets)
    BY <1>7, <2>3, AppendProperties DEF DmaByte, TransferInv
  <2> QED BY <1>7, <2>1, <2>2, <2>4 DEF DmaByte, TxTypeOK, TransferInv
<1>8. CASE TransmitComplete \/ SetBaudRate
  <2>1. /\ gState' = "READY" /\ dma' = NoTransfer /\ usart = "idle"
        /\ UNCHANGED <<takesTurns, unmasked, position, lastSentPos, tx_buffer, line, usart,
                       copied, response>>
    BY <1>8, Zenon DEF TransmitComplete, SetBaudRate
  <2>2. NoTransfer \in Dma
    BY NewTransfer DEF NoTransfer
  <2> QED BY <2>1, <2>2 DEF TxTypeOK, TransferInv
<1>9. ASSUME NEW on \in BOOLEAN, SetStream(on) PROVE TxTypeOK' /\ TransferInv'
  BY <1>9 DEF SetStream, TxTypeOK, TransferInv
<1>10. CASE UNCHANGED txVars
  BY <1>10 DEF txVars, TxTypeOK, TransferInv
<1> QED BY <1>1, <1>2, <1>3, <1>4, <1>5, <1>6, <1>7, <1>8, <1>9, <1>10, Zenon DEF TxNext, Answer

LEMMA NextTurns == TxIInv /\ [TxNext]_txVars => TurnInv' /\ IntactInTurns'
<1> SUFFICES ASSUME TxIInv, [TxNext]_txVars, takesTurns'
             PROVE  TurnInv' /\ PacketIntact'
  BY Zenon DEF TurnInv, IntactInTurns
<1>0. takesTurns
  BY Zenon DEF TxNext, EncoderStep, ZeroPulse, Request, Answer, Check, Copy, Start, DmaByte,
               TransmitComplete, SetBaudRate, SetStream, txVars
<1>t. /\ usart # "idle" => ~unmasked
      /\ usart \in {"copy", "start"} =>
           /\ gState = "READY"
           /\ \A b \in 1 .. copied : tx_buffer[b] = response
      /\ gState = "BUSY_TX" =>
           /\ \A b \in 1 .. dma.length : tx_buffer[b] = tx_buffer[1]
           /\ \A b \in 1 .. Len(line) : line[b] = tx_buffer[1]
      /\ PacketIntact
  BY <1>0, Zenon DEF TxIInv, TxInv, IntactInTurns, TurnInv
<1>u. TxTypeOK /\ TransferInv
  BY Zenon DEF TxIInv, TxInv
\* A step that leaves the UART and the buffer alone.
<1>f. ASSUME UNCHANGED <<gState, tx_buffer, dma, line>>,
             usart' # "idle" => ~unmasked',
             usart' \in {"copy", "start"} =>
               (gState = "READY" /\ \A b \in 1 .. copied' : tx_buffer[b] = response')
      PROVE  TurnInv' /\ PacketIntact'
  BY <1>f, <1>t, Zenon DEF TurnInv, PacketIntact
\* A transfer begins, of one packet.
<1>b. ASSUME usart' = "idle", line' = << >>,
             \A b \in 1 .. dma'.length : tx_buffer'[b] = tx_buffer'[1]
      PROVE  TurnInv' /\ PacketIntact'
  <2>1. 1 .. Len(line') = {}
    BY <1>b
  <2>2. usart' \notin {"copy", "start"}
    BY <1>b
  <2> QED BY <1>b, <2>1, <2>2, Zenon DEF TurnInv, PacketIntact
<1>1. CASE EncoderStep
  <2>1. UNCHANGED <<unmasked, usart, copied, response>>
    BY <1>1, Zenon DEF EncoderStep
  <2>2. CASE (unmasked /\ position' # lastSentPos) /\ BufferFree
    <3> DEFINE packet == [kind |-> "stream", pos |-> position']
    <3>1. /\ position' \in Positions /\ tx_buffer' = Filled(packet, StreamLength)
          /\ Transmit(StreamLength) /\ gState = "READY" /\ usart = "idle"
      BY <1>1, <1>t, <2>2, Zenon DEF EncoderStep, BufferFree
    <3>2. packet \in Packets
      BY <3>1, PacketTypes
    <3> HIDE DEF packet
    <3>3. line' = << >> /\ dma'.length = StreamLength
      BY <3>1, <1>u, TransmitFacts, Zenon
    <3>4. \A b \in Bytes : b <= StreamLength => tx_buffer'[b] = packet
      BY <1>u, <3>1, <3>2, FilledFacts, Lengths DEF TxTypeOK
    <3>5. \A b \in 1 .. StreamLength : (b \in Bytes) /\ (b <= StreamLength)
      BY Lengths DEF Bytes
    <3>6. \A b \in 1 .. StreamLength : tx_buffer'[b] = packet
      BY <3>4, <3>5, Zenon
    <3>7. 1 \in 1 .. StreamLength
      BY Lengths
    <3> QED BY <1>b, <2>1, <3>1, <3>3, <3>6, <3>7, Zenon
  <2>3. CASE ~((unmasked /\ position' # lastSentPos) /\ BufferFree)
    <3>1. UNCHANGED <<tx_buffer, gState, dma, line>>
      BY <1>1, <2>3, Zenon DEF EncoderStep
    <3> QED BY <1>f, <1>t, <2>1, <3>1, Zenon
  <2> QED BY <2>2, <2>3, Zenon
<1>2. CASE ZeroPulse
  <2>1. UNCHANGED <<unmasked, gState, tx_buffer, dma, line, usart, copied, response>>
    BY <1>2, Zenon DEF ZeroPulse
  <2> QED BY <1>f, <1>t, <2>1, Zenon
<1>3. CASE Request
  <2>1. /\ UNCHANGED <<unmasked, gState, tx_buffer, dma, line>> /\ ~unmasked
        /\ usart' = "check"
    BY <1>0, <1>3, Zenon DEF Request
  <2>2. usart' \notin {"copy", "start"}
    BY <2>1
  <2> QED BY <1>f, <2>1, <2>2, Zenon
<1>4. CASE Check
  <2>1. /\ UNCHANGED <<unmasked, gState, tx_buffer, dma, line, copied, response>>
        /\ ~unmasked /\ copied = 0
        /\ usart' = (IF gState = "READY" THEN "copy" ELSE "idle")
    BY <1>4, <1>t, <1>u DEF Check, BufferFree, TransferInv
  <2>2. 1 .. 0 = {}
    OBVIOUS
  <2>3. usart' \in {"copy", "start"} => gState = "READY"
    BY <2>1
  <2> QED BY <1>f, <2>1, <2>2, <2>3, Zenon
<1>5. CASE Copy
  <2>1. /\ copied' = copied + 1 /\ tx_buffer' = [tx_buffer EXCEPT ![copied'] = response]
        /\ UNCHANGED <<unmasked, gState, dma, line, response>>
        /\ usart' # "idle" /\ ~unmasked /\ gState = "READY"
    BY <1>5, <1>t DEF Copy
  <2>2. copied \in Nat /\ tx_buffer \in [Bytes -> Packets] /\ copied + 1 \in Bytes
    BY <1>5, <1>u, Lengths DEF Copy, TxTypeOK, TransferInv, Bytes
  <2>3. \A b \in 1 .. copied : tx_buffer[b] = response
    BY <1>5, <1>t DEF Copy
  <2>4. \A b \in 1 .. copied' : tx_buffer'[b] = response'
    BY <2>1, <2>2, <2>3 DEF Bytes
  <2>5. gState' = "READY" /\ gState' # "BUSY_TX" /\ ~unmasked'
    BY <2>1
  <2>6. PacketIntact'
    BY <1>t, <2>1, Zenon DEF PacketIntact
  <2> QED BY <2>4, <2>5, <2>6, Zenon DEF TurnInv
<1>6. CASE Start
  <2>1. Transmit(ResponseLength) /\ usart' = "idle" /\ UNCHANGED <<tx_buffer, copied, response>>
    BY <1>6, Zenon DEF Start
  <2>2. /\ gState = "READY" /\ copied = ResponseLength
        /\ \A b \in 1 .. copied : tx_buffer[b] = response
    BY <1>6, <1>t, <1>u DEF Start, TransferInv
  <2>3. line' = << >> /\ dma'.length = ResponseLength
    BY <1>u, <2>1, <2>2, TransmitFacts, Zenon
  <2>4. 1 \in 1 .. ResponseLength
    BY Lengths
  <2> QED BY <1>b, <2>1, <2>2, <2>3, <2>4, Zenon
<1>7. CASE DmaByte
  <2>1. /\ dma.sent < dma.length /\ line' = Append(line, tx_buffer[dma.sent + 1])
        /\ dma' = [dma EXCEPT !.sent = @ + 1]
        /\ UNCHANGED <<unmasked, gState, tx_buffer, usart, copied, response>>
    BY <1>7, Zenon DEF DmaByte
  <2>2. /\ dma \in [length : {0, StreamLength, ResponseLength}, sent : 0 .. ResponseLength]
        /\ gState = "BUSY_TX" /\ line \in Seq(Packets) /\ tx_buffer \in [Bytes -> Packets]
    BY <1>u, <2>1, Lengths DEF TxTypeOK, TransferInv, NoTransfer
  <2>3. dma'.length = dma.length /\ dma.sent + 1 \in 1 .. dma.length /\ dma.sent + 1 \in Bytes
    BY <2>1, <2>2, Lengths DEF Bytes
  <2>4. tx_buffer[dma.sent + 1] = tx_buffer[1] /\ tx_buffer[dma.sent + 1] \in Packets
    BY <1>t, <2>2, <2>3
  <2>5. /\ Len(line') = Len(line) + 1 /\ line'[Len(line) + 1] = tx_buffer[1]
        /\ \A b \in 1 .. Len(line) : line'[b] = line[b]
    BY <2>1, <2>2, <2>4, AppendProperties
  <2>6. Len(line) \in Nat
    BY <2>2, LenProperties
  <2>7. \A b \in 1 .. Len(line') : line'[b] = tx_buffer[1]
    BY <1>t, <2>2, <2>5, <2>6
  <2>8. PacketIntact'
    BY <2>7, Zenon DEF PacketIntact
  <2>9. \A b \in 1 .. dma'.length : tx_buffer[b] = tx_buffer[1]
    BY <1>t, <2>2, <2>3, Zenon
  <2>10. usart' # "idle" => ~unmasked'
    BY <1>t, <2>1, Zenon
  <2>11. usart \notin {"copy", "start"}
    BY <1>t, <2>2
  <2> QED BY <2>1, <2>7, <2>8, <2>9, <2>10, <2>11, Zenon DEF TurnInv
<1>8. CASE TransmitComplete \/ SetBaudRate
  <2>1. gState' = "READY" /\ usart' = "idle" /\ UNCHANGED line
    BY <1>8, Zenon DEF TransmitComplete, SetBaudRate
  <2>2. gState' # "BUSY_TX" /\ usart' \notin {"copy", "start"}
    BY <2>1
  <2>3. PacketIntact'
    BY <1>t, <2>1, Zenon DEF PacketIntact
  <2> QED BY <2>1, <2>2, <2>3, Zenon DEF TurnInv
<1>9. ASSUME NEW on \in BOOLEAN, SetStream(on) PROVE TurnInv' /\ PacketIntact'
  <2>1. /\ usart' = "idle" /\ UNCHANGED <<gState, tx_buffer, dma, line>>
    BY <1>9, Zenon DEF SetStream
  <2>2. usart' \notin {"copy", "start"}
    BY <2>1
  <2> QED BY <1>f, <2>1, <2>2, Zenon
<1>10. CASE UNCHANGED txVars
  <2>1. UNCHANGED <<unmasked, gState, tx_buffer, dma, line, usart, copied, response>>
    BY <1>10, Zenon DEF txVars
  <2> QED BY <1>f, <1>t, <2>1, Zenon
<1> QED BY <1>1, <1>2, <1>3, <1>4, <1>5, <1>6, <1>7, <1>8, <1>9, <1>10, Zenon DEF TxNext, Answer

-----------------------------------------------------------------------------
(* The theorems. *)

\* The invariant: types, the transfer, and the buffer with a host that takes
\* turns (hal_telemtry.c:122-142, app_telemetry.c:133-143).
THEOREM TxInvariant == TxSafety => []TxIInv
<1>1. TxInit => TxIInv
  BY InitTx
<1>2. TxIInv /\ [TxNext]_txVars => TxIInv'
  BY NextTxType, NextTurns, Zenon DEF TxIInv, TxInv
<1> QED BY <1>1, <1>2, PTL DEF TxSafety

\* Whole packets for hosts that take turns: wherever a step preempts an answer,
\* whatever the DMA has already read and however often the stream is switched
\* and the baud rate changed (TxInv).
THEOREM WholePackets == TxSafety => []TxInv
<1>1. TxIInv => TxInv
  BY Zenon DEF TxIInv
<1> QED BY <1>1, TxInvariant, PTL

\* A transfer runs to its last byte, whatever the host does (RunsToEnd).
THEOREM TransfersRunToEnd == TxSafety => RunsToEnd
<1> DEFINE Runs == dma.length # 0 /\ dma' # dma
                     => \/ dma.sent = dma.length \/ SetBaudRate
                        \/ dma' = [dma EXCEPT !.sent = @ + 1]
<1>1. TxIInv /\ [TxNext]_txVars => [Runs]_txVars
  <2> SUFFICES ASSUME TxIInv, TxNext, dma.length # 0, dma' # dma, ~SetBaudRate
               PROVE  \/ dma.sent = dma.length
                      \/ dma' = [dma EXCEPT !.sent = @ + 1]
    BY Zenon
  <2>1. gState # "READY"
    BY DEF TxIInv, TransferInv, NoTransfer
  <2>2. ~EncoderStep /\ ~Start
    BY <2>1, Zenon DEF EncoderStep, BufferFree, Start, Transmit
  <2>3. ~ZeroPulse /\ ~Request /\ ~Check /\ ~Copy /\ \A on \in BOOLEAN : ~SetStream(on)
    BY Zenon DEF ZeroPulse, Request, Check, Copy, SetStream
  <2>4. DmaByte \/ TransmitComplete
    BY <2>2, <2>3, Zenon DEF TxNext, Answer
  <2> QED BY <2>4, Zenon DEF DmaByte, TransmitComplete, AllSent
<1> HIDE DEF Runs
<1>2. TxSafety => [][Runs]_txVars
  BY <1>1, TxInvariant, PTL DEF TxSafety
<1> QED BY <1>2, Zenon DEF RunsToEnd, Runs
=============================================================================
