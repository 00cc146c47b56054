----------------------------- MODULE ParserProofs -----------------------------
(***************************************************************************)
(* The whole telemetry UART: the byte parser, for every check byte that is *)
(* not the sync byte and all noise there may be on the line, and what      *)
(* TelemetryProofs shows of the transmit side carried over.                *)
(***************************************************************************)
EXTENDS Telemetry, TelemetryProofs

\* Two requests in a row, byte by byte.
LEMMA TwiceIs ==
  /\ Twice[1] = SyncByte /\ Twice[2] = ReqPosition /\ Twice[3] = RequestCrc
  /\ Twice[4] = SyncByte /\ Twice[5] = ReqPosition /\ Twice[6] = RequestCrc
<1> DEFINE S == {SyncByte, ReqPosition, RequestCrc}
<1>1. /\ Frame \in Seq(S) /\ Len(Frame) = 3
      /\ Frame[1] = SyncByte /\ Frame[2] = ReqPosition /\ Frame[3] = RequestCrc
  BY DEF Frame
<1> HIDE DEF S
<1>2. \A i \in 1 .. Len(Frame) + Len(Frame) :
        (Frame \o Frame)[i] = IF i <= Len(Frame) THEN Frame[i] ELSE Frame[i - Len(Frame)]
  BY <1>1, ConcatProperties, Zenon
<1>3. \A i \in 1 .. 6 : Twice[i] = IF i <= 3 THEN Frame[i] ELSE Frame[i - 3]
  <2> DEFINE F == Frame  TT == Frame \o Frame
  <2>1. Twice = TT
    BY DEF Twice
  <2> HIDE DEF F, TT
  <2>2. Len(F) = 3 /\ \A i \in 1 .. Len(F) + Len(F) :
          TT[i] = IF i <= Len(F) THEN F[i] ELSE F[i - Len(F)]
    BY <1>1, <1>2, Zenon DEF F, TT
  <2>3. \A i \in 1 .. 6 : TT[i] = IF i <= 3 THEN F[i] ELSE F[i - 3]
    BY <2>2
  <2> QED BY <2>1, <2>3, Zenon DEF F
<1> QED BY <1>1, <1>3

LEMMA HeardBytes ==
  /\ Heard \subseteq Octets
  /\ RequestCrc \in Octets /\ RequestCrc # SyncByte /\ RequestCrc = CrcOf[ReqPosition]
  /\ SyncByte \in Octets /\ ReqPosition \in Octets /\ SyncByte # ReqPosition
<1>1. Frame[1] = SyncByte /\ Frame[2] = ReqPosition /\ Frame[3] = RequestCrc
  BY DEF Frame
<1>2. SyncByte \in Octets /\ ReqPosition \in Octets /\ SyncByte # ReqPosition
  BY SMT DEF SyncByte, ReqPosition, Octets
<1>3. /\ RequestCrc # SyncByte /\ RequestCrc = CrcOf[ReqPosition]
      /\ CrcOf \in [Octets -> Octets] /\ Noise \subseteq Octets
  BY RxAssumption, Zenon
<1>4. RequestCrc \in Octets
  BY <1>2, <1>3, Zenon
<1>5. Heard \subseteq Octets
  <2> SUFFICES ASSUME NEW i \in 1 .. 3 PROVE Frame[i] \in Octets
    BY <1>3, Zenon DEF Heard
  <2>1. i = 1 \/ i = 2 \/ i = 3
    OBVIOUS
  <2> QED BY <1>1, <1>2, <1>4, <2>1, Zenon
<1> QED BY <1>2, <1>3, <1>4, <1>5, Zenon

\* How the history goes on.
LEMMA MatchFacts ==
  ASSUME matched \in 0 .. 5, NEW b, Match(b)
  PROVE  /\ matched' \in 0 .. 5
         /\ matched' = 3 => b = RequestCrc /\ matched \in {2, 5}
         /\ matched' = 4 => b = SyncByte /\ matched = 3
         /\ matched' = 5 => b = ReqPosition /\ matched = 4
         /\ b = SyncByte => matched' \in {1, 4}
         /\ b = ReqPosition /\ matched \in {1, 4} => matched' \in {2, 5}
         /\ b = RequestCrc /\ matched \in {2, 5} => matched' = 3
<1>1. \A k \in 0 .. 5 : Twice[k + 1] = IF k \in {0, 3} THEN SyncByte
                                       ELSE IF k \in {1, 4} THEN ReqPosition ELSE RequestCrc
  BY TwiceIs
<1>2. matched' = IF b = Twice[matched + 1] THEN IF matched = 5 THEN 3 ELSE matched + 1
                 ELSE IF b = SyncByte THEN 1 ELSE 0
  BY DEF Match
<1>3. RequestCrc # SyncByte /\ SyncByte # ReqPosition
  BY HeardBytes
<1>4. Twice[matched + 1] = IF matched \in {0, 3} THEN SyncByte
                           ELSE IF matched \in {1, 4} THEN ReqPosition ELSE RequestCrc
  BY <1>1
<1> QED BY <1>2, <1>3, <1>4

\* One byte.
LEMMA ParseFacts ==
  ASSUME ParserInv, NEW b \in Heard, Parse(b)
  PROVE  ParserInv'
<1>1. /\ b \in Octets /\ 0 \in Octets
      /\ RequestCrc # SyncByte /\ SyncByte # ReqPosition /\ ReqPosition # 0
  <2>1. 0 \in Octets /\ ReqPosition # 0
    BY SMT DEF ReqPosition, Octets
  <2> QED BY <2>1, HeardBytes, Zenon
<1>2. /\ matched' \in 0 .. 5
      /\ matched' = 3 => b = RequestCrc /\ matched \in {2, 5}
      /\ matched' = 4 => b = SyncByte /\ matched = 3
      /\ matched' = 5 => b = ReqPosition /\ matched = 4
      /\ b = SyncByte => matched' \in {1, 4}
      /\ b = ReqPosition /\ matched \in {1, 4} => matched' \in {2, 5}
  BY MatchFacts DEF ParserInv, Parse
<1>3. CASE rxState = "WAIT_SYNC"
  <2>1. rxState' = (IF b = SyncByte THEN "WAIT_CMD" ELSE "WAIT_SYNC") /\ rxCmd' = 0
    BY <1>3 DEF Parse
  <2> QED BY <1>1, <1>2, <1>3, <2>1 DEF ParserInv
<1>4. CASE rxState = "WAIT_CMD"
  <2>1. rxState' = "WAIT_CRC" /\ rxCmd' = b
    BY <1>4 DEF Parse
  <2> QED BY <1>1, <1>2, <1>4, <2>1 DEF ParserInv
<1>5. CASE rxState = "WAIT_CRC"
  <2>1. rxState' = "WAIT_SYNC" /\ rxCmd' = 0
    BY <1>5 DEF Parse, AfterCrc
  <2> QED BY <1>1, <1>2, <1>5, <2>1 DEF ParserInv
<1> QED BY <1>3, <1>4, <1>5 DEF ParserInv

\* Every step of the composition is one of the transmit side or a byte that
\* changes nothing there.
LEMMA StepSplit ==
  ASSUME [TelemetryNext]_telemetryVars
  PROVE  /\ [TxNext]_txVars
         /\ \/ UNCHANGED rxVars
            \/ \E b \in Heard : Hear(b)
<1>1. CASE \E b \in Heard : Hear(b)
  BY <1>1, Zenon DEF Hear, TxNext
<1>2. CASE /\ \/ EncoderStep \/ ZeroPulse \/ Answer \/ DmaByte \/ TransmitComplete
              \/ SetBaudRate \/ \E on \in BOOLEAN : SetStream(on)
           /\ UNCHANGED rxVars
  BY <1>2, Zenon DEF TxNext
<1>3. CASE UNCHANGED telemetryVars
  <2>1. UNCHANGED txVars /\ UNCHANGED rxVars
    BY <1>3, Zenon DEF telemetryVars
  <2> QED BY <2>1, Zenon
<1> QED BY <1>1, <1>2, <1>3, Zenon DEF TelemetryNext

-----------------------------------------------------------------------------

\* Whatever state the parser was in when a whole request began, it waits for a
\* sync byte when the request is over; and it waits for the check byte of a
\* position request only if a host may have sent one
\* (App_Telemetry_OnByteReceived, app_telemetry.c:58-108).
THEOREM ParserInvariant == TelemetrySpec => []ParserInv
<1>1. TelemetryInit => ParserInv
  <2>1. 0 \in Octets
    BY SMT DEF Octets
  <2> QED BY <2>1 DEF TelemetryInit, RxInit, ParserInv
<1>2. ParserInv /\ [TelemetryNext]_telemetryVars => ParserInv'
  <2> SUFFICES ASSUME ParserInv, [TelemetryNext]_telemetryVars PROVE ParserInv'
    OBVIOUS
  <2>1. CASE UNCHANGED rxVars
    BY <2>1 DEF rxVars, ParserInv
  <2>2. CASE \E b \in Heard : Hear(b)
    BY <2>2, ParseFacts, Zenon DEF Hear
  <2> QED BY <2>1, <2>2, StepSplit, Zenon
<1> QED BY <1>1, <1>2, PTL DEF TelemetrySpec

\* Whatever was heard before, of two whole requests in a row the second is
\* recognised (app_telemetry.c:58-108).
THEOREM ParserRecovers == TelemetrySpec => SecondRequestHeard
<1>1. /\ ParserInv /\ [TelemetryNext]_telemetryVars
      => [matched = 5 /\ matched' = 3 => usart' = "check"]_telemetryVars
  <2> SUFFICES ASSUME ParserInv, [TelemetryNext]_telemetryVars, matched = 5, matched' = 3
               PROVE  usart' = "check"
    BY Zenon
  <2>1. ~UNCHANGED rxVars
    BY DEF rxVars
  <2>2. PICK b \in Heard : Hear(b)
    BY <2>1, StepSplit, Zenon
  <2>3. b = RequestCrc
    BY <2>2, MatchFacts DEF ParserInv, Hear, Parse
  <2>4. IsRequest(b)
    BY <2>3, HeardBytes DEF ParserInv, IsRequest
  <2> QED BY <2>2, <2>4, Zenon DEF Hear, Request
<1> QED BY <1>1, ParserInvariant, PTL DEF TelemetrySpec, SecondRequestHeard

\* Noise alone, or a request with a damaged byte, is never answered
\* (app_telemetry.c:72-104).
THEOREM NoiseUnanswered == TelemetrySpec => OnlyRequestsAnswered
<1>1. /\ ParserInv /\ [TelemetryNext]_telemetryVars
      => [usart = "idle" /\ usart' # "idle" => matched' = 3]_telemetryVars
  <2> SUFFICES ASSUME ParserInv, TelemetryNext, usart = "idle", usart' # "idle"
               PROVE  matched' = 3
    BY Zenon
  <2>1. ~(\/ EncoderStep \/ ZeroPulse \/ Answer \/ DmaByte \/ TransmitComplete
          \/ SetBaudRate \/ \E on \in BOOLEAN : SetStream(on))
    BY DEF EncoderStep, ZeroPulse, Answer, Check, Copy, Start, DmaByte, TransmitComplete,
           SetBaudRate, SetStream
  <2>2. PICK b \in Heard : Hear(b)
    BY <2>1, Zenon DEF TelemetryNext
  <2>3. IsRequest(b)
    BY <2>2 DEF Hear, txVars
  <2>4. b = RequestCrc /\ matched \in {2, 5}
    BY <2>3, HeardBytes DEF ParserInv, IsRequest
  <2>5. matched \in 0 .. 5 /\ Match(b)
    BY <2>2, Zenon DEF ParserInv, Hear, Parse
  <2> QED BY <2>4, <2>5, MatchFacts, Zenon
<1> QED BY <1>1, ParserInvariant, PTL DEF TelemetrySpec, OnlyRequestsAnswered

\* With the parser in front, the transmit side still is that of TelemetryTx, and
\* what was proved of it holds: whole packets for hosts that take turns, and
\* transfers that run to their end (hal_telemtry.c:92, :129-142).
THEOREM TransmitSideKept == TelemetrySpec => []TxInv /\ RunsToEnd
<1>1. TelemetryInit => TxInit
  BY Zenon DEF TelemetryInit
<1>2. [TelemetryNext]_telemetryVars => [TxNext]_txVars
  BY StepSplit, Zenon
<1>3. TelemetrySpec => TxSafety
  BY <1>1, <1>2, PTL DEF TelemetrySpec, TxSafety
<1> QED BY <1>3, WholePackets, TransfersRunToEnd, PTL
=============================================================================
