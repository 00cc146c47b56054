---------------------------- MODULE EncoderProofs ----------------------------
(***************************************************************************)
(* The encoder, for every number of counts per turn and every width of     *)
(* timer and heartbeat.  EncoderIInv is inductive; the properties follow   *)
(* from it.                                                                *)
(***************************************************************************)
EXTENDS EncoderProperties, TLAPS

-----------------------------------------------------------------------------
(* Arithmetic modulo n. *)

LEMMA ModRange ==
  ASSUME NEW a \in Int, NEW n \in Nat \ {0}
  PROVE  /\ a % n \in 0 .. n - 1 /\ a \div n \in Int
         /\ a = n * (a \div n) + (a % n)
BY SMT

LEMMA ModUnique ==
  ASSUME NEW q \in Int, NEW n \in Nat \ {0}, NEW r \in 0 .. n - 1
  PROVE  (n * q + r) % n = r
BY SMT

\* Whole turns do not count.
LEMMA ModTurns ==
  ASSUME NEW a \in Int, NEW k \in Int, NEW n \in Nat \ {0}
  PROVE  (a + n * k) % n = a % n
<1> DEFINE q == a \div n
           r == a % n
<1>1. q \in Int /\ r \in 0 .. n - 1 /\ a = n * q + r
  BY ModRange
<1> HIDE DEF q, r
<1>2. n * (q + k) = n * q + n * k /\ n * q \in Int /\ n * k \in Int
  BY <1>1, SMT
<1>3. a + n * k = n * (q + k) + r
  BY <1>1, <1>2, SMT
<1>4. (n * (q + k) + r) % n = r
  BY <1>1, ModUnique
<1> QED BY <1>3, <1>4 DEF r

LEMMA ModAdd ==
  ASSUME NEW a \in Int, NEW s \in Int, NEW n \in Nat \ {0}
  PROVE  ((a % n) + s) % n = (a + s) % n
<1> DEFINE q == a \div n
           r == a % n
<1>1. q \in Int /\ r \in Int /\ a = n * q + r
  BY ModRange
<1> HIDE DEF q, r
<1>2. n * q \in Int
  BY <1>1, SMT
<1>3. a + s = (r + s) + n * q
  BY <1>1, <1>2, SMT
<1>4. ((r + s) + n * q) % n = (r + s) % n
  <2>1. r + s \in Int
    BY <1>1
  <2> QED BY <1>1, <2>1, ModTurns, Zenon
<1> QED BY <1>3, <1>4 DEF r

LEMMA ModMirror ==
  ASSUME NEW a \in Int, NEW n \in Nat \ {0}
  PROVE  (-(a % n)) % n = (-a) % n
<1> DEFINE q == a \div n
           r == a % n
<1>1. q \in Int /\ r \in Int /\ a = n * q + r
  BY ModRange
<1> HIDE DEF q, r
<1>2. n * q \in Int /\ n * (-q) = -(n * q)
  BY <1>1, SMT
<1>3. -a = -r + n * (-q)
  BY <1>1, <1>2, SMT
<1>4. (-r + n * (-q)) % n = (-r) % n
  <2>1. -r \in Int /\ -q \in Int
    BY <1>1
  <2> QED BY <2>1, ModTurns, Zenon
<1> QED BY <1>3, <1>4 DEF r

LEMMA ModSmall ==
  ASSUME NEW n \in Nat \ {0}, NEW a \in 0 .. n - 1
  PROVE  a % n = a
BY SMT

-----------------------------------------------------------------------------
(* The inductive invariant, one lemma per conjunct. *)

LEMMA Moduli ==
  /\ CountsPerTurn \in Nat \ {0} /\ TimerModulus \in Nat \ {0} /\ MicrosPerMs \in Nat \ {0}
  /\ CounterModulus \in Nat \ {0} /\ MaxTime \in Nat /\ LongestRest \in Nat
  /\ 0 \in 0 .. CountsPerTurn - 1 /\ 0 \in 0 .. TimerModulus - 1
  /\ 0 \in 0 .. CounterModulus - 1 /\ 0 \in 0 .. CounterModulus
  /\ 0 \in 0 .. MaxTime /\ 0 \in 0 .. LongestRest
BY EncoderAssumption

\* The cycle time fits its register.
LEMMA CycleTimeRange ==
  ASSUME NEW us \in Nat
  PROVE  CycleTime(us) \in 0 .. MaxTime
<1>1. us \div MicrosPerMs \in Nat
  BY Moduli, SMT
<1> QED BY <1>1, Moduli DEF CycleTime

LEMMA InitEncoder == EncoderInit => EncoderIInv
<1> SUFFICES ASSUME EncoderInit PROVE EncoderIInv
  OBVIOUS
<1>1. EncoderTypeOK
  <2>1. /\ angle \in 0 .. CountsPerTurn - 1 /\ count \in 0 .. CountsPerTurn - 1
        /\ clock \in 0 .. TimerModulus - 1 /\ lastZPulseCaptureUs \in 0 .. TimerModulus - 1
        /\ lastRevolutionTimeUs \in 0 .. TimerModulus - 1
        /\ cycleCounter \in 0 .. CounterModulus - 1 /\ time \in 0 .. MaxTime
        /\ edgeAge \in 0 .. LongestRest /\ lastTurn \in 0 .. LongestRest
        /\ beats \in 0 .. CounterModulus
    BY Moduli, Zenon DEF EncoderInit
  <2>2. heard \in -1 .. CounterModulus - 1
    BY Moduli DEF EncoderInit
  <2>3. /\ reversed \in BOOLEAN /\ zPending \in BOOLEAN /\ isFirstPulse \in BOOLEAN
        /\ synced \in BOOLEAN /\ busy \in {"no", "erase", "read"}
    BY Zenon DEF EncoderInit
  <2> QED BY <2>1, <2>2, <2>3, Zenon DEF EncoderTypeOK
<1>2. CountFollowsAngle /\ CaptureInv /\ BeatInv
  BY DEF EncoderInit, CountFollowsAngle, CaptureInv, BeatInv
<1> QED BY <1>1, <1>2 DEF EncoderIInv

LEMMA NextEncoderType == EncoderTypeOK /\ [EncoderNext]_encoderVars => EncoderTypeOK'
<1> SUFFICES ASSUME EncoderTypeOK, [EncoderNext]_encoderVars PROVE EncoderTypeOK'
  OBVIOUS
<1> USE DEF EncoderTypeOK, rotor, pulses, reader
<1>1. ASSUME NEW step \in {1, -1}, Turn(step) PROVE EncoderTypeOK'
  <2>1. /\ (angle + step) % CountsPerTurn \in 0 .. CountsPerTurn - 1
        /\ (count + (IF reversed THEN -step ELSE step)) % CountsPerTurn
             \in 0 .. CountsPerTurn - 1
    <3>1. angle + step \in Int /\ count + (IF reversed THEN -step ELSE step) \in Int
      BY Moduli
    <3> QED BY <3>1, ModRange, Moduli
  <2>2. angle' \in 0 .. CountsPerTurn - 1 /\ count' \in 0 .. CountsPerTurn - 1
    BY <1>1, <2>1 DEF Turn, Period
  <2>3. /\ edgeAge' \in 0 .. LongestRest /\ lastTurn' \in 0 .. LongestRest
        /\ zPending' \in BOOLEAN
    BY <1>1, Moduli DEF Turn
  <2> QED BY <1>1, <2>2, <2>3 DEF Turn
<1>2. CASE Microsecond
  <2>1. (clock + 1) % TimerModulus \in 0 .. TimerModulus - 1
    <3>1. clock + 1 \in Int
      BY Moduli
    <3> QED BY <3>1, ModRange, Moduli
  <2>2. clock' \in 0 .. TimerModulus - 1 /\ edgeAge' \in 0 .. LongestRest
    BY <1>2, <2>1, Moduli DEF Microsecond
  <2> QED BY <1>2, <2>2 DEF Microsecond
<1>3. CASE ServeZ
  <2>1. /\ (clock - lastZPulseCaptureUs) % TimerModulus \in 0 .. TimerModulus - 1
        /\ (cycleCounter + 1) % CounterModulus \in 0 .. CounterModulus - 1
    <3>1. clock - lastZPulseCaptureUs \in Int /\ cycleCounter + 1 \in Int
      BY Moduli
    <3> QED BY <3>1, ModRange, Moduli
  <2>2. /\ lastRevolutionTimeUs' \in 0 .. TimerModulus - 1
        /\ cycleCounter' \in 0 .. CounterModulus - 1
        /\ beats' \in 0 .. CounterModulus
    BY <1>3, <2>1, Moduli DEF ServeZ, NextBeat
  <2>3. synced' \in BOOLEAN
    BY <1>3, Zenon DEF ServeZ
  <2> QED BY <1>3, <2>2, <2>3, Moduli DEF ServeZ, Capture
<1>4. ASSUME NEW r \in BOOLEAN, SetDirection(r) PROVE EncoderTypeOK'
  <2>1. synced' \in BOOLEAN
    BY <1>4 DEF SetDirection
  <2> QED BY <1>4, <2>1 DEF SetDirection
<1>5. CASE ReadTime
  <2>1. CycleTime(lastRevolutionTimeUs) \in 0 .. MaxTime
    BY CycleTimeRange, Moduli
  <2> QED BY <1>5, <2>1 DEF ReadTime
<1>6. CASE ReadCounter
  BY <1>6, Moduli DEF ReadCounter
<1>7. CASE EraseBegins \/ EraseEnds
  BY <1>7 DEF EraseBegins, EraseEnds
<1>8. CASE UNCHANGED encoderVars
  BY <1>8 DEF encoderVars
<1> QED BY <1>1, <1>2, <1>3, <1>4, <1>5, <1>6, <1>7, <1>8 DEF EncoderNext

LEMMA NextCount ==
  EncoderTypeOK /\ CountFollowsAngle /\ [EncoderNext]_encoderVars => CountFollowsAngle'
<1> SUFFICES ASSUME EncoderTypeOK, CountFollowsAngle, [EncoderNext]_encoderVars, synced'
             PROVE  count' = (IF reversed' THEN -angle' ELSE angle') % CountsPerTurn
  BY DEF CountFollowsAngle
<1> DEFINE n == CountsPerTurn
<1>0. /\ angle \in Int /\ count \in 0 .. n - 1 /\ n \in Nat \ {0}
      /\ reversed \in BOOLEAN /\ synced \in BOOLEAN
  BY Moduli DEF EncoderTypeOK
<1>1. ASSUME NEW step \in {1, -1}, Turn(step)
      PROVE  count' = (IF reversed' THEN -angle' ELSE angle') % n
  <2>1. /\ angle' = (angle + step) % n /\ reversed' = reversed /\ synced
        /\ count' = (count + (IF reversed THEN -step ELSE step)) % n
    BY <1>1 DEF Turn, Period
  <2>2. count = (IF reversed THEN -angle ELSE angle) % n
    BY <2>1 DEF CountFollowsAngle
  <2>3. CASE ~reversed
    <3>1. count' = ((angle % n) + step) % n
      BY <2>1, <2>2, <2>3
    <3>2. ((angle % n) + step) % n = (angle + step) % n
      <4>1. step \in Int
        OBVIOUS
      <4> QED BY <1>0, <4>1, ModAdd, Zenon
    <3>3. (angle + step) \in Int /\ (angle + step) % n \in 0 .. n - 1
      BY <1>0, ModRange
    <3> QED BY <1>0, <2>1, <2>3, <3>1, <3>2, <3>3, ModSmall
  <2>4. CASE reversed
    <3> DEFINE a == -angle
               s == -step
    <3>0. a \in Int /\ s \in Int /\ angle + step \in Int /\ a + s = -(angle + step)
      BY <1>0, SMT
    <3>1. count' = ((a % n) + s) % n
      BY <2>1, <2>2, <2>4
    <3> HIDE DEF a, s
    <3>2. ((a % n) + s) % n = (a + s) % n
      BY <1>0, <3>0, ModAdd, Zenon
    <3>3. (-((angle + step) % n)) % n = (-(angle + step)) % n
      BY <1>0, <3>0, ModMirror, Zenon
    <3> QED BY <2>1, <2>4, <3>0, <3>1, <3>2, <3>3
  <2> QED BY <1>0, <2>3, <2>4
<1>2. CASE ServeZ
  <2>1. count' = 0 /\ angle' = 0
    BY <1>2, Zenon DEF ServeZ
  <2>2. 0 % n = 0
    BY Moduli, ModSmall, Zenon
  <2>3. -angle' = 0
    <3>1. \A x \in Int, y \in Int : x + y = 0 => y = -x
      BY SMT
    <3>2. (angle' \in Int) /\ (0 \in Int) /\ (angle' + 0 = 0)
      BY <2>1
    <3> QED BY <3>1, <3>2, Zenon
  <2> QED BY <2>1, <2>2, <2>3
<1>3. ASSUME UNCHANGED <<angle, count>>, synced, reversed' = reversed
      PROVE  count' = (IF reversed' THEN -angle' ELSE angle') % n
  BY <1>3, Zenon DEF CountFollowsAngle
<1>4. ASSUME NEW r \in BOOLEAN, SetDirection(r)
      PROVE  count' = (IF reversed' THEN -angle' ELSE angle') % n
  <2>1. UNCHANGED <<angle, count>> /\ synced /\ reversed' = reversed
    BY <1>4, Zenon DEF SetDirection, rotor
  <2> QED BY <2>1, <1>3, Zenon
<1>5. CASE Microsecond \/ ReadTime \/ ReadCounter \/ EraseBegins \/ EraseEnds
  <2>1. UNCHANGED <<angle, count, synced, reversed>>
    BY <1>5, Zenon DEF Microsecond, ReadTime, ReadCounter, EraseBegins, EraseEnds, rotor
  <2> QED BY <2>1, <1>3, Zenon
<1>6. CASE UNCHANGED encoderVars
  <2>1. UNCHANGED <<angle, count, synced, reversed>>
    BY <1>6, Zenon DEF encoderVars
  <2> QED BY <2>1, <1>3, Zenon
<1> QED BY <1>1, <1>2, <1>4, <1>5, <1>6, Zenon DEF EncoderNext

\* Equal clocks stay equal after the same number of ticks.
\* One tick of a clock.
LEMMA ModNext ==
  ASSUME NEW x \in Int, NEW n \in Nat \ {0}
  PROVE  ((x % n) + 1) % n = (x + 1) % n
<1>1. \A y \in Int : ((x % n) + y) % n = (x + y) % n
  BY ModAdd, Zenon
<1>2. 1 \in Int
  OBVIOUS
<1> QED BY <1>1, <1>2, Zenon

\* A clock that was e after l, modulo its range, is e + 1 after l a tick later.
LEMMA ModClock ==
  ASSUME NEW c \in Int, NEW l \in Int, NEW e \in Int, NEW n \in Nat \ {0},
         (c - l) % n = e % n
  PROVE  (((c + 1) % n) - l) % n = (e + 1) % n
<1> DEFINE d == c - l  a == c + 1  s == -l
<1>1. d \in Int /\ a \in Int /\ s \in Int /\ a + s = d + 1 /\ d % n = e % n
  OBVIOUS
<1>2. \A x \in Int : x + s = x - l
  OBVIOUS
<1>3. a % n \in Int
  BY ModRange
<1> HIDE DEF d, a, s
<1>4. ((a % n) + s) % n = (a + s) % n
  <2>1. \A x, y \in Int : ((x % n) + y) % n = (x + y) % n
    BY ModAdd, Zenon
  <2> QED BY <1>1, <2>1
<1>5. (d + 1) % n = (e + 1) % n
  <2>1. ((d % n) + 1) % n = (d + 1) % n
    BY <1>1, ModNext, Zenon
  <2>2. ((e % n) + 1) % n = (e + 1) % n
    BY ModNext, Zenon
  <2> QED BY <1>1, <2>1, <2>2, Zenon
<1>6. (a % n) - l = (a % n) + s
  BY <1>2, <1>3
<1> QED BY <1>1, <1>4, <1>5, <1>6, Zenon DEF a

LEMMA NextCapture ==
  EncoderTypeOK /\ CaptureInv /\ [EncoderNext]_encoderVars => CaptureInv'
<1> SUFFICES ASSUME EncoderTypeOK, CaptureInv, [EncoderNext]_encoderVars PROVE CaptureInv'
  OBVIOUS
<1> DEFINE n == TimerModulus
<1>0. /\ clock \in Int /\ lastZPulseCaptureUs \in Int /\ edgeAge \in Int /\ n \in Nat \ {0}
      /\ zPending \in BOOLEAN /\ isFirstPulse \in BOOLEAN
  BY Moduli DEF EncoderTypeOK
<1>a. ASSUME UNCHANGED <<clock, zPending, isFirstPulse, lastZPulseCaptureUs, lastRevolutionTimeUs,
                         edgeAge, lastTurn, prompt>>,
             zPending => (busy' # "erase" \/ busy = "erase")
      PROVE  CaptureInv'
  BY <1>a, Zenon DEF CaptureInv
<1>1. ASSUME NEW step \in {1, -1}, Turn(step) PROVE CaptureInv'
  <2>1. CASE angle' = 0
    <3>1. /\ zPending' /\ edgeAge' = 0 /\ lastTurn' = edgeAge
          /\ prompt' = [last |-> busy # "erase", before |-> prompt.last]
          /\ UNCHANGED <<clock, isFirstPulse, lastZPulseCaptureUs, busy>>
      BY <1>1, <2>1, Zenon DEF Turn, pulses
    <3>2. prompt.last \in BOOLEAN
      BY Zenon DEF CaptureInv
    <3>3. /\ prompt' \in [last : BOOLEAN, before : BOOLEAN]
          /\ prompt'.last = (busy # "erase") /\ prompt'.before = prompt.last
      BY <3>1, <3>2, Zenon
    <3>4. ASSUME busy # "erase", prompt.last
          PROVE  /\ ~isFirstPulse
                 /\ (clock - lastZPulseCaptureUs) % n = edgeAge % n
      <4>1. ~zPending
        BY <1>1, <3>4, Zenon DEF Turn, Free
      <4> QED BY <3>4, <4>1, Zenon DEF CaptureInv
    <3> QED BY <3>1, <3>3, <3>4, Zenon DEF CaptureInv
  <2>2. CASE angle' # 0
    <3>1. /\ UNCHANGED <<clock, zPending, isFirstPulse, lastZPulseCaptureUs,
                         lastRevolutionTimeUs, edgeAge, lastTurn, prompt>>
          /\ busy' = busy
      BY <1>1, <2>2, Zenon DEF Turn, pulses
    <3> QED BY <3>1, <1>a, Zenon
  <2> QED BY <2>1, <2>2, Zenon
<1>2. CASE Microsecond
  <2>1. /\ clock' = (clock + 1) % n /\ edgeAge' = edgeAge + 1
        /\ UNCHANGED <<zPending, isFirstPulse, lastZPulseCaptureUs, lastRevolutionTimeUs,
                       lastTurn, prompt, busy>>
        /\ ~zPending \/ busy = "erase"
    BY <1>2, Zenon DEF Microsecond, pulses, Free
  <2>2. CASE zPending
    BY <2>1, <2>2, Zenon DEF CaptureInv
  <2>3. CASE ~zPending
    <3>1. ASSUME prompt.last
          PROVE  (clock' - lastZPulseCaptureUs) % n = (edgeAge + 1) % n
      <4>1. (clock - lastZPulseCaptureUs) % n = edgeAge % n
        BY <2>3, <3>1, Zenon DEF CaptureInv
      <4> HIDE DEF n
      <4>2. (((clock + 1) % n) - lastZPulseCaptureUs) % n = (edgeAge + 1) % n
        BY <1>0, <4>1, ModClock, Zenon
      <4> QED BY <2>1, <4>2, Zenon
    <3> QED BY <2>1, <2>3, <3>1, Zenon DEF CaptureInv
  <2> QED BY <2>2, <2>3, Zenon
<1>3. CASE ServeZ
  <2>1. /\ zPending /\ ~zPending' /\ ~isFirstPulse' /\ lastZPulseCaptureUs' = clock
        /\ ~isFirstPulse => lastRevolutionTimeUs' = (clock - lastZPulseCaptureUs) % n
        /\ UNCHANGED <<clock, edgeAge, lastTurn, prompt>>
    BY <1>3, Zenon DEF ServeZ, Capture
  <2>2. clock - clock = 0
    BY <1>0, SMT
  <2>3. prompt.last => edgeAge = 0
    BY <2>1, Zenon DEF CaptureInv
  <2>4. prompt.last => (clock' - lastZPulseCaptureUs') % n = edgeAge' % n
    BY <2>1, <2>2, <2>3, Zenon
  <2>5. prompt.last /\ prompt.before => lastRevolutionTimeUs' = lastTurn % n
    BY <2>1, Zenon DEF CaptureInv
  <2> QED BY <2>1, <2>4, <2>5, Zenon DEF CaptureInv
<1>4. ASSUME NEW r \in BOOLEAN, SetDirection(r) PROVE CaptureInv'
  <2>1. /\ UNCHANGED <<clock, zPending, isFirstPulse, lastZPulseCaptureUs,
                       lastRevolutionTimeUs, edgeAge, lastTurn, prompt>>
        /\ busy' = busy
    BY <1>4, Zenon DEF SetDirection, rotor, pulses
  <2> QED BY <2>1, <1>a, Zenon
<1>5. CASE ReadTime \/ ReadCounter \/ EraseEnds
  <2>1. /\ UNCHANGED <<clock, zPending, isFirstPulse, lastZPulseCaptureUs,
                       lastRevolutionTimeUs, edgeAge, lastTurn, prompt>>
        /\ busy' = "read" \/ busy' = "no"
    BY <1>5, Zenon DEF ReadTime, ReadCounter, EraseEnds, rotor, pulses
  <2>2. busy' # "erase"
    BY <2>1
  <2> QED BY <2>1, <2>2, <1>a, Zenon
<1>6. CASE EraseBegins
  <2>1. /\ UNCHANGED <<clock, zPending, isFirstPulse, lastZPulseCaptureUs,
                       lastRevolutionTimeUs, edgeAge, lastTurn, prompt>>
        /\ ~zPending
    BY <1>6, Zenon DEF EraseBegins, rotor, pulses
  <2> QED BY <2>1, <1>a, Zenon
<1>7. CASE UNCHANGED encoderVars
  <2>1. /\ UNCHANGED <<clock, zPending, isFirstPulse, lastZPulseCaptureUs,
                       lastRevolutionTimeUs, edgeAge, lastTurn, prompt>>
        /\ busy' = busy
    BY <1>7, Zenon DEF encoderVars
  <2> QED BY <2>1, <1>a, Zenon
<1> QED BY <1>1, <1>2, <1>3, <1>4, <1>5, <1>6, <1>7, Zenon DEF EncoderNext

LEMMA NextBeats ==
  EncoderTypeOK /\ BeatInv /\ [EncoderNext]_encoderVars => BeatInv'
<1> SUFFICES ASSUME EncoderTypeOK, BeatInv, [EncoderNext]_encoderVars PROVE BeatInv'
  OBVIOUS
<1> DEFINE n == CounterModulus
<1>0. /\ heard \in Int /\ beats \in 0 .. n /\ cycleCounter \in 0 .. n - 1 /\ n \in Nat \ {0}
  BY Moduli DEF EncoderTypeOK
<1>a. ASSUME UNCHANGED <<heard, beats, cycleCounter, time, lastRevolutionTimeUs>>,
             busy' = "read" => busy = "read"
      PROVE  BeatInv'
  BY <1>a, Zenon DEF BeatInv
<1>1. ASSUME NEW step \in {1, -1}, Turn(step) PROVE BeatInv'
  <2>1. UNCHANGED <<heard, beats, cycleCounter, time, lastRevolutionTimeUs, busy>>
    BY <1>1, Zenon DEF Turn, pulses, reader
  <2> QED BY <2>1, <1>a, Zenon
<1>2. CASE ServeZ
  <2>1. CASE isFirstPulse
    <3>1. UNCHANGED <<heard, beats, cycleCounter, time, lastRevolutionTimeUs, busy>>
      BY <1>2, <2>1, Zenon DEF ServeZ, reader
    <3> QED BY <3>1, <1>a, Zenon
  <2>2. CASE ~isFirstPulse
    <3>1. /\ cycleCounter' = (cycleCounter + 1) % n /\ heard' = heard
          /\ beats' = (IF beats < n THEN beats + 1 ELSE beats)
      BY <1>2, <2>2, Zenon DEF ServeZ, reader, NextBeat
    <3>2. beats' # 0
      BY <1>0, <3>1
    <3>3. ASSUME heard # -1, beats' < n PROVE cycleCounter' = (heard + beats') % n
      <4>1. beats < n /\ beats' = beats + 1
        BY <1>0, <3>1, <3>3
      <4>2. cycleCounter = (heard + beats) % n
        BY <3>3, <4>1, Zenon DEF BeatInv
      <4>3. heard + beats \in Int /\ 1 \in Int
        BY <1>0
      <4>4. (((heard + beats) % n) + 1) % n = ((heard + beats) + 1) % n
        BY <1>0, <4>3, ModAdd, Zenon
      <4>5. (heard + beats) + 1 = heard + beats'
        BY <1>0, <4>1
      <4> QED BY <3>1, <4>2, <4>4, <4>5, Zenon
    <3> QED BY <3>1, <3>2, <3>3, Zenon DEF BeatInv
  <2> QED BY <2>1, <2>2, Zenon
<1>3. CASE ReadTime
  BY <1>3, Zenon DEF ReadTime, BeatInv, pulses
<1>4. CASE ReadCounter
  <2>1. busy' = "no" /\ heard' = cycleCounter /\ beats' = 0 /\ cycleCounter' = cycleCounter
    BY <1>4, Zenon DEF ReadCounter
  <2>2. heard' + beats' = cycleCounter /\ cycleCounter % n = cycleCounter
    BY <1>0, <2>1, ModSmall
  <2>3. busy' # "read"
    BY <2>1
  <2> QED BY <2>1, <2>2, <2>3, Zenon DEF BeatInv
<1>5. ASSUME NEW r \in BOOLEAN, SetDirection(r) PROVE BeatInv'
  <2>1. UNCHANGED <<heard, beats, cycleCounter, time, lastRevolutionTimeUs, busy>>
    BY <1>5, Zenon DEF SetDirection, pulses, reader
  <2> QED BY <2>1, <1>a, Zenon
<1>6. CASE Microsecond \/ EraseBegins \/ EraseEnds
  <2>1. /\ UNCHANGED <<heard, beats, cycleCounter, time, lastRevolutionTimeUs>>
        /\ (busy' = busy) \/ (busy' \in {"no", "erase"})
    BY <1>6 DEF Microsecond, EraseBegins, EraseEnds, pulses, reader
  <2>2. busy' = "read" => busy = "read"
    BY <2>1
  <2> QED BY <2>1, <2>2, <1>a, Zenon
<1>7. CASE UNCHANGED encoderVars
  <2>1. UNCHANGED <<heard, beats, cycleCounter, time, lastRevolutionTimeUs, busy>>
    BY <1>7, Zenon DEF encoderVars
  <2> QED BY <2>1, <1>a, Zenon
<1> QED BY <1>1, <1>2, <1>3, <1>4, <1>5, <1>6, <1>7, Zenon DEF EncoderNext

-----------------------------------------------------------------------------
(* The theorems. *)

\* The invariant on which the rest of this module stands: the register types,
\* the count, the capture and the heartbeat (app_encoder.c:75-111).
THEOREM EncoderInvariant == EncoderSpec => []EncoderIInv
<1>1. EncoderInit => EncoderIInv
  BY InitEncoder
<1>2. EncoderIInv /\ [EncoderNext]_encoderVars => EncoderIInv'
  BY NextEncoderType, NextCount, NextCapture, NextBeats, Zenon DEF EncoderIInv
<1> QED BY <1>1, <1>2, PTL DEF EncoderSpec

\* The position an answer reports is the angle of the antenna or its mirror
\* image, over any number of turns either way (EncoderInv).
THEOREM CountIsTheAngle == EncoderSpec => []EncoderInv
<1>1. EncoderIInv => EncoderInv
  BY Zenon DEF EncoderIInv, EncoderInv
<1> QED BY <1>1, EncoderInvariant, PTL

\* A capture taken in time measures the turn.
LEMMA TurnIsMeasured == EncoderIInv => TurnMeasured
<1> SUFFICES ASSUME EncoderIInv, TurnTimed PROVE lastRevolutionTimeUs = lastTurn
  BY Zenon DEF TurnMeasured
<1>1. lastRevolutionTimeUs = lastTurn % TimerModulus
  BY Zenon DEF EncoderIInv, CaptureInv, TurnTimed
<1>2. lastTurn \in 0 .. TimerModulus - 1
  BY Moduli DEF EncoderIInv, EncoderTypeOK, TurnTimed
<1> QED BY <1>1, <1>2, Moduli, ModSmall

\* A revolution shorter than the timer's range is measured exactly, wherever
\* the timer wraps (TurnMeasured).
THEOREM RevolutionsAreTimed == EncoderSpec => []TurnMeasured
BY TurnIsMeasured, EncoderInvariant, PTL

\* An answer that repeats the heartbeat carries the time of that very
\* revolution, wherever the interrupt fell between the two register reads
\* (SecondLookRight).
THEOREM SecondLook == EncoderSpec => SecondLookRight
<1> DEFINE Look == ReadCounter /\ cycleCounter = heard /\ beats < CounterModulus /\ TurnTimed
                     => time = CycleTime(lastTurn)
           n == CounterModulus
<1>1. EncoderIInv => Look
  <2> SUFFICES ASSUME EncoderIInv, ReadCounter, cycleCounter = heard, beats < n, TurnTimed
               PROVE  time = CycleTime(lastTurn)
    OBVIOUS
  <2>0. /\ beats \in 0 .. n - 1 /\ cycleCounter \in 0 .. n - 1 /\ n \in Nat \ {0}
        /\ heard \in Int /\ heard # -1
    BY Moduli DEF EncoderIInv, EncoderTypeOK
  <2>1. heard = (heard + beats) % n
    BY <2>0, Zenon DEF EncoderIInv, BeatInv
  <2>2. beats = 0
    <3>1. CASE heard + beats < n
      <4>1. heard + beats \in 0 .. n - 1
        BY <2>0, <3>1
      <4>2. (heard + beats) % n = heard + beats
        BY <2>0, <4>1, ModSmall, Zenon
      <4> QED BY <2>0, <2>1, <4>2
    <3>2. CASE heard + beats >= n
      <4>1. /\ heard + beats - n \in 0 .. n - 1
            /\ heard + beats = n * 1 + (heard + beats - n)
        BY <2>0, <3>2
      <4>2. (n * 1 + (heard + beats - n)) % n = heard + beats - n
        BY <2>0, <4>1, ModUnique
      <4>3. heard = heard + beats - n
        BY <2>1, <4>1, <4>2
      <4> QED BY <2>0, <4>3
    <3> QED BY <2>0, <3>1, <3>2
  <2>3. busy = "read"
    BY Zenon DEF ReadCounter
  <2>4. time = CycleTime(lastRevolutionTimeUs)
    BY <2>2, <2>3, Zenon DEF EncoderIInv, BeatInv
  <2>5. lastRevolutionTimeUs = lastTurn
    BY TurnIsMeasured, Zenon DEF TurnMeasured
  <2> QED BY <2>4, <2>5, Zenon
<1> HIDE DEF Look
<1>2. EncoderSpec => [][Look]_encoderVars
  BY <1>1, EncoderInvariant, PTL
<1> QED BY <1>2, Zenon DEF SecondLookRight, Look
=============================================================================
