----------------------------- MODULE PanelProofs -----------------------------
(***************************************************************************)
(* The operator's panel, for every debounce time and every pair of         *)
(* intervals.  SwitchIInv and LampIInv are inductive; the properties of    *)
(* the switch and of the lamp follow from them.                            *)
(***************************************************************************)
EXTENDS Panel, TLAPS, SequenceTheorems, FiniteSetTheorems

-----------------------------------------------------------------------------
(* The switch. *)

\* The window of samples: one more, and the oldest goes once it is full.
LEMMA RecordedFacts ==
  ASSUME NEW s \in Seq(BOOLEAN), Len(s) \in 1 .. DebounceTimeMs + 1
  PROVE  LET r == Recorded(s)
             n == Len(r)
         IN  /\ r \in Seq(BOOLEAN) /\ n \in 1 .. DebounceTimeMs + 1
             /\ n = Len(s) + 1 \/ (n = Len(s) /\ n = DebounceTimeMs + 1)
             /\ r[n] = RawState
             /\ \A k \in 1 .. n - 1 : r[k] = s[k + Len(s) + 1 - n]
<1> DEFINE t == Append(s, RawState)
<1>1. RawState \in BOOLEAN
  BY Zenon DEF RawState
<1>2. /\ t \in Seq(BOOLEAN) /\ t # << >> /\ Len(t) = Len(s) + 1
      /\ \A k \in 1 .. Len(s) : t[k] = s[k]
      /\ t[Len(s) + 1] = RawState
  BY <1>1, AppendProperties
<1>3. Len(s) \in Nat
  BY LenProperties
<1> HIDE DEF t
<1>4. CASE Len(t) > DebounceTimeMs + 1
  <2>1. /\ Tail(t) \in Seq(BOOLEAN) /\ Len(Tail(t)) = Len(s)
        /\ \A k \in 1 .. Len(Tail(t)) : Tail(t)[k] = t[k + 1]
    BY <1>2, <1>3, HeadTailProperties
  <2>2. Recorded(s) = Tail(t)
    BY <1>4 DEF Recorded, t
  <2> DEFINE w == Tail(t)
  <2>3. Len(s) = DebounceTimeMs + 1 /\ Len(w) = Len(s) /\ w \in Seq(BOOLEAN)
    BY <1>2, <1>3, <1>4, <2>1, DebounceAssumption
  <2>4. \A k \in 1 .. Len(w) : w[k] = t[k + 1]
    BY <2>1
  <2> HIDE DEF w
  <2>5. w[Len(w)] = RawState
    BY <1>2, <1>3, <2>3, <2>4, DebounceAssumption
  <2>6. \A k \in 1 .. Len(w) - 1 : w[k] = s[k + Len(s) + 1 - Len(w)]
    <3> SUFFICES ASSUME NEW k \in 1 .. Len(w) - 1 PROVE w[k] = s[k + Len(s) + 1 - Len(w)]
      OBVIOUS
    <3>1. k \in 1 .. Len(w) /\ k + 1 \in 1 .. Len(s) /\ k + Len(s) + 1 - Len(w) = k + 1
      BY <1>3, <2>3
    <3> QED BY <1>2, <2>4, <3>1
  <2>7. Len(w) \in 1 .. DebounceTimeMs + 1
    BY <2>3, DebounceAssumption
  <2>8. Recorded(s) = w
    BY <2>2 DEF w
  <2> QED BY <2>3, <2>5, <2>6, <2>7, <2>8
<1>5. CASE ~(Len(t) > DebounceTimeMs + 1)
  <2>1. Recorded(s) = t
    BY <1>5 DEF Recorded, t
  <2>2. \A k \in 1 .. Len(t) - 1 : k \in 1 .. Len(s) /\ k + Len(s) + 1 - Len(t) = k
    BY <1>2, <1>3
  <2>3. t \in Seq(BOOLEAN) /\ Len(t) = Len(s) + 1 /\ Len(t) \in 1 .. DebounceTimeMs + 1
    BY <1>2, <1>3, <1>5, DebounceAssumption
  <2>4. \A k \in 1 .. Len(t) - 1 : t[k] = s[k + Len(s) + 1 - Len(t)]
    BY <1>2, <2>2
  <2>5. t[Len(t)] = RawState
    BY <1>2
  <2> QED BY <1>3, <2>1, <2>3, <2>4, <2>5
<1> QED BY <1>4, <1>5

LEMMA InitSwitch == SwitchInit => SwitchIInv
<1> SUFFICES ASSUME SwitchInit PROVE SwitchIInv
  OBVIOUS
<1>1. RawState \in BOOLEAN
  BY Zenon DEF RawState
<1>2. /\ samples = <<RawState>> /\ Len(samples) = 1 /\ samples[1] = RawState
      /\ samples \in Seq(BOOLEAN)
  BY <1>1 DEF SwitchInit
<1>3. SwitchTypeOK
  BY <1>1, <1>2, DebounceAssumption DEF SwitchInit, SwitchTypeOK
<1>4. CounterInv
  BY <1>2, DebounceAssumption DEF SwitchInit, CounterInv
<1> QED BY <1>2, <1>3, <1>4 DEF SwitchIInv

\* What a tick has to show of the counter, given that it records a sample.
LEMMA NextSwitch == SwitchIInv /\ [SwitchTick \/ Bounce]_switchVars => SwitchIInv'
<1> SUFFICES ASSUME SwitchIInv, [SwitchTick \/ Bounce]_switchVars PROVE SwitchIInv'
  OBVIOUS
<1> DEFINE n == Len(samples)
           m == Len(samples')
<1>1. /\ SwitchTypeOK /\ samples \in Seq(BOOLEAN) /\ CounterInv
      /\ n \in 1 .. DebounceTimeMs + 1 /\ n \in Nat /\ debounceCounter \in Nat
      /\ debounceCounter <= DebounceTimeMs /\ DebounceTimeMs \in Nat \ {0}
  BY DebounceAssumption DEF SwitchIInv, SwitchTypeOK
<1>2. RawState \in BOOLEAN
  BY Zenon DEF RawState
<1>3. /\ debounceCounter < n
      /\ \A k \in n - debounceCounter .. n : samples[k] = switchLastRawState
      /\ debounceCounter < DebounceTimeMs /\ debounceCounter + 1 < n =>
           samples[n - debounceCounter - 1] # switchLastRawState
      /\ debounceCounter = DebounceTimeMs => switchStableState = switchLastRawState
  BY <1>1 DEF CounterInv
<1>4. ASSUME SwitchTick
      PROVE  /\ samples' \in Seq(BOOLEAN) /\ m \in 1 .. DebounceTimeMs + 1 /\ m \in Nat
             /\ m = n + 1 \/ (m = n /\ m = DebounceTimeMs + 1)
             /\ samples'[m] = RawState
             /\ \A k \in 1 .. m - 1 : samples'[k] = samples[k + n + 1 - m]
  <2>1. samples' = Recorded(samples)
    BY <1>4 DEF SwitchTick, TickChanged, TickSteady, TickSettled
  <2> QED BY <1>1, <2>1, RecordedFacts
<1> HIDE DEF n, m
<1>5. CASE TickChanged
  <2>1. RawState # switchLastRawState /\ debounceCounter' = 0 /\ switchLastRawState' = RawState
        /\ UNCHANGED <<pin, switchStableState>>
    BY <1>5 DEF TickChanged, TimerReset
  <2>2. SwitchTypeOK'
    BY <1>1, <1>2, <1>4, <1>5, <2>1 DEF SwitchTypeOK, SwitchTick, m
  <2>3. m > 1 => samples'[m - 1] = switchLastRawState
    <3>1. SUFFICES ASSUME m > 1 PROVE samples'[m - 1] = switchLastRawState
      OBVIOUS
    <3>2. samples'[m - 1] = samples[n]
      BY <1>1, <1>4, <1>5, <3>1 DEF SwitchTick
    <3> QED BY <1>1, <1>3, <3>2
  <2>4. CounterInv'
    <3>1. /\ 0 < m /\ \A k \in m .. m : samples'[k] = RawState
          /\ 1 < m => samples'[m - 1] # RawState
      BY <1>4, <1>5, <2>1, <2>3 DEF SwitchTick
    <3> QED BY <1>1, <1>4, <1>5, <2>1, <3>1 DEF CounterInv, SwitchTick, m
  <2> QED BY <1>4, <1>5, <2>2, <2>4 DEF SwitchIInv, SwitchTick
<1>6. CASE TickSteady
  <2>1. /\ RawState = switchLastRawState /\ debounceCounter < DebounceTimeMs
        /\ debounceCounter' = debounceCounter + 1
        /\ switchStableState' = IF debounceCounter + 1 = DebounceTimeMs THEN RawState
                                                                        ELSE switchStableState
        /\ UNCHANGED <<pin, switchLastRawState>>
    BY <1>6 DEF TickSteady, Counting, Elapsed
  <2>2. SwitchTypeOK'
    BY <1>1, <1>2, <1>4, <1>6, <2>1 DEF SwitchTypeOK, SwitchTick, m
  <2>3. CounterInv'
    <3>1. debounceCounter + 1 < m
      BY <1>1, <1>3, <1>4, <1>6, <2>1 DEF SwitchTick
    <3>2. \A k \in m - (debounceCounter + 1) .. m : samples'[k] = RawState
      <4>1. SUFFICES ASSUME NEW k \in m - (debounceCounter + 1) .. m, k # m
                     PROVE  samples'[k] = RawState
        BY <1>4, <1>6 DEF SwitchTick
      <4>2. k \in 1 .. m - 1 /\ k + n + 1 - m \in n - debounceCounter .. n
        <5>1. m \in Nat /\ (m = n + 1 \/ m = n)
          BY <1>4, <1>6 DEF SwitchTick
        <5> QED BY <1>1, <3>1, <4>1, <5>1
      <4> QED BY <1>3, <1>4, <1>6, <2>1, <4>2 DEF SwitchTick
    <3>3. debounceCounter + 2 < m => samples'[m - (debounceCounter + 1) - 1] # RawState
      <4>1. SUFFICES ASSUME debounceCounter + 2 < m
                     PROVE  samples'[m - debounceCounter - 2] # RawState
        <5>1. m \in Nat
          BY <1>4, <1>6, Zenon DEF SwitchTick
        <5>2. m - (debounceCounter + 1) - 1 = m - debounceCounter - 2
          BY <1>1, <5>1
        <5> QED BY <5>2, Zenon
      <4>2. /\ m - debounceCounter - 2 \in 1 .. m - 1
            /\ m - debounceCounter - 2 + n + 1 - m = n - debounceCounter - 1
        <5>1. m \in Nat
          BY <1>4, <1>6 DEF SwitchTick
        <5> QED BY <1>1, <4>1, <5>1
      <4>3. samples'[m - debounceCounter - 2] = samples[n - debounceCounter - 1]
        BY <1>4, <1>6, <4>2 DEF SwitchTick
      <4>4. debounceCounter + 1 < n
        BY <1>1, <1>4, <1>6, <4>1 DEF SwitchTick
      <4> QED BY <1>3, <2>1, <4>3, <4>4
    <3> QED BY <1>1, <1>4, <1>6, <2>1, <3>1, <3>2, <3>3 DEF CounterInv, SwitchTick, m
  <2> QED BY <1>4, <1>6, <2>2, <2>3 DEF SwitchIInv, SwitchTick
<1>7. CASE TickSettled
  <2>1. /\ RawState = switchLastRawState /\ debounceCounter = DebounceTimeMs
        /\ UNCHANGED <<pin, switchStableState, switchLastRawState, debounceCounter>>
    BY <1>1, <1>7 DEF TickSettled, Counting
  <2>2. SwitchTypeOK'
    BY <1>1, <1>4, <1>7, <2>1 DEF SwitchTypeOK, SwitchTick, m
  <2>3. CounterInv'
    <3>1. m = n /\ n = DebounceTimeMs + 1
      BY <1>1, <1>3, <1>4, <1>7, <2>1 DEF SwitchTick
    <3>2. \A k \in m - debounceCounter .. m : samples'[k] = switchLastRawState
      <4>1. SUFFICES ASSUME NEW k \in m - debounceCounter .. m, k # m
                     PROVE  samples'[k] = switchLastRawState
        BY <1>4, <1>7, <2>1 DEF SwitchTick
      <4>2. k \in 1 .. m - 1 /\ k + n + 1 - m \in n - debounceCounter .. n
        <5>1. m \in Nat /\ (m = n + 1 \/ m = n)
          BY <1>4, <1>7 DEF SwitchTick
        <5> QED BY <1>1, <3>1, <4>1, <5>1, <2>1, <1>3
      <4> QED BY <1>3, <1>4, <1>7, <4>2 DEF SwitchTick
    <3> QED BY <1>1, <1>3, <2>1, <3>1, <3>2 DEF CounterInv, m
  <2> QED BY <1>4, <1>7, <2>2, <2>3 DEF SwitchIInv, SwitchTick
<1>8. CASE Bounce
  BY <1>1, <1>8 DEF Bounce, SwitchIInv, SwitchTypeOK, CounterInv
<1>9. CASE UNCHANGED switchVars
  BY <1>1, <1>9 DEF switchVars, SwitchIInv, SwitchTypeOK, CounterInv
<1> QED BY <1>5, <1>6, <1>7, <1>8, <1>9 DEF SwitchTick

\* The samples are those of a step of the counter.
LEMMA InvGivesResponsive == SwitchIInv => SwitchInv
<1> SUFFICES ASSUME SwitchIInv, Len(samples) = DebounceTimeMs + 1,
                    Cardinality(Samples) = 1
             PROVE  Samples = {switchStableState}
  BY DEF SwitchInv, SwitchIInv, Responsive
<1> DEFINE n == DebounceTimeMs + 1
<1>1. /\ SwitchTypeOK /\ samples \in Seq(BOOLEAN) /\ CounterInv
      /\ Len(samples) = n /\ n \in Nat \ {0} /\ debounceCounter \in 0 .. DebounceTimeMs
  BY DebounceAssumption DEF SwitchIInv, SwitchTypeOK
<1>2. IsFiniteSet(Samples)
  <2>1. IsFiniteSet({TRUE} \cup {FALSE})
    BY FS_Singleton, FS_AddElement
  <2>2. \A k \in 1 .. Len(samples) : samples[k] \in BOOLEAN
    BY <1>1, ElementOfSeq
  <2>3. Samples \subseteq {TRUE} \cup {FALSE}
    BY <2>2, Zenon DEF Samples
  <2> QED BY <2>1, <2>3, FS_Subset
<1>3. PICK x : Samples = {x}
  BY <1>2, FS_Singleton
<1>4. \A k \in 1 .. n : samples[k] = x
  BY <1>1, <1>3 DEF Samples
<1>5. switchLastRawState = x
  <2>1. n \in n - debounceCounter .. n /\ n \in 1 .. n
    BY <1>1
  <2> QED BY <1>1, <1>4, <2>1 DEF CounterInv
<1>6. debounceCounter = DebounceTimeMs
  <2>1. SUFFICES ASSUME debounceCounter < DebounceTimeMs PROVE FALSE
    BY <1>1, DebounceAssumption
  <2>2. n - debounceCounter - 1 \in 1 .. n /\ debounceCounter + 1 < n
    BY <1>1, <2>1, DebounceAssumption
  <2>3. samples[n - debounceCounter - 1] # switchLastRawState
    BY <1>1, <2>1, <2>2 DEF CounterInv
  <2> QED BY <1>4, <1>5, <2>2, <2>3
<1> QED BY <1>1, <1>3, <1>5, <1>6 DEF CounterInv

\* The switch is one of two things SysTick serves.
LEMMA PanelSwitch == [PanelNext]_panelVars => [SwitchTick \/ Bounce]_switchVars
BY DEF PanelNext, panelVars, SysTick

LEMMA SwitchInvariant == PanelSpec => []SwitchIInv
<1>1. PanelInit => SwitchIInv
  BY InitSwitch DEF PanelInit
<1>2. SwitchIInv /\ [PanelNext]_panelVars => SwitchIInv'
  BY NextSwitch, PanelSwitch
<1> QED BY <1>1, <1>2, PTL DEF PanelSpec

\* A contact that was sampled the same for the debounce time is reported
\* (app_switch.c:26-36).
THEOREM SwitchResponds == PanelSpec => []SwitchInv
BY SwitchInvariant, InvGivesResponsive, PTL

\* No burst of bounces toggles the switch (app_switch.c:23-36).
THEOREM NoBounceToggles == PanelSpec => NoFalseToggle
<1>1. SwitchIInv /\ [PanelNext]_panelVars
        => [switchStableState' # switchStableState
              => /\ Len(samples') = DebounceTimeMs + 1
                 /\ \A n \in 1 .. Len(samples') : samples'[n] = switchStableState']_switchVars
  <2> SUFFICES ASSUME SwitchIInv, [PanelNext]_panelVars, switchStableState' # switchStableState
               PROVE  /\ Len(samples') = DebounceTimeMs + 1
                      /\ \A n \in 1 .. Len(samples') : samples'[n] = switchStableState'
    OBVIOUS
  <2>1. TickSteady /\ Elapsed
    BY PanelSwitch DEF SwitchTick, TickChanged, TickSettled, TickSteady, Bounce, switchVars
  <2>2. /\ debounceCounter' = DebounceTimeMs /\ switchStableState' = switchLastRawState'
    BY <2>1 DEF TickSteady, Elapsed
  <2>3. /\ SwitchIInv' /\ CounterInv' /\ Len(samples') \in 1 .. DebounceTimeMs + 1
    BY NextSwitch, PanelSwitch DEF SwitchIInv, SwitchTypeOK
  <2>4. DebounceTimeMs < Len(samples')
    BY <2>2, <2>3 DEF CounterInv
  <2>5. Len(samples') = DebounceTimeMs + 1
    BY <2>3, <2>4, DebounceAssumption
  <2>6. \A k \in 1 .. DebounceTimeMs + 1 : samples'[k] = switchLastRawState'
    <3>1. Len(samples') - debounceCounter' = 1
      BY <2>2, <2>5, DebounceAssumption
    <3>2. \A k \in Len(samples') - debounceCounter' .. Len(samples') :
            samples'[k] = switchLastRawState'
      BY <2>3 DEF CounterInv
    <3> QED BY <2>5, <3>1, <3>2, Zenon
  <2> QED BY <2>2, <2>5, <2>6
<1> QED BY <1>1, SwitchInvariant, PTL DEF PanelSpec, NoFalseToggle

-----------------------------------------------------------------------------
(* The lamp. *)

LEMMA IntervalFacts ==
  /\ Interval \in Nat \ {0} /\ SlowInterval \in Nat \ {0} /\ Interval <= SlowInterval
  /\ FastInterval \in Nat \ {0} /\ FastInterval < SlowInterval
  /\ 0 \in 0 .. SlowInterval - 1 /\ 0 \in 0 .. SlowInterval
BY IntervalAssumption DEF Interval

LEMMA InitLamp == LampInit => LampIInv
<1> SUFFICES ASSUME LampInit PROVE LampIInv
  OBVIOUS
<1>1. LampTypeOK
  BY IntervalFacts DEF LampInit, LampTypeOK, Modes
<1>2. StaticHonest /\ TimerInv
  BY DEF LampInit, StaticHonest, TimerInv, Blinking
<1> QED BY <1>1, <1>2 DEF LampIInv

LEMMA TickLamp == LampIInv /\ LampTick => LampIInv'
<1> SUFFICES ASSUME LampIInv, LampTick PROVE LampIInv'
  OBVIOUS
<1>1. /\ mode' = mode /\ setting' = setting /\ modeBefore' = modeBefore
      /\ ticked' = (setting # "none") /\ (setting = "none" \/ ~ticked)
      /\ timeCounter' = IF ~Blinking THEN timeCounter ELSE IF Due THEN 0 ELSE timeCounter + 1
      /\ steady' = IF Blinking /\ ~Due THEN steady + 1 ELSE 0
      /\ lit' = (lit # (Blinking /\ Due))
  BY DEF LampTick
<1>2. /\ timeCounter \in 0 .. SlowInterval - 1 /\ steady \in 0 .. SlowInterval
      /\ LampTypeOK /\ StaticHonest /\ TimerInv
  BY DEF LampIInv, LampTypeOK
<1>3. Interval' = Interval /\ Blinking' = Blinking
  BY <1>1 DEF Interval, Blinking
<1>4. /\ timeCounter' \in 0 .. SlowInterval - 1
      /\ Blinking => timeCounter' < Interval \/ setting = "counter"
  BY <1>1, <1>2, IntervalFacts DEF Due
<1>5. CASE setting = "counter"
  <2>1. steady = 0
    BY <1>1, <1>2, <1>5 DEF TimerInv, OldTimer
  <2>2. steady' \in {0, 1} /\ steady' \in 0 .. SlowInterval
    BY <1>1, <2>1, IntervalFacts
  <2>3. LampTypeOK'
    BY <1>1, <1>2, <1>4, <2>2 DEF LampTypeOK
  <2>4. setting' = "counter" /\ ticked' /\ modeBefore' # mode'
    BY <1>1, <1>2, <1>5 DEF TimerInv
  <2> QED BY <2>2, <2>3, <2>4 DEF LampIInv, StaticHonest, TimerInv
<1>6. CASE setting # "counter"
  <2>1. Blinking => steady' \in {timeCounter', timeCounter' + 1}
    BY <1>1, <1>2, <1>6, IntervalFacts DEF TimerInv
  <2>2. steady' \in 0 .. SlowInterval
    BY <1>1, <1>2, <1>3, <1>4, <1>6, <2>1, IntervalFacts
  <2>3. LampTypeOK'
    BY <1>1, <1>2, <1>4, <2>2 DEF LampTypeOK
  <2>4. StaticHonest'
    BY <1>1, <1>2 DEF StaticHonest, Blinking, LampTypeOK
  <2>5. ~Blinking => timeCounter' = 0
    BY <1>1, <1>2, <1>6 DEF TimerInv
  <2>6. TimerInv'
    BY <1>1, <1>3, <1>4, <1>6, <2>1, <2>5 DEF TimerInv
  <2> QED BY <2>3, <2>4, <2>6 DEF LampIInv
<1> QED BY <1>5, <1>6

LEMMA SetModeLamp == LampIInv /\ SetMode => LampIInv'
<1> SUFFICES ASSUME LampIInv, SetMode PROVE LampIInv'
  OBVIOUS
<1>1. LampTypeOK /\ StaticHonest /\ TimerInv
  BY DEF LampIInv
<1>2. CASE StoreMode
  <2>1. LampTypeOK' /\ setting' = "counter" /\ steady' = 0 /\ modeBefore' # mode'
    BY <1>1, <1>2, IntervalFacts DEF StoreMode, LampTypeOK
  <2>2. /\ mode \in {"OFF", "ON"} => timeCounter = 0
        /\ mode = "BLINK_FAST" => timeCounter < FastInterval
    BY <1>1, <1>2 DEF StoreMode, TimerInv, Blinking, Interval
  <2>3. OldTimer'
    BY <1>2, <2>1, <2>2 DEF StoreMode, OldTimer
  <2> QED BY <2>1, <2>3 DEF LampIInv, StaticHonest, TimerInv
<1>3. CASE StoreCounter
  <2>1. Interval' = Interval /\ Blinking' = Blinking
    BY <1>3 DEF StoreCounter, Interval, Blinking
  <2> QED BY <1>1, <1>3, <2>1, IntervalFacts
          DEF StoreCounter, TimerRestarted, LampIInv, LampTypeOK, StaticHonest, TimerInv
<1>4. CASE StorePin
  <2>1. Interval' = Interval /\ Blinking' = Blinking
    BY <1>4 DEF StorePin, Interval, Blinking
  <2>2. lit' \in BOOLEAN /\ (mode = "OFF" => ~lit') /\ (mode = "ON" => lit')
    BY <1>1, <1>4 DEF StorePin, LampTypeOK
  <2> QED BY <1>1, <1>4, <2>1, <2>2
          DEF StorePin, LampIInv, LampTypeOK, StaticHonest, TimerInv
<1> QED BY <1>2, <1>3, <1>4 DEF SetMode

LEMMA PanelLamp == [PanelNext]_panelVars => [SetMode \/ LampTick]_lampVars
BY DEF PanelNext, panelVars, SysTick

LEMMA LampInvariant == PanelSpec => []LampIInv
<1>1. PanelInit => LampIInv
  BY InitLamp DEF PanelInit
<1>2. LampIInv /\ UNCHANGED lampVars => LampIInv'
  BY DEF lampVars, LampIInv, LampTypeOK, StaticHonest, TimerInv, OldTimer, Blinking, Interval
<1>3. LampIInv /\ [PanelNext]_panelVars => LampIInv'
  BY <1>2, TickLamp, SetModeLamp, PanelLamp
<1> QED BY <1>1, <1>3, PTL DEF PanelSpec

\* A lamp that does not blink shows its mode, whatever tick came between the
\* stores that set it (app_lamp.c:26-62).
THEOREM LampShowsMode == PanelSpec => []LampInv
<1>1. LampIInv => LampInv
  BY DEF LampIInv, LampInv
<1> QED BY <1>1, LampInvariant, PTL

\* A blinking lamp changes after its interval or one tick later, earlier only on
\* the tick that finds the counter of slow blinking in a lamp just set to blink
\* fast (app_lamp.c:26-62).
THEOREM BlinksEvenly == PanelSpec => EvenBlinking
<1>1. LampIInv /\ [PanelNext]_panelVars
        => [LampTick /\ Blinking /\ lit' # lit
              => steady + 1 \in {Interval, Interval + 1} \/ StaleSlowCounter]_lampVars
  <2> SUFFICES ASSUME LampIInv, LampTick, Blinking, lit' # lit
               PROVE  steady + 1 \in {Interval, Interval + 1} \/ StaleSlowCounter
    OBVIOUS
  <2>1. lit \in BOOLEAN /\ timeCounter \in Nat /\ steady \in Nat /\ modeBefore \in Modes
    BY DEF LampIInv, LampTypeOK
  <2>2. Due /\ (setting = "counter" => ~ticked)
    BY <2>1 DEF LampTick
  <2>3. CASE setting # "counter"
    <3>1. timeCounter < Interval /\ steady \in {timeCounter, timeCounter + 1}
      BY <2>3 DEF LampIInv, TimerInv
    <3> QED BY <2>1, <2>2, <3>1, IntervalFacts DEF Due
  <2>4. CASE setting = "counter"
    <3>1. modeBefore # mode /\ OldTimer
      BY <2>2, <2>4 DEF LampIInv, TimerInv
    <3>2. CASE modeBefore \in {"OFF", "ON"}
      BY <2>1, <2>2, <3>1, <3>2, IntervalFacts DEF Due, OldTimer
    <3>3. CASE modeBefore = "BLINK_FAST"
      <4>1. Interval = SlowInterval
        BY <3>1, <3>3 DEF Interval
      <4> QED BY <2>1, <2>2, <3>1, <3>3, <4>1, IntervalFacts DEF Due, OldTimer
    <3>4. CASE modeBefore = "BLINK_SLOW"
      BY <2>4, <3>1, <3>4 DEF Blinking, StaleSlowCounter
    <3> QED BY <2>1, <3>2, <3>3, <3>4 DEF Modes
  <2> QED BY <2>3, <2>4
<1> QED BY <1>1, LampInvariant, PTL DEF PanelSpec, EvenBlinking
=============================================================================
