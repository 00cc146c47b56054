--------------------------- MODULE SettingsProofs ---------------------------
(***************************************************************************)
(* The settings, for every number of payload words.  SettingsIInv is       *)
(* inductive; each property proved here follows from it.                   *)
(***************************************************************************)
EXTENDS SettingsProperties, TLAPS

-----------------------------------------------------------------------------
(* Records. *)

\* The places of a record: magic word, payload, CRC.
LEMMA WordFacts ==
  /\ 0 \in Words /\ CrcWord \in Words /\ CrcWord \in Nat /\ CrcWord # 0
  /\ 0 \in 0 .. CrcWord + 1
  /\ \A w \in 1 .. PayloadWords : w \in Words /\ w # 0 /\ w # CrcWord
  /\ \A w \in Words : w \in Nat /\ (w = 0 \/ w = CrcWord \/ w \in 1 .. PayloadWords)
BY SettingsAssumption DEF Words, CrcWord

\* A record verifies, gives its payload back, and none of its words is erased
\* or garbage.
LEMMA RecordFacts ==
  ASSUME NEW c \in Payloads
  PROVE  /\ Record(c) \in [Words -> Values \cup Payloads \cup {Magic}]
         /\ Record(c)[0] = Magic /\ Record(c)[CrcWord] = c
         /\ \A w \in 1 .. PayloadWords : Record(c)[w] = c[w]
         /\ \A w \in Words : Record(c)[w] \notin {Erased, Garbage}
         /\ PayloadOf(Record(c)) = c
         /\ SectorOK(Record(c))
<1>1. /\ Record(c)[0] = Magic /\ Record(c)[CrcWord] = c
      /\ \A w \in 1 .. PayloadWords : Record(c)[w] = c[w] /\ c[w] \in Values
  <2>1. /\ Record(c)[0] = Magic /\ Record(c)[CrcWord] = c
        /\ \A w \in 1 .. PayloadWords : Record(c)[w] = c[w]
    BY WordFacts DEF Record
  <2> QED BY <2>1 DEF Payloads
<1>2. Record(c) \in [Words -> Values \cup Payloads \cup {Magic}]
  BY <1>1, WordFacts DEF Record
<1>3. \A w \in Words : Record(c)[w] \notin {Erased, Garbage}
  BY <1>1, WordFacts, SettingsAssumption
<1>4. PayloadOf(Record(c)) = c
  BY <1>1 DEF PayloadOf, Payloads
<1> QED BY <1>1, <1>2, <1>3, <1>4 DEF SectorOK

\* What a boot accepts is a whole record, and every whole record is accepted.
LEMMA VerifiedIsRecord ==
  ASSUME NEW s, SectorOK(s)
  PROVE  /\ Verified(s) => PayloadOf(s) \in Payloads /\ s = Record(PayloadOf(s))
         /\ (\E c \in Payloads : s = Record(c)) => Verified(s)
<1>1. ASSUME Verified(s) PROVE PayloadOf(s) \in Payloads /\ s = Record(PayloadOf(s))
  <2>1. PayloadOf(s) \in [1 .. PayloadWords -> Values \cup {Erased, Garbage}]
    BY DEF PayloadOf, SectorOK
  <2>2. PayloadOf(s) \in Payloads
    BY <1>1, <2>1, SettingsAssumption DEF Verified, SectorOK
  <2>3. \A w \in Words : s[w] = Record(PayloadOf(s))[w]
    BY <1>1, <2>2, RecordFacts, WordFacts DEF Verified, PayloadOf
  <2>4. Record(PayloadOf(s)) \in [Words -> Values \cup Payloads \cup {Magic}]
    BY <2>2, RecordFacts
  <2> QED BY <2>2, <2>3, <2>4 DEF SectorOK
<1>2. ASSUME NEW c \in Payloads, s = Record(c) PROVE Verified(s)
  BY <1>2, RecordFacts DEF Verified
<1> QED BY <1>1, <1>2

-----------------------------------------------------------------------------
(* What an interrupted operation leaves. *)

\* Erasing in vain keeps the words where they belong, and makes no new record.
LEMMA HalfErasedFacts ==
  ASSUME NEW s, SectorOK(s), NEW t \in HalfErased(s)
  PROVE  /\ SectorOK(t)
         /\ \A c \in Payloads : t = Record(c) => s = t
<1>1. t \in [Words -> Values \cup Payloads \cup {Magic, Erased, Garbage}]
  BY DEF HalfErased, SectorOK
<1>2. \A w \in Words : t[w] \in {s[w], Erased, Garbage}
  BY DEF HalfErased
<1>3. SectorOK(t)
  BY <1>1, <1>2, WordFacts DEF SectorOK
<1>4. ASSUME NEW c \in Payloads, t = Record(c) PROVE s = t
  BY <1>1, <1>2, <1>4, RecordFacts DEF SectorOK
<1> QED BY <1>3, <1>4

\* A word of the record, nothing or garbage may stand where a word is programmed.
LEMMA WordStored ==
  ASSUME NEW s, SectorOK(s), NEW c \in Payloads, NEW w \in Words,
         NEW v \in {Erased, Record(c)[w], Garbage}
  PROVE  SectorOK([s EXCEPT ![w] = v])
<1> DEFINE t == [s EXCEPT ![w] = v]
<1>1. v \in Values \cup Payloads \cup {Magic, Erased, Garbage}
  BY RecordFacts
<1>2. t \in [Words -> Values \cup Payloads \cup {Magic, Erased, Garbage}]
  BY <1>1 DEF SectorOK
<1>3. \A x \in Words : t[x] = IF x = w THEN v ELSE s[x]
  BY DEF SectorOK
<1>4. /\ w = 0 => v \in {Magic, Erased, Garbage}
      /\ w \in 1 .. PayloadWords => v \in Values \cup {Erased, Garbage}
      /\ w = CrcWord => v \in Payloads \cup {Erased, Garbage}
  <2>1. \A x \in 1 .. PayloadWords : c[x] \in Values
    BY DEF Payloads
  <2> QED BY <2>1, RecordFacts
<1> QED BY <1>2, <1>3, <1>4, WordFacts DEF SectorOK

LEMMA ErasedOK == SectorOK([w \in Words |-> Erased])
BY WordFacts DEF SectorOK

-----------------------------------------------------------------------------
(* The inductive invariant. *)

\* App_Settings_Init on any sector: what it accepts comes into use, and else the
\* defaults are written.
LEMMA LoadStep ==
  ASSUME NEW s, SectorOK(s), SettingsTypeOK, Load(s)
  PROVE  /\ SettingsIInv'
         /\ IF Verified(s) THEN activeSettings' = PayloadOf(s) /\ place' = "idle"
                           ELSE activeSettings' = Default /\ place' = "erase"
<1>1. sector' = s
  BY DEF Load
<1>2. CASE Verified(s)
  <2>1. PayloadOf(s) \in Payloads
    BY <1>2, VerifiedIsRecord
  <2>2. /\ activeSettings' = PayloadOf(s) /\ place' = "idle" /\ locked' = TRUE
        /\ dataToWrite' = dataToWrite /\ i' = i
    BY <1>2 DEF Load
  <2>3. SettingsTypeOK'
    BY <1>1, <2>1, <2>2 DEF SettingsTypeOK, SectorOK
  <2>4. ProgressInv' /\ InUseInv'
    BY <1>1, <2>2 DEF ProgressInv, InUseInv
  <2> QED BY <1>1, <1>2, <2>2, <2>3, <2>4 DEF SettingsIInv
<1>3. CASE ~Verified(s)
  <2>1. /\ activeSettings' = Default /\ place' = "erase" /\ locked' = FALSE
        /\ dataToWrite' = Default /\ i' = 0
    BY <1>3 DEF Load, BeginSave
  <2>2. SettingsTypeOK'
    BY <1>1, <2>1, WordFacts, SettingsAssumption DEF SettingsTypeOK, SectorOK
  <2>3. ~Complete'
    BY <1>1, <1>3, VerifiedIsRecord DEF Complete
  <2>4. ProgressInv' /\ InUseInv'
    BY <2>1, <2>3 DEF ProgressInv, InUseInv
  <2> QED BY <1>1, <1>3, <2>1, <2>2, <2>4 DEF SettingsIInv
<1> QED BY <1>2, <1>3

\* What the supply leaves behind, wherever it fails.
LEMMA RestartSector ==
  ASSUME SettingsIInv, Restart
  PROVE  \E s : /\ SectorOK(s) /\ Load(s)
                /\ place \in {"idle", "adopt"} => s = sector
                /\ place = "erase" => s \in HalfErased(sector)
                /\ place = "program" => s \in HalfProgrammed(sector)
<1>1. PICK s \in CASE place = "erase"   -> HalfErased(sector)
                   [] place = "program" -> HalfProgrammed(sector)
                   [] OTHER             -> {sector} : Load(s)
  BY DEF Restart
<1>2. place \in {"idle", "erase", "program", "adopt"} /\ SectorOK(sector)
  BY DEF SettingsIInv, SettingsTypeOK
<1>3. CASE place = "erase"
  BY <1>1, <1>2, <1>3, HalfErasedFacts
<1>4. CASE place = "program"
  <2>1. i \in Words /\ dataToWrite \in Payloads
    BY <1>4 DEF SettingsIInv, SettingsTypeOK
  <2> QED BY <1>1, <1>2, <1>4, <2>1, WordStored DEF HalfProgrammed
<1>5. CASE place \in {"idle", "adopt"}
  BY <1>1, <1>2, <1>5
<1> QED BY <1>2, <1>3, <1>4, <1>5

LEMMA InitSettings == SettingsInit => SettingsIInv
<1> SUFFICES ASSUME SettingsInit PROVE SettingsIInv
  OBVIOUS
<1>1. SectorOK(sector)
  BY ErasedOK, RecordFacts DEF SettingsInit
<1>2. CASE Verified(sector)
  <2>1. activeSettings = PayloadOf(sector) /\ place = "idle" /\ locked = TRUE
        /\ dataToWrite = Default /\ i = 0
    BY <1>2 DEF SettingsInit
  <2>2. SettingsTypeOK
    BY <1>1, <1>2, <2>1, VerifiedIsRecord, WordFacts, SettingsAssumption
       DEF SettingsTypeOK, SectorOK
  <2> QED BY <1>1, <2>1, <2>2 DEF SettingsIInv, ProgressInv, InUseInv
<1>3. CASE ~Verified(sector)
  <2>1. activeSettings = Default /\ place = "erase" /\ locked = FALSE
        /\ dataToWrite = Default /\ i = 0
    BY <1>3 DEF SettingsInit
  <2>2. SettingsTypeOK
    BY <1>1, <2>1, WordFacts, SettingsAssumption DEF SettingsTypeOK, SectorOK
  <2>3. ~Complete
    BY <1>1, <1>3, VerifiedIsRecord DEF Complete
  <2> QED BY <1>1, <2>1, <2>2, <2>3 DEF SettingsIInv, ProgressInv, InUseInv
<1> QED BY <1>2, <1>3

\* A word of a save.
LEMMA ProgramStep ==
  ASSUME SettingsIInv, ProgramWord
  PROVE  /\ SettingsIInv'
         /\ place' = IF i = CrcWord THEN "adopt" ELSE "program"
<1>1. /\ place = "program" /\ i \in Words /\ i \in Nat /\ dataToWrite \in Payloads
      /\ SectorOK(sector)
  BY WordFacts DEF ProgramWord, SettingsIInv, SettingsTypeOK
<1>2. /\ sector' = [sector EXCEPT ![i] = Record(dataToWrite)[i]]
      /\ i' = i + 1 /\ dataToWrite' = dataToWrite /\ locked' = locked
      /\ activeSettings' = activeSettings
  BY DEF ProgramWord
<1>3. place' = IF i = CrcWord THEN "adopt" ELSE "program"
  BY <1>1, <1>2, WordFacts DEF ProgramWord, WordsToWrite
<1>4. SectorOK(sector)'
  BY <1>1, <1>2, WordStored
<1>5. i' \in 0 .. CrcWord + 1 /\ (place' = "program" => i' \in Words)
  BY <1>1, <1>2, <1>3, WordFacts DEF Words
<1>6. SettingsTypeOK'
  BY <1>2, <1>3, <1>4, <1>5 DEF SettingsIInv, SettingsTypeOK, SectorOK
<1>7. \A w \in Words : sector'[w] = IF w < i' THEN Record(dataToWrite)[w] ELSE Erased
  <2>1. \A w \in Words : sector'[w] = IF w = i THEN Record(dataToWrite)[w] ELSE sector[w]
    BY <1>1, <1>2 DEF SectorOK
  <2>2. \A w \in Words : sector[w] = IF w < i THEN Record(dataToWrite)[w] ELSE Erased
    BY <1>1 DEF SettingsIInv, ProgressInv
  <2>3. \A w \in Words : w < i' <=> w < i \/ w = i
    BY <1>1, <1>2, WordFacts
  <2> QED BY <2>1, <2>2, <2>3
<1>8. ASSUME place' = "adopt" PROVE sector' = Record(dataToWrite)'
  <2>1. \A w \in Words : w < i'
    BY <1>2, <1>3, <1>8, WordFacts DEF Words
  <2>2. \A w \in Words : sector'[w] = Record(dataToWrite)[w]
    BY <1>7, <2>1
  <2>3. Record(dataToWrite) \in [Words -> Values \cup Payloads \cup {Magic}]
    BY <1>1, RecordFacts
  <2>4. sector' = Record(dataToWrite)
    BY <1>4, <2>2, <2>3 DEF SectorOK
  <2>5. Record(dataToWrite)' = Record(dataToWrite)
    BY <1>2 DEF Record
  <2> QED BY <2>4, <2>5
<1>9. ProgressInv' /\ InUseInv'
  <2>1. Record(dataToWrite)' = Record(dataToWrite)
    BY <1>2 DEF Record
  <2>2. locked = FALSE
    BY <1>1 DEF SettingsIInv, ProgressInv, SettingsTypeOK
  <2> QED BY <1>2, <1>3, <1>7, <1>8, <2>1, <2>2 DEF ProgressInv, InUseInv
<1> QED BY <1>3, <1>4, <1>6, <1>9 DEF SettingsIInv

\* While the CRC word is not programmed, no boot accepts the sector.
LEMMA NotYetComplete ==
  ASSUME SettingsIInv, place = "program"
  PROVE  ~Complete
<1>1. sector[CrcWord] = Erased
  <2>1. i \in Words /\ ~(CrcWord < i)
    BY WordFacts DEF SettingsIInv, SettingsTypeOK, Words
  <2> QED BY <2>1, WordFacts DEF SettingsIInv, ProgressInv
<1> QED BY <1>1, RecordFacts, WordFacts DEF Complete

\* A word that could not be programmed leaves a sector no boot accepts.
LEMMA FailedWord ==
  ASSUME SettingsIInv, ProgramFails
  PROVE  SectorOK(sector)' /\ ~Complete'
<1>1. i \in Words /\ dataToWrite \in Payloads /\ SectorOK(sector)
  BY DEF ProgramFails, SettingsIInv, SettingsTypeOK
<1>2. PICK v \in {Erased, Garbage} : sector' = [sector EXCEPT ![i] = v]
  BY DEF ProgramFails
<1>3. SectorOK(sector)' /\ sector'[i] = v
  BY <1>1, <1>2, WordStored DEF SectorOK
<1> QED BY <1>1, <1>3, RecordFacts DEF Complete

LEMMA NextSettings == SettingsIInv /\ [SettingsNext]_settingsVars => SettingsIInv'
<1> SUFFICES ASSUME SettingsIInv, [SettingsNext]_settingsVars PROVE SettingsIInv'
  OBVIOUS
<1>0. SettingsTypeOK /\ SectorOK(sector) /\ ProgressInv /\ InUseInv
  BY DEF SettingsIInv
<1>1. ASSUME NEW c \in Payloads, SaveRequest(c) PROVE SettingsIInv'
  <2>1. SettingsTypeOK'
    BY <1>0, <1>1, WordFacts DEF SaveRequest, BeginSave, SettingsTypeOK
  <2> QED BY <1>0, <1>1, <2>1
          DEF SaveRequest, BeginSave, SettingsIInv, ProgressInv, InUseInv, Complete
<1>2. CASE EraseSector
  <2>1. SectorOK(sector)'
    BY <1>2, ErasedOK DEF EraseSector
  <2>2. i = 0
    BY <1>0, <1>2 DEF EraseSector, ProgressInv
  <2>3. SettingsTypeOK'
    BY <1>0, <1>2, <2>1, <2>2, WordFacts DEF EraseSector, SettingsTypeOK, SectorOK
  <2>4. \A w \in Words : ~(w < i) /\ sector'[w] = Erased
    BY <1>2, <2>2, WordFacts DEF EraseSector
  <2> QED BY <1>0, <1>2, <2>1, <2>3, <2>4
          DEF EraseSector, SettingsIInv, ProgressInv, InUseInv
<1>3. CASE EraseFails
  <2>1. SectorOK(sector)' /\ (Complete' => sector' = sector)
    BY <1>0, <1>3, HalfErasedFacts DEF EraseFails, Complete
  <2>2. SettingsTypeOK'
    BY <1>0, <1>3, <2>1 DEF EraseFails, Fail, SettingsTypeOK, SectorOK
  <2> QED BY <1>0, <1>3, <2>1, <2>2
          DEF EraseFails, Fail, SettingsIInv, ProgressInv, InUseInv, Complete
<1>4. CASE ProgramWord
  BY <1>4, ProgramStep
<1>5. CASE ProgramFails
  <2>1. SectorOK(sector)' /\ ~Complete'
    BY <1>5, FailedWord
  <2>2. SettingsTypeOK'
    BY <1>0, <1>5, <2>1 DEF ProgramFails, Fail, SettingsTypeOK, SectorOK
  <2> QED BY <1>5, <2>1, <2>2
          DEF ProgramFails, Fail, SettingsIInv, ProgressInv, InUseInv
<1>6. CASE Adopt
  <2>1. SettingsTypeOK'
    BY <1>0, <1>6 DEF Adopt, SettingsTypeOK
  <2>2. PayloadOf(sector') = activeSettings'
    BY <1>0, <1>6, RecordFacts DEF Adopt, ProgressInv, SettingsTypeOK
  <2> QED BY <1>0, <1>6, <2>1, <2>2
          DEF Adopt, SettingsIInv, ProgressInv, InUseInv, PayloadOf
<1>7. CASE Restart
  BY <1>0, <1>7, RestartSector, LoadStep
<1>8. CASE UNCHANGED settingsVars
  BY <1>0, <1>8 DEF settingsVars, SettingsIInv, SettingsTypeOK, ProgressInv, InUseInv, Complete
<1> QED BY <1>1, <1>2, <1>3, <1>4, <1>5, <1>6, <1>7, <1>8 DEF SettingsNext

\* SettingsIInv holds whatever fails and whenever the supply does.
THEOREM SettingsInvariant == SettingsSpec => []SettingsIInv
BY InitSettings, NextSettings, PTL DEF SettingsSpec

-----------------------------------------------------------------------------
(* The properties. *)

\* Between saves the settings read back are those the next boot loads, and the
\* flash is locked (app_settings.c:98-154, app_modbus.c:172).
THEOREM ReadbackIsHonest == SettingsSpec => []SettingsInv
<1>1. SettingsIInv => SettingsInv
  BY DEF SettingsIInv, SettingsInv, ProgressInv, InUseInv, ReadbackHonest
<1> QED BY <1>1, SettingsInvariant, PTL

\* What a restart loads, case by case.
LEMMA RestartLoads ==
  ASSUME SettingsIInv, Restart
  PROVE  \/ ~Complete' /\ activeSettings' = Default /\ place' = "erase"
         \/ /\ Complete' /\ PayloadOf(sector') = activeSettings' /\ place' = "idle"
            /\ activeSettings' \in Payloads
            /\ \/ /\ sector' = sector
                  /\ activeSettings' = IF place = "adopt" THEN dataToWrite ELSE activeSettings
               \/ place = "program" /\ activeSettings' = dataToWrite
<1>1. PICK s : /\ SectorOK(s) /\ Load(s)
               /\ place \in {"idle", "adopt"} => s = sector
               /\ place = "erase" => s \in HalfErased(sector)
               /\ place = "program" => s \in HalfProgrammed(sector)
  BY RestartSector
<1>2. sector' = s
  BY <1>1 DEF Load
<1>3. SettingsTypeOK /\ SectorOK(sector) /\ ProgressInv /\ InUseInv
  BY DEF SettingsIInv
<1>4. CASE ~Verified(s)
  BY <1>1, <1>2, <1>3, <1>4, LoadStep, VerifiedIsRecord DEF Complete
<1>5. CASE Verified(s)
  <2>1. /\ activeSettings' = PayloadOf(s) /\ place' = "idle"
        /\ PayloadOf(s) \in Payloads /\ s = Record(PayloadOf(s))
    BY <1>1, <1>3, <1>5, LoadStep, VerifiedIsRecord
  <2>2. CASE place \in {"idle", "erase"}
    <3>1. s = sector
      BY <1>1, <1>3, <2>1, <2>2, HalfErasedFacts
    <3>2. Complete
      BY <2>1, <3>1 DEF Complete
    <3>3. activeSettings = PayloadOf(sector)
      BY <1>3, <2>2, <3>2 DEF InUseInv
    <3> QED BY <1>2, <2>1, <2>2, <3>1, <3>2, <3>3 DEF Complete
  <2>3. CASE place = "adopt"
    <3>1. s = sector /\ sector = Record(dataToWrite) /\ dataToWrite \in Payloads
      BY <1>1, <1>3, <2>3 DEF ProgressInv, SettingsTypeOK
    <3> QED BY <1>2, <2>1, <2>3, <3>1, RecordFacts DEF Complete
  <2>4. CASE place = "program"
    <3>1. i \in Words /\ dataToWrite \in Payloads
      BY <1>3, <2>4 DEF SettingsTypeOK
    <3>2. PICK v \in {Erased, Record(dataToWrite)[i], Garbage} : s = [sector EXCEPT ![i] = v]
      BY <1>1, <2>4 DEF HalfProgrammed
    <3>3. s[CrcWord] = PayloadOf(s) /\ PayloadOf(s) \notin {Erased, Garbage}
      BY <1>5, <2>1, SettingsAssumption DEF Verified
    <3>4. i = CrcWord
      <4>1. sector[CrcWord] = Erased
        <5>1. ~(CrcWord < i)
          BY <3>1, WordFacts DEF Words
        <5> QED BY <1>3, <2>4, <5>1, WordFacts DEF ProgressInv
      <4> QED BY <1>3, <3>1, <3>2, <3>3, <4>1, WordFacts DEF SectorOK
    <3>5. s[CrcWord] = v
      BY <1>3, <3>1, <3>2, <3>4 DEF SectorOK
    <3>6. v = dataToWrite
      BY <3>1, <3>2, <3>3, <3>4, <3>5, RecordFacts
    <3> QED BY <1>2, <2>1, <2>4, <3>3, <3>5, <3>6 DEF Complete
  <2> QED BY <1>3, <2>2, <2>3, <2>4 DEF SettingsTypeOK
<1> QED BY <1>4, <1>5

\* A restart loads what was in use, what was being saved or the defaults, never
\* a mixture (app_settings.c:68-76).
THEOREM RestartsWhole == SettingsSpec => NeverTorn
<1>1. SettingsIInv /\ [SettingsNext]_settingsVars
        => [Restart => activeSettings' \in {activeSettings, dataToWrite, Default}]_settingsVars
  BY RestartLoads
<1> QED BY <1>1, SettingsInvariant, PTL DEF SettingsSpec, NeverTorn

-----------------------------------------------------------------------------
(* The refinement of SettingsStore. *)

\* A save as the store sees it.
LEMMA SaveImplements ==
  ASSUME SettingsIInv, ProgramWord
  PROVE  Store!Save \/ UNCHANGED Store!storeVars
<1>1. ~Complete /\ place = "program" /\ dataToWrite \in Payloads
      /\ dataToWrite' = dataToWrite /\ activeSettings' = activeSettings
  BY NotYetComplete DEF ProgramWord, SettingsIInv, SettingsTypeOK
<1>2. SettingsIInv' /\ place' = IF i = CrcWord THEN "adopt" ELSE "program"
  BY ProgramStep
<1>3. CASE place' = "adopt"
  <2>1. sector' = Record(dataToWrite)
    <3>1. Record(dataToWrite)' = Record(dataToWrite)
      BY <1>1 DEF Record
    <3> QED BY <1>2, <1>3, <3>1 DEF SettingsIInv, ProgressInv
  <2>2. Complete' /\ PayloadOf(sector') = dataToWrite
    BY <1>1, <2>1, RecordFacts DEF Complete
  <2>3. PayloadOf(sector)' = PayloadOf(sector')
    BY DEF PayloadOf
  <2> QED BY <1>1, <1>3, <2>2, <2>3 DEF Store!Save
<1>4. CASE place' = "program"
  <2>1. ~Complete'
    <3>1. SettingsIInv' /\ place' = "program"
      BY <1>2, <1>4
    <3>2. sector'[CrcWord] = Erased
      <4>1. i' \in Words /\ ~(CrcWord < i')
        BY <3>1, WordFacts DEF SettingsIInv, SettingsTypeOK, Words
      <4> QED BY <3>1, <4>1, WordFacts DEF SettingsIInv, ProgressInv
    <3> QED BY <3>2, RecordFacts, WordFacts DEF Complete
  <2> QED BY <1>1, <1>4, <2>1 DEF Store!storeVars
<1> QED BY <1>2, <1>3, <1>4

LEMMA RestartImplements ==
  ASSUME SettingsIInv, Restart
  PROVE  Store!Save \/ Store!Restart
<1> DEFINE Stored  == IF Complete THEN PayloadOf(sector) ELSE Garbage
           Adopted == IF place = "adopt" THEN dataToWrite ELSE activeSettings
<1>1. CASE ~Complete'
  BY <1>1, RestartLoads DEF Store!Restart, Store!OrFactory
<1>2. CASE Complete'
  <2>1. /\ PayloadOf(sector') = activeSettings' /\ place' = "idle"
        /\ activeSettings' \in Payloads
    BY <1>2, RestartLoads
  <2>2. Stored' = activeSettings' /\ Adopted' = activeSettings'
    BY <1>2, <2>1 DEF PayloadOf
  <2>3. CASE sector' = sector
    <3>1. Stored = activeSettings' /\ activeSettings' # Garbage
      BY <1>2, <2>1, <2>3, SettingsAssumption DEF Complete
    <3> QED BY <2>2, <3>1 DEF Store!Restart, Store!OrFactory
  <2>4. CASE activeSettings' = dataToWrite
    BY <2>1, <2>2, <2>4 DEF Store!Save
  <2> QED BY <1>2, <2>3, <2>4, RestartLoads
<1> QED BY <1>1, <1>2

\* Word by word and with failures, a configuration is stored and adopted as a
\* whole or not at all (app_settings.c:59-154).
THEOREM StoreRefined == SettingsSpec => ImplementsStore
<1>1. SettingsInit => Store!StoreInit
  <2> SUFFICES ASSUME SettingsInit PROVE Store!StoreInit
    OBVIOUS
  <2>1. SectorOK(sector)
    BY InitSettings DEF SettingsIInv
  <2>2. CASE Verified(sector)
    BY <2>1, <2>2, VerifiedIsRecord, SettingsAssumption
       DEF SettingsInit, Complete, Store!StoreInit, Store!OrFactory
  <2>3. CASE ~Verified(sector)
    BY <2>1, <2>3, VerifiedIsRecord
       DEF SettingsInit, Complete, Store!StoreInit, Store!OrFactory
  <2> QED BY <2>2, <2>3
<1>2. SettingsIInv /\ [SettingsNext]_settingsVars => [Store!StoreNext]_(Store!storeVars)
  <2> SUFFICES ASSUME SettingsIInv, [SettingsNext]_settingsVars
               PROVE  Store!StoreNext \/ UNCHANGED Store!storeVars
    OBVIOUS
  <2>1. ASSUME NEW c \in Payloads, SaveRequest(c) PROVE UNCHANGED Store!storeVars
    BY <2>1 DEF SaveRequest, BeginSave, Complete, PayloadOf, Store!storeVars
  <2>2. CASE EraseSector
    <3>1. ~Complete'
      BY <2>2, RecordFacts, WordFacts DEF EraseSector, Complete
    <3> QED BY <2>2, <3>1 DEF EraseSector, Store!StoreNext, Store!Lose
  <2>3. CASE EraseFails
    <3>1. Complete' => sector' = sector
      BY <2>3, HalfErasedFacts DEF EraseFails, Complete, SettingsIInv
    <3>2. CASE Complete'
      BY <2>3, <3>1, <3>2 DEF EraseFails, Fail, Complete, PayloadOf, Store!storeVars
    <3>3. CASE ~Complete'
      BY <2>3, <3>3 DEF EraseFails, Fail, Store!StoreNext, Store!Lose
    <3> QED BY <3>2, <3>3
  <2>4. CASE ProgramWord
    BY <2>4, SaveImplements DEF Store!StoreNext
  <2>5. CASE ProgramFails
    BY <2>5, NotYetComplete, FailedWord DEF ProgramFails, Fail, Store!storeVars
  <2>6. CASE Adopt
    BY <2>6 DEF Adopt, Complete, PayloadOf, Store!storeVars
  <2>7. CASE Restart
    BY <2>7, RestartImplements DEF Store!StoreNext
  <2>8. CASE UNCHANGED settingsVars
    BY <2>8 DEF settingsVars, Complete, PayloadOf, Store!storeVars
  <2> QED BY <2>1, <2>2, <2>3, <2>4, <2>5, <2>6, <2>7, <2>8 DEF SettingsNext
<1> QED BY <1>1, <1>2, SettingsInvariant, PTL DEF SettingsSpec, ImplementsStore, Store!StoreSpec
=============================================================================
