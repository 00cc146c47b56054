------------------------------ MODULE Settings ------------------------------
(***************************************************************************)
(* The settings in flash sector 11: src/src/app_settings.c, word by word.  *)
(*                                                                         *)
(* Erasing and programming may fail, and the supply may fail during both.  *)
(* An interrupted erase leaves every word as it was, erased or garbage; an *)
(* interrupted program leaves one word erased, programmed or garbage; one  *)
(* that reports an error has not programmed its word (the error flags say  *)
(* that the operation was not carried out).  The CRC of a payload is the   *)
(* payload itself: the model assumes that no torn record collides with its *)
(* CRC-32, and that an erased or garbage word is not the CRC of what is in *)
(* front of it.                                                            *)
(***************************************************************************)
EXTENDS Naturals

CONSTANTS
  PayloadWords,            \* words between the magic word and the CRC (code: 10)
  Values,                  \* what a payload word of a configuration may hold
  Magic, Erased, Garbage,  \* other contents of a word
  Default                  \* defaultSettings

Payloads == [1 .. PayloadWords -> Values]

ASSUME SettingsAssumption ==
  /\ PayloadWords \in Nat \ {0} /\ Default \in Payloads
  /\ Magic \notin {Erased, Garbage} /\ Erased # Garbage
  /\ {Magic, Erased, Garbage} \cap (Values \cup Payloads) = {}
  /\ {Erased, Garbage} \cap [1 .. PayloadWords -> Values \cup {Erased, Garbage}] = {}

VARIABLES
  sector,          \* the words of the record at FLASH_SETTINGS_ADDR
  activeSettings,  \* the RAM copy
  dataToWrite,     \* the configuration App_Settings_Save is writing
  place,           \* in App_Settings_Save: "erase", "program", "adopt"; or "idle"
  i,               \* the next word to program
  locked           \* the flash control register

settingsVars == <<sector, activeSettings, dataToWrite, place, i, locked>>

CrcWord == PayloadWords + 1
Words   == 0 .. CrcWord

\* The record of configuration c: magic word, payload, CRC.
Record(c) == [w \in Words |-> CASE w = 0 -> Magic [] w = CrcWord -> c [] OTHER -> c[w]]

PayloadOf(s) == [w \in 1 .. PayloadWords |-> s[w]]

\* Mutant: the magic word alone is trusted.
MagicOnly(s) == s[0] = Magic
Verified(s) == s[0] = Magic /\ s[CrcWord] = PayloadOf(s)

-----------------------------------------------------------------------------

\* App_Settings_Save up to the erase command.
BeginSave(c) ==
  /\ place' = "erase" /\ dataToWrite' = c /\ i' = 0 /\ locked' = FALSE

\* App_Settings_Init on a sector that holds s.
Load(s) ==
  /\ sector' = s
  /\ IF Verified(s)
       THEN /\ activeSettings' = PayloadOf(s)
            /\ place' = "idle" /\ locked' = TRUE /\ UNCHANGED <<dataToWrite, i>>
       ELSE activeSettings' = Default /\ BeginSave(Default)

\* A sector an operation was interrupted on.
HalfErased(s) == {t \in [Words -> {Erased, Garbage} \cup {s[w] : w \in Words}] :
                    \A w \in Words : t[w] \in {s[w], Erased, Garbage}}
HalfProgrammed(s) == {[s EXCEPT ![i] = v] : v \in {Erased, Record(dataToWrite)[i], Garbage}}

\* A fresh device or one with any valid record, at its first boot.
SettingsInit ==
  /\ sector \in {[w \in Words |-> Erased]} \cup {Record(c) : c \in Payloads}
  /\ dataToWrite = Default /\ i = 0
  /\ IF Verified(sector)
       THEN activeSettings = PayloadOf(sector) /\ place = "idle" /\ locked = TRUE
       ELSE activeSettings = Default /\ place = "erase" /\ locked = FALSE

\* REG_SAVE_SETTINGS, through main.c.
SaveRequest(c) ==
  /\ place = "idle"
  /\ BeginSave(c) /\ UNCHANGED <<sector, activeSettings>>

\* Mutant: the RAM copy is updated although the save failed.
FailAdopting == place' = "idle" /\ locked' = TRUE /\ activeSettings' = dataToWrite
                /\ UNCHANGED <<dataToWrite, i>>
Fail == place' = "idle" /\ locked' = TRUE /\ UNCHANGED <<activeSettings, dataToWrite, i>>

EraseSector ==
  /\ place = "erase"
  /\ sector' = [w \in Words |-> Erased] /\ place' = "program"
  /\ UNCHANGED <<activeSettings, dataToWrite, i, locked>>

EraseFails ==
  /\ place = "erase"
  /\ sector' \in HalfErased(sector) /\ Fail

\* Mutant: the last word is not counted.
AllButLast == CrcWord
WordsToWrite == CrcWord + 1

ProgramWord ==
  /\ place = "program"
  /\ sector' = [sector EXCEPT ![i] = Record(dataToWrite)[i]]
  /\ i' = i + 1
  /\ place' = IF i' = WordsToWrite THEN "adopt" ELSE "program"
  /\ UNCHANGED <<activeSettings, dataToWrite, locked>>

ProgramFails ==
  /\ place = "program"
  /\ \E v \in {Erased, Garbage} : sector' = [sector EXCEPT ![i] = v]
  /\ Fail

\* HAL_FLASH_Lock and the copy to RAM.
Adopt ==
  /\ place = "adopt"
  /\ activeSettings' = dataToWrite /\ locked' = TRUE /\ place' = "idle"
  /\ UNCHANGED <<sector, dataToWrite, i>>

\* The supply fails anywhere; on its return App_Settings_Init runs.
Restart ==
  \E s \in CASE place = "erase"   -> HalfErased(sector)
             [] place = "program" -> HalfProgrammed(sector)
             [] OTHER             -> {sector} : Load(s)

SettingsNext ==
  \/ \E c \in Payloads : SaveRequest(c)
  \/ EraseSector \/ EraseFails \/ ProgramWord \/ ProgramFails \/ Adopt \/ Restart

SettingsSpec == SettingsInit /\ [][SettingsNext]_settingsVars
=============================================================================
