------------------------- MODULE SettingsProperties -------------------------
(* What makes the settings of module Settings correct. *)
EXTENDS Settings

\* The sector holds a record that was written to its end.
Complete == \E c \in Payloads : sector = Record(c)

\* The types of the record, the RAM copy and the local variables.
SettingsTypeOK ==
  /\ sector \in [Words -> Values \cup Payloads \cup {Magic, Erased, Garbage}]
  /\ activeSettings \in Payloads /\ dataToWrite \in Payloads
  /\ place \in {"idle", "erase", "program", "adopt"} /\ locked \in BOOLEAN
  /\ i \in 0 .. CrcWord + 1 /\ (place = "program" => i \in Words)

\* Between saves a record that a boot would accept is the one the program runs
\* with: clients that read the settings back (app_modbus.c:172) read what the
\* next boot will load, and the flash cannot be written any more.
ReadbackHonest ==
  place = "idle" => /\ Complete => activeSettings = PayloadOf(sector)
                    /\ locked

\* Types, and reads between saves tell what a boot will load.
SettingsInv == SettingsTypeOK /\ ReadbackHonest

\* A restart, wherever the supply failed, loads what was in use, what was being
\* saved, or the defaults: never a mixture (app_settings.c:68-76).
NeverTorn ==
  [][Restart => activeSettings' \in {activeSettings, dataToWrite, Default}]_settingsVars

\* The settings implement SettingsStore: a record counts as stored with its
\* last word, and as adopted from then on, so that a save survives any restart
\* from the moment its last word is written.
Store == INSTANCE SettingsStore
           WITH Whole <- Payloads, Factory <- Default, Nothing <- Garbage,
                stored  <- IF Complete THEN PayloadOf(sector) ELSE Garbage,
                adopted <- IF place = "adopt" THEN dataToWrite ELSE activeSettings
ImplementsStore == Store!StoreSpec

-----------------------------------------------------------------------------
(* The inductive invariant: SettingsInv strengthened by how far a save is.  *)

\* Each word holds what belongs there, nothing, or garbage.
SectorOK(s) ==
  /\ s \in [Words -> Values \cup Payloads \cup {Magic, Erased, Garbage}]
  /\ s[0] \in {Magic, Erased, Garbage}
  /\ \A w \in 1 .. PayloadWords : s[w] \in Values \cup {Erased, Garbage}
  /\ s[CrcWord] \in Payloads \cup {Erased, Garbage}

\* The words below i are written and the others erased; the flash control
\* register is open during a save and at no other time.
ProgressInv ==
  /\ place = "idle" <=> locked
  /\ place = "erase" => i = 0
  /\ place = "program" => \A w \in Words : sector[w] = IF w < i THEN Record(dataToWrite)[w]
                                                                ELSE Erased
  /\ place = "adopt" => sector = Record(dataToWrite)

\* As long as nothing was erased, what a boot would accept is in use.
InUseInv == place \in {"idle", "erase"} => (Complete => activeSettings = PayloadOf(sector))

SettingsIInv == SettingsTypeOK /\ SectorOK(sector) /\ ProgressInv /\ InUseInv
=============================================================================
