--------------------------- MODULE MainLoopProofs ---------------------------
(***************************************************************************)
(* The super-loop, for every value of the constants.  LoopIInv is          *)
(* inductive; each property proved here follows from it.                   *)
(***************************************************************************)
EXTENDS MainLoopProperties, MotorProofs

\* The clients keep the promise FirstRpmInRange makes, if it makes one: they
\* write no RPM of MaxRPM or more, which the first start after a boot would
\* have no profile for.
RpmPromise == FirstRpmInRange => \A rpm \in RpmRegs : ClampedRPM(rpm) < MaxRPM

-----------------------------------------------------------------------------
(* Boot. *)

\* What the settings in RAM are after App_Settings_Init.
LEMMA LoadedFacts ==
  ASSUME NEW f \in Configs \cup {Invalid}
  PROVE  /\ Loaded(f) \in Configs
         /\ f \in Configs => Loaded(f) = f
         /\ Repaired(f) \subseteq Configs \cup {Invalid}
         /\ \A g \in Repaired(f) : g = Loaded(f) \/ g = f
BY LoopAssumption DEF Loaded, Repaired

\* A reset, by software or by the supply, as the loop sees it.
LEMMA RebootFacts ==
  ASSUME NEW f \in Configs \cup {Invalid}, LoopTypeOK, Reboot(f)
  PROVE  /\ LoopTypeOK' /\ MotorReset
         /\ at' = "delay" /\ pending' = {} /\ ~run' /\ ~saving' /\ lastWord' = "none"
         /\ ~stream.exti' /\ ~stream.active' /\ motorState' = "STOPPED"
         /\ settings' = Loaded(f) /\ flash' \in Repaired(f)
         /\ uart' = settings'.baud /\ encoder' = settings'.encoderReversed
<1>1. PICK s \in BOOLEAN, g \in Repaired(f) :
        /\ at' = "delay" /\ pending' = {} /\ config' = DefaultSettings
        /\ settings' = Loaded(f) /\ flash' = g /\ switchState' = s
        /\ switches' = [current |-> FALSE, last |-> FALSE] /\ motorState' = "STOPPED"
        /\ run' = FALSE /\ lamp' = "OFF"
        /\ stream' = [active |-> FALSE, resume |-> FALSE, exti |-> FALSE]
        /\ uart' = Loaded(f).baud /\ encoder' = Loaded(f).encoderReversed
        /\ lastWord' = "none" /\ saving' = FALSE
  BY DEF Reboot, Booted, LoopTypeOK
<1>2. MotorReset
  BY DEF Reboot
<1>3. LoopTypeOK'
  BY <1>1, LoadedFacts, LoopAssumption DEF LoopTypeOK, Sections, States, Configs
<1> QED BY <1>1, <1>2, <1>3

\* The first boot, with an empty flash.
LEMMA InitFacts ==
  ASSUME LoopInit
  PROVE  /\ LoopTypeOK
         /\ at = "delay" /\ pending = {} /\ ~run /\ ~saving
         /\ stream.exti = stream.active
         /\ settings = Loaded(Invalid) /\ flash \in Repaired(Invalid)
         /\ uart = settings.baud /\ encoder = settings.encoderReversed
<1>1. PICK s \in BOOLEAN, g \in Repaired(Invalid) :
        /\ at = "delay" /\ pending = {} /\ config = DefaultSettings
        /\ settings = Loaded(Invalid) /\ flash = g /\ switchState = s
        /\ switches = [current |-> FALSE, last |-> FALSE] /\ motorState = "STOPPED"
        /\ run = FALSE /\ lamp = "OFF"
        /\ stream = [active |-> FALSE, resume |-> FALSE, exti |-> FALSE]
        /\ uart = Loaded(Invalid).baud /\ encoder = Loaded(Invalid).encoderReversed
        /\ lastWord = "none" /\ saving = FALSE
  BY LoopAssumption DEF LoopInit, Booted
<1>2. LoopTypeOK
  BY <1>1, LoadedFacts, LoopAssumption DEF LoopTypeOK, Sections, States, Configs
<1> QED BY <1>1, <1>2

-----------------------------------------------------------------------------
(* Types. *)

LEMMA ClientType == LoopTypeOK /\ ClientWrite => LoopTypeOK'
<1> SUFFICES ASSUME LoopTypeOK, ClientWrite PROVE LoopTypeOK'
  OBVIOUS
<1> USE DEF LoopTypeOK, NoOtherLoopChange, Raise, Flags, Configs
<1>1. ASSUME NEW b \in BOOLEAN, WriteMotorCtrl(b) \/ WriteStreamCtrl(b) \/ WriteEncoderDir(b)
      PROVE  LoopTypeOK'
  BY <1>1 DEF WriteMotorCtrl, WriteStreamCtrl, WriteEncoderDir
<1>2. ASSUME NEW v \in Bauds, WriteBaud(v) PROVE LoopTypeOK'
  BY <1>2 DEF WriteBaud
<1>3. WriteParameter => LoopTypeOK'
  BY DEF WriteParameter
<1>4. CASE WriteSave
  BY <1>4 DEF WriteSave
<1>5. CASE WriteReboot
  BY <1>5 DEF WriteReboot
<1> QED BY <1>1, <1>2, <1>3, <1>4, <1>5 DEF ClientWrite

LEMMA StepType == LoopTypeOK /\ StartInv /\ LoopStep => LoopTypeOK'
<1> SUFFICES ASSUME LoopTypeOK, StartInv, LoopStep PROVE LoopTypeOK'
  OBVIOUS
<1> USE DEF LoopTypeOK, Goto, Sections
<1>1. CASE SyncModbus
  BY <1>1 DEF SyncModbus, SyncedConfig, Flags
<1>2. CASE LwipDone \/ ReadSwitch
  BY <1>2 DEF LwipDone, ReadSwitch
<1>3. CASE ReadMotor
  BY <1>3 DEF ReadMotor, Snapshot, StartInv
<1>4. CASE SaveSettings
  <2>1. /\ at' = "arbitrate" /\ pending' \subseteq pending
        /\ UNCHANGED <<config, switchState, switches, motorState, run, lamp, stream, uart,
                       encoder, lastWord>>
    BY <1>4, Zenon DEF SaveSettings
  <2>2. /\ settings' = settings \/ settings' = config
        /\ flash' \in {flash, config, Invalid}
        /\ saving' = saving \/ saving' = FALSE
    BY <1>4 DEF SaveSettings, NewConfig, KeepSettings
  <2>3. /\ settings' \in Configs /\ flash' \in Configs \cup {Invalid}
        /\ saving' \in BOOLEAN /\ pending' \subseteq Flags
    BY <2>1, <2>2
  <2> HIDE DEF LoopTypeOK
  <2> QED BY <2>1, <2>3 DEF LoopTypeOK, Sections
<1>5. CASE Arbitrate
  <2>1. /\ at' = "stream" /\ pending' \subseteq pending
        /\ UNCHANGED <<config, settings, flash, switchState, motorState, lamp, stream, uart,
                       encoder, saving>>
    BY <1>5, Zenon DEF Arbitrate
  <2>2. switches' \in [current : BOOLEAN, last : BOOLEAN]
    BY <1>5 DEF Arbitrate
  <2>3. run' \in BOOLEAN
    BY <1>5, Zenon DEF Arbitrate, RunRequest
  <2>4. lastWord' \in {"none", "start", "stop"}
    BY <1>5, Zenon DEF Arbitrate
  <2>5. pending' \subseteq Flags
    BY <2>1
  <2> HIDE DEF LoopTypeOK
  <2> QED BY <2>1, <2>2, <2>3, <2>4, <2>5 DEF LoopTypeOK, Sections
<1>6. CASE StreamCommands
  <2>1. StreamRequested \in BOOLEAN
    BY Zenon DEF StreamRequested
  <2> HIDE DEF LoopTypeOK
  <2>2. stream \in [active : BOOLEAN, resume : BOOLEAN, exti : BOOLEAN]
    BY DEF LoopTypeOK
  <2>3. stream' \in [active : BOOLEAN, resume : BOOLEAN, exti : BOOLEAN]
    BY <1>6, <2>1, <2>2 DEF StreamCommands
  <2> QED BY <1>6, <2>3 DEF LoopTypeOK, StreamCommands
<1>7. CASE BaudMask \/ BaudSet \/ BaudResume
  <2>1. /\ at' \in {"baudSet", "baudResume", "encoder"}
        /\ uart' = uart \/ uart' = config.baud
        /\ UNCHANGED <<pending, config, settings, flash, switchState, switches, motorState,
                       run, lamp, encoder, lastWord, saving>>
    BY <1>7, Zenon DEF BaudMask, BaudSet, BaudResume
  <2>2. stream' \in [active : BOOLEAN, resume : BOOLEAN, exti : BOOLEAN]
    <3> HIDE DEF LoopTypeOK
    <3>1. stream \in [active : BOOLEAN, resume : BOOLEAN, exti : BOOLEAN]
      BY DEF LoopTypeOK
    <3>2. MaskedForBaud \in BOOLEAN /\ ResumeAfterBaud \in BOOLEAN
      BY <3>1, Zenon DEF MaskedForBaud, ResumeAfterBaud
    <3>3. CASE BaudMask
      BY <3>1, <3>2, <3>3 DEF BaudMask
    <3>4. CASE BaudSet
      BY <3>1, <3>4 DEF BaudSet
    <3>5. CASE BaudResume
      BY <3>1, <3>2, <3>5 DEF BaudResume
    <3> QED BY <1>7, <3>3, <3>4, <3>5
  <2>3. uart' \in Bauds
    BY <2>1 DEF Configs
  <2> HIDE DEF LoopTypeOK
  <2> QED BY <2>1, <2>2, <2>3 DEF LoopTypeOK, Sections
<1>8. CASE EncoderDirection \/ RebootTest
  BY <1>8 DEF EncoderDirection, RebootTest, Configs
<1>9. CASE SystemReset
  BY <1>9, RebootFacts DEF SystemReset
<1>10. CASE ApplyStart \/ ApplyStop \/ ApplyNothing
  BY <1>10 DEF ApplyStart, ApplyStop, ApplyNothing, NoCommandChange, LampOf
<1>11. CASE StartMotor
  <2>1. at' \in {"start", "lwip"} /\ saving' \in BOOLEAN
    BY <1>11, Zenon DEF StartMotor
  <2>2. NoCommandChange /\ UNCHANGED lamp
    BY <1>11 DEF StartMotor
  <2> QED BY <2>1, <2>2 DEF NoCommandChange
<1> QED BY <1>1, <1>2, <1>3, <1>4, <1>5, <1>6, <1>7, <1>8, <1>9, <1>10, <1>11 DEF LoopStep

\* A SysTick leaves everything but the drive and the switch alone.
LEMMA TickFrame ==
  ASSUME LoopTypeOK, SysTick \/ SysTickAtRest
  PROVE  NoLoopChange /\ switchState' \in BOOLEAN
BY DEF SysTick, SysTickAtRest, SwitchMayChange, LoopTypeOK

LEMMA PowerCutFacts ==
  ASSUME LoopTypeOK, PowerCut
  PROVE  \E f \in Configs \cup {Invalid} :
           Reboot(f) /\ (f = flash \/ f = Invalid)
BY DEF PowerCut, LoopTypeOK

LEMMA NextLoopType == LoopTypeOK /\ StartInv /\ [LoopNext]_vars => LoopTypeOK'
<1> SUFFICES ASSUME LoopTypeOK, StartInv, [LoopNext]_vars PROVE LoopTypeOK'
  OBVIOUS
<1>1. CASE ClientWrite
  BY <1>1, ClientType
<1>2. CASE LoopStep
  BY <1>2, StepType
<1>3. CASE SysTick \/ SysTickAtRest
  BY <1>3, TickFrame DEF NoLoopChange, LoopTypeOK
<1>4. CASE PowerCut
  BY <1>4, PowerCutFacts, RebootFacts
<1>5. CASE UNCHANGED vars
  BY <1>5 DEF vars, loopVars, LoopTypeOK
<1> QED BY <1>1, <1>2, <1>3, <1>4, <1>5 DEF LoopNext

-----------------------------------------------------------------------------
(* The drive. *)

\* Everything but the end of a pass leaves the drive to the tick.
LEMMA DriveUntouched ==
  ASSUME \/ ClientWrite \/ SyncModbus \/ LwipDone \/ ReadSwitch \/ ReadMotor
         \/ SaveSettings \/ Arbitrate \/ StreamCommands \/ BaudMask \/ BaudSet
         \/ BaudResume \/ EncoderDirection \/ RebootTest \/ ApplyNothing
         \/ SysTickAtRest
  PROVE  UNCHANGED motorVars
<1>1. ClientWrite => UNCHANGED motorVars
  BY DEF ClientWrite, WriteMotorCtrl, WriteStreamCtrl, WriteEncoderDir, WriteBaud,
         WriteParameter, WriteSave, WriteReboot, NoOtherLoopChange
<1> QED BY <1>1, Zenon DEF SyncModbus, LwipDone, ReadSwitch, ReadMotor, SaveSettings, Arbitrate,
         StreamCommands, BaudMask, BaudSet, BaudResume, EncoderDirection, RebootTest,
         ApplyNothing, SysTickAtRest

\* What the loop does to the drive is what the drive allows.
LEMMA DriveStep ==
  ASSUME RpmPromise, LoopTypeOK, SnapshotSafe, [LoopNext]_vars
  PROVE  [MotorNext]_motorVars
<1>1. CASE ApplyStart
  <2>1. currentState = "STOPPED"
    BY <1>1 DEF ApplyStart, StartableStates, Goto, SnapshotSafe
  <2>2. /\ config.rpm \in RpmRegs /\ config.accel \in AccelRegs
        /\ config.microsteps \in MicrostepRegs
    BY DEF LoopTypeOK, Configs
  <2>3. RpmAllowed(config.rpm)
    BY <2>2 DEF RpmPromise, RpmAllowed
  <2>4. RequestProfile(config.rpm, config.accel, config.microsteps)
    BY <1>1, <2>1 DEF ApplyStart, RequestProfile, ProfileStates
  <2> QED BY <2>2, <2>3, <2>4 DEF MotorNext
<1>2. CASE ApplyStop
  BY <1>2 DEF ApplyStop, MotorNext
<1>3. CASE StartMotor
  <2>1. config.direction \in BOOLEAN
    BY DEF LoopTypeOK, Configs
  <2> QED BY <1>3, <2>1, Zenon DEF StartMotor, StartSteps, MotorNext
<1>4. CASE SystemReset
  BY <1>4 DEF SystemReset, Reboot, MotorNext
<1>5. CASE SysTick
  BY <1>5 DEF SysTick, MotorNext
<1>6. CASE PowerCut
  BY <1>6 DEF PowerCut, Reboot, MotorNext
<1>7. CASE UNCHANGED vars
  BY <1>7 DEF vars
<1> QED BY <1>1, <1>2, <1>3, <1>4, <1>5, <1>6, <1>7, DriveUntouched DEF LoopNext, LoopStep

\* The place of the loop and the state of the drive go together.
LEMMA NextStart == LoopTypeOK /\ SnapshotSafe /\ StartInv /\ [LoopNext]_vars => StartInv'
<1> SUFFICES ASSUME LoopTypeOK, SnapshotSafe, StartInv, [LoopNext]_vars PROVE StartInv'
  OBVIOUS
<1> USE DEF StartInv, Goto, motorVars
<1>1. CASE ClientWrite
  BY <1>1, DriveUntouched
     DEF ClientWrite, WriteMotorCtrl, WriteStreamCtrl, WriteEncoderDir, WriteBaud,
         WriteParameter, WriteSave, WriteReboot, NoOtherLoopChange
<1>2. CASE SyncModbus \/ LwipDone \/ ReadSwitch \/ ReadMotor \/ SaveSettings
  BY <1>2, DriveUntouched DEF SyncModbus, LwipDone, ReadSwitch, ReadMotor, SaveSettings
<1>3. CASE Arbitrate \/ StreamCommands \/ BaudMask \/ BaudSet \/ BaudResume
  BY <1>3, DriveUntouched DEF Arbitrate, StreamCommands, BaudMask, BaudSet, BaudResume
<1>4. CASE EncoderDirection \/ RebootTest \/ ApplyNothing
  BY <1>4, DriveUntouched DEF EncoderDirection, RebootTest, ApplyNothing
<1>5. CASE SystemReset \/ PowerCut
  BY <1>5, RebootFacts, PowerCutFacts
     DEF SystemReset, MotorReset, States, Places, LoopTypeOK
<1>6. CASE ApplyStart
  BY <1>6 DEF ApplyStart, StartableStates, SnapshotSafe, CalculateProfile, Places
<1>7. CASE ApplyStop
  BY <1>7 DEF ApplyStop, Stop, States
<1>8. CASE StartMotor
  BY <1>8 DEF StartMotor, StartArm, StartSetArr, StartSetCcr, StartTimer, States, Places
<1>9. CASE SysTick
  BY <1>9 DEF SysTick, NoLoopChange, KinematicTick, TickAccelerate, TickDecelerate, States
<1>10. CASE SysTickAtRest
  BY <1>10 DEF SysTickAtRest, NoLoopChange
<1>11. CASE UNCHANGED vars
  BY <1>11 DEF vars, loopVars
<1> QED BY <1>1, <1>2, <1>3, <1>4, <1>5, <1>6, <1>7, <1>8, <1>9, <1>10, <1>11
        DEF LoopNext, LoopStep

\* What the pass decides on stays at most one transition of the tick behind.
LEMMA NextSnapshot ==
  LoopTypeOK /\ SnapshotSafe /\ StartInv /\ [LoopNext]_vars => SnapshotSafe'
<1> SUFFICES ASSUME LoopTypeOK, SnapshotSafe, StartInv, [LoopNext]_vars PROVE SnapshotSafe'
  OBVIOUS
<1> USE DEF SnapshotSafe, Goto, motorVars
<1>1. CASE ClientWrite
  BY <1>1, DriveUntouched
     DEF ClientWrite, WriteMotorCtrl, WriteStreamCtrl, WriteEncoderDir, WriteBaud,
         WriteParameter, WriteSave, WriteReboot, NoOtherLoopChange
<1>2. CASE SyncModbus \/ LwipDone \/ ReadSwitch \/ ReadMotor \/ SaveSettings
  BY <1>2, DriveUntouched DEF SyncModbus, LwipDone, ReadSwitch, ReadMotor, Snapshot, SaveSettings
<1>3. CASE Arbitrate \/ StreamCommands \/ BaudMask \/ BaudSet \/ BaudResume
  BY <1>3, DriveUntouched DEF Arbitrate, StreamCommands, BaudMask, BaudSet, BaudResume
<1>4. CASE EncoderDirection \/ RebootTest \/ ApplyNothing
  BY <1>4, DriveUntouched DEF EncoderDirection, RebootTest, ApplyNothing
<1>5. CASE SystemReset \/ PowerCut
  BY <1>5, RebootFacts, PowerCutFacts DEF SystemReset, LoopTypeOK
<1>6. CASE ApplyStart \/ ApplyStop
  BY <1>6 DEF ApplyStart, ApplyStop
<1>7. CASE StartMotor
  <2>1. at' \in {"start", "lwip"}
    BY <1>7, Zenon DEF StartMotor
  <2> QED BY <2>1
<1>8. CASE SysTick
  BY <1>8 DEF SysTick, NoLoopChange, KinematicTick, TickAccelerate, TickDecelerate
<1>9. CASE SysTickAtRest
  BY <1>9 DEF SysTickAtRest, NoLoopChange
<1>10. CASE UNCHANGED vars
  BY <1>10 DEF vars, loopVars
<1> QED BY <1>1, <1>2, <1>3, <1>4, <1>5, <1>6, <1>7, <1>8, <1>9, <1>10
        DEF LoopNext, LoopStep

-----------------------------------------------------------------------------
(* Stream and hardware. *)

LEMMA NextStream == LoopTypeOK /\ StreamInv /\ [LoopNext]_vars => StreamInv'
<1> SUFFICES ASSUME LoopTypeOK, StreamInv, [LoopNext]_vars PROVE StreamInv'
  OBVIOUS
<1>0. stream \in [active : BOOLEAN, resume : BOOLEAN, exti : BOOLEAN]
  BY DEF LoopTypeOK
<1> USE DEF StreamInv, Goto
<1>1. CASE ClientWrite
  BY <1>1
     DEF ClientWrite, WriteMotorCtrl, WriteStreamCtrl, WriteEncoderDir, WriteBaud,
         WriteParameter, WriteSave, WriteReboot, NoOtherLoopChange
<1>2. CASE SyncModbus \/ LwipDone \/ ReadSwitch \/ ReadMotor \/ SaveSettings \/ Arbitrate
  BY <1>2 DEF SyncModbus, LwipDone, ReadSwitch, ReadMotor, SaveSettings, Arbitrate
<1>3. CASE StreamCommands
  <2>1. StreamRequested \in BOOLEAN
    BY <1>0, Zenon DEF StreamRequested
  <2>2. stream'.exti = stream'.active
    BY <1>0, <1>3, <2>1 DEF StreamCommands
  <2> QED BY <1>3, <2>2 DEF StreamCommands
<1>4. CASE BaudMask
  BY <1>0, <1>4 DEF BaudMask, MaskedForBaud
<1>5. CASE BaudSet
  BY <1>5 DEF BaudSet
<1>6. CASE BaudResume
  BY <1>0, <1>6 DEF BaudResume, ResumeAfterBaud
<1>7. CASE EncoderDirection \/ RebootTest \/ ApplyStart \/ ApplyStop \/ ApplyNothing
  BY <1>7 DEF EncoderDirection, RebootTest, ApplyStart, ApplyStop, ApplyNothing, NoCommandChange
<1>8. CASE SystemReset \/ PowerCut
  BY <1>8, RebootFacts, PowerCutFacts DEF SystemReset, LoopTypeOK
<1>9. CASE StartMotor
  <2>1. at = "start" /\ at' \in {"start", "lwip"}
    BY <1>9, Zenon DEF StartMotor
  <2>2. stream' = stream
    BY <1>9 DEF StartMotor, NoCommandChange
  <2> QED BY <2>1, <2>2
<1>10. CASE SysTick \/ SysTickAtRest
  BY <1>10, TickFrame DEF NoLoopChange
<1>11. CASE UNCHANGED vars
  BY <1>11 DEF vars, loopVars
<1> QED BY <1>1, <1>2, <1>3, <1>4, <1>5, <1>6, <1>7, <1>8, <1>9, <1>10, <1>11
        DEF LoopNext, LoopStep

LEMMA NextHardware == LoopTypeOK /\ HardwareInv /\ [LoopNext]_vars => HardwareInv'
<1> SUFFICES ASSUME LoopTypeOK, HardwareInv, [LoopNext]_vars PROVE HardwareInv'
  OBVIOUS
<1> USE DEF HardwareInv, WritesApplied, Goto
<1>1. CASE ClientWrite
  <2>1. at = "lwip" /\ NoOtherLoopChange /\ config \in Configs
    BY <1>1 DEF ClientWrite, WriteMotorCtrl, WriteStreamCtrl, WriteEncoderDir, WriteBaud,
         WriteParameter, WriteSave, WriteReboot, Written, LoopTypeOK
  <2>2. /\ config'.baud = config.baud \/ "BaudChange" \in pending'
        /\ config'.encoderReversed = config.encoderReversed \/ "EncoderDir" \in pending'
        /\ pending \subseteq pending'
    BY <1>1, <2>1 DEF ClientWrite, WriteMotorCtrl, WriteStreamCtrl, WriteEncoderDir, WriteBaud,
         WriteParameter, WriteSave, WriteReboot, Raise, Configs
  <2> QED BY <2>1, <2>2 DEF NoOtherLoopChange
<1>2. CASE SyncModbus
  BY <1>2 DEF SyncModbus, SyncedConfig
<1>3. CASE LwipDone \/ ReadSwitch \/ ReadMotor \/ SaveSettings \/ Arbitrate
  BY <1>3 DEF LwipDone, ReadSwitch, ReadMotor, SaveSettings, Arbitrate, Acknowledged
<1>4. CASE StreamCommands \/ BaudMask \/ BaudSet \/ BaudResume
  BY <1>4 DEF StreamCommands, BaudMask, BaudSet, BaudResume
<1>5. CASE EncoderDirection \/ RebootTest \/ ApplyStart \/ ApplyStop \/ ApplyNothing
  BY <1>5 DEF EncoderDirection, RebootTest, ApplyStart, ApplyStop, ApplyNothing, NoCommandChange
<1>6. CASE SystemReset \/ PowerCut
  BY <1>6, RebootFacts, PowerCutFacts DEF SystemReset, LoopTypeOK
<1>7. CASE StartMotor
  <2>1. at = "start" /\ at' \in {"start", "lwip"}
    BY <1>7, Zenon DEF StartMotor
  <2>2. NoCommandChange
    BY <1>7 DEF StartMotor
  <2> QED BY <2>1, <2>2 DEF NoCommandChange
<1>8. CASE SysTick \/ SysTickAtRest
  BY <1>8, TickFrame DEF NoLoopChange
<1>9. CASE UNCHANGED vars
  BY <1>9 DEF vars, loopVars
<1> QED BY <1>1, <1>2, <1>3, <1>4, <1>5, <1>6, <1>7, <1>8, <1>9 DEF LoopNext, LoopStep

-----------------------------------------------------------------------------
(* Saving, and who may run the motor. *)

LEMMA NextSave == LoopTypeOK /\ SaveInv /\ [LoopNext]_vars => SaveInv'
<1> SUFFICES ASSUME LoopTypeOK, SaveInv, [LoopNext]_vars, saving' PROVE SaveInv'
  BY DEF SaveInv
<1> USE DEF SaveInv, Goto
<1>1. CASE ClientWrite
  BY <1>1
     DEF ClientWrite, WriteMotorCtrl, WriteStreamCtrl, WriteEncoderDir, WriteBaud,
         WriteParameter, WriteSave, WriteReboot, NoOtherLoopChange, Raise, Written
<1>2. CASE SyncModbus \/ LwipDone \/ ReadSwitch \/ ReadMotor
  BY <1>2 DEF SyncModbus, LwipDone, ReadSwitch, ReadMotor
<1>3. CASE SaveSettings
  BY <1>3 DEF SaveSettings, NewConfig
<1>4. CASE Arbitrate \/ StreamCommands \/ BaudMask \/ BaudSet \/ BaudResume
  BY <1>4 DEF Arbitrate, StreamCommands, BaudMask, BaudSet, BaudResume
<1>5. CASE EncoderDirection \/ RebootTest \/ ApplyStart \/ ApplyStop \/ ApplyNothing
  BY <1>5 DEF EncoderDirection, RebootTest, ApplyStart, ApplyStop, ApplyNothing, NoCommandChange
<1>6. CASE SystemReset \/ PowerCut
  BY <1>6, RebootFacts, PowerCutFacts DEF SystemReset, LoopTypeOK
<1>7. CASE StartMotor
  <2>1. at = "start" /\ at' = "start" /\ saving' = saving
    BY <1>7, Zenon DEF StartMotor
  <2>2. NoCommandChange
    BY <1>7 DEF StartMotor
  <2> QED BY <2>1, <2>2 DEF NoCommandChange
<1>8. CASE SysTick \/ SysTickAtRest
  BY <1>8, TickFrame DEF NoLoopChange
<1>9. CASE UNCHANGED vars
  BY <1>9 DEF vars, loopVars
<1> QED BY <1>1, <1>2, <1>3, <1>4, <1>5, <1>6, <1>7, <1>8, <1>9 DEF LoopNext, LoopStep

LEMMA NextCommand == LoopTypeOK /\ CommandInv /\ [LoopNext]_vars => CommandInv'
<1> SUFFICES ASSUME LoopTypeOK, CommandInv, [LoopNext]_vars PROVE CommandInv'
  OBVIOUS
<1> USE DEF CommandInv, Goto
<1>1. CASE ClientWrite
  <2>1. at = "lwip" /\ at' = "lwip" /\ run' = run
    BY <1>1
       DEF ClientWrite, WriteMotorCtrl, WriteStreamCtrl, WriteEncoderDir, WriteBaud,
           WriteParameter, WriteSave, WriteReboot, NoOtherLoopChange, Written
  <2>2. ASSUME NEW b \in BOOLEAN, WriteMotorCtrl(b) PROVE CommandInv'
    BY <2>1, <2>2 DEF WriteMotorCtrl, Raise
  <2>3. ASSUME NEW b \in BOOLEAN, WriteStreamCtrl(b) \/ WriteEncoderDir(b) PROVE CommandInv'
    BY <2>1, <2>3 DEF WriteStreamCtrl, WriteEncoderDir, Raise
  <2>4. ASSUME NEW v \in Bauds, WriteBaud(v) PROVE CommandInv'
    BY <2>1, <2>4 DEF WriteBaud, Raise
  <2>5. WriteParameter \/ WriteSave \/ WriteReboot => CommandInv'
    BY <2>1 DEF WriteParameter, WriteSave, WriteReboot, Raise
  <2> QED BY <1>1, <2>2, <2>3, <2>4, <2>5 DEF ClientWrite
<1>2. CASE SyncModbus
  BY <1>2 DEF SyncModbus
<1>3. CASE LwipDone \/ ReadSwitch \/ ReadMotor \/ SaveSettings
  BY <1>3 DEF LwipDone, ReadSwitch, ReadMotor, SaveSettings
<1>4. CASE Arbitrate
  BY <1>4 DEF Arbitrate, RunRequest, Acknowledged
<1>5. CASE StreamCommands \/ BaudMask \/ BaudSet \/ BaudResume
  BY <1>5 DEF StreamCommands, BaudMask, BaudSet, BaudResume
<1>6. CASE EncoderDirection \/ RebootTest
  BY <1>6 DEF EncoderDirection, RebootTest
<1>7. CASE ApplyStart \/ ApplyStop \/ ApplyNothing
  BY <1>7 DEF ApplyStart, ApplyStop, ApplyNothing, NoCommandChange
<1>8. CASE SystemReset \/ PowerCut
  BY <1>8, RebootFacts, PowerCutFacts DEF SystemReset, LoopTypeOK
<1>9. CASE StartMotor
  <2>1. at = "start" /\ at' \in {"start", "lwip"}
    BY <1>9, Zenon DEF StartMotor
  <2>2. NoCommandChange
    BY <1>9 DEF StartMotor
  <2> QED BY <2>1, <2>2 DEF NoCommandChange
<1>10. CASE SysTick \/ SysTickAtRest
  BY <1>10, TickFrame DEF NoLoopChange
<1>11. CASE UNCHANGED vars
  BY <1>11 DEF vars, loopVars
<1> QED BY <1>1, <1>2, <1>3, <1>4, <1>5, <1>6, <1>7, <1>8, <1>9, <1>10, <1>11
        DEF LoopNext, LoopStep

-----------------------------------------------------------------------------
(* The inductive invariant. *)

LEMMA InitLoop == LoopInit => LoopIInv
<1> SUFFICES ASSUME LoopInit PROVE LoopIInv
  OBVIOUS
<1>1. LoopTypeOK
  BY InitFacts
<1>2. /\ at = "delay" /\ pending = {} /\ ~run /\ ~saving
      /\ stream.exti = stream.active
      /\ uart = settings.baud /\ encoder = settings.encoderReversed
  BY InitFacts
<1>3. currentState = "STOPPED" /\ mpc = "idle"
  BY DEF LoopInit, MotorInit
<1>4. SnapshotSafe /\ StartInv /\ StreamInv
  BY <1>2, <1>3 DEF SnapshotSafe, StartInv, StreamInv, States, Places
<1>5. HardwareInv /\ SaveInv /\ CommandInv
  BY <1>2 DEF HardwareInv, WritesApplied, SaveInv, CommandInv
<1> QED BY <1>1, <1>4, <1>5 DEF LoopIInv

LEMMA NextLoop == LoopIInv /\ [LoopNext]_vars => LoopIInv'
BY NextLoopType, NextStart, NextSnapshot, NextStream, NextHardware, NextSave, NextCommand
   DEF LoopIInv

\* LoopIInv holds in every state the firmware reaches.
THEOREM LoopInvariant == LoopSpec => []LoopIInv
BY InitLoop, NextLoop, PTL DEF LoopSpec

-----------------------------------------------------------------------------
(* The invariants. *)

\* The statics, registers and the flash keep their types, and the encoder lines
\* follow REG_STREAM_CTRL around every change of the baud rate (main.c:260-294).
THEOREM StreamFollows == LoopSpec => []LoopInv
<1>1. LoopIInv => LoopInv
  BY DEF LoopIInv, StreamInv, LoopInv, StreamMask
<1> QED BY <1>1, LoopInvariant, PTL

\* The loop acts on a state of the motor that is at most one transition of the
\* tick old (main.c:210, :318).
THEOREM SnapshotIsSafe == LoopSpec => []SnapshotSafe
<1>1. LoopIInv => SnapshotSafe
  BY DEF LoopIInv
<1> QED BY <1>1, LoopInvariant, PTL

\* What a client wrote of the UART and the encoder is applied within the pass
\* (main.c:274-298).
THEOREM WritesAreApplied == LoopSpec => []WritesApplied
<1>1. LoopIInv => WritesApplied
  BY DEF LoopIInv, HardwareInv
<1> QED BY <1>1, LoopInvariant, PTL

-----------------------------------------------------------------------------
(* The drive inside the firmware. *)

\* The loop asks for a profile at rest only and starts the motor before it does
\* anything else (main.c:318-358), so that the drive behaves as MotorSafety says.
THEOREM ProperClient == ASSUME RpmPromise PROVE LoopSpec => UsesDriveProperly
<1>1. LoopInit => MotorInit
  BY DEF LoopInit
<1>2. LoopIInv /\ [LoopNext]_vars => [MotorNext]_motorVars
  BY DriveStep DEF LoopIInv
<1> QED BY <1>1, <1>2, LoopInvariant, PTL DEF LoopSpec, UsesDriveProperly, MotorSafety

\* So all that is proved of the drive alone holds while clients, the operator
\* and the loop use it: the pulses are gated, a ramp stays as near to its line as
\* the rounding of its ticks leaves it, ends at the target or at the foot, in the
\* configured time but for the ticks that rounding costs or saves, and no tick
\* jumps (app_motor.c:99-151).
THEOREM DriveInFirmware ==
  ASSUME RpmPromise
  PROVE  LoopSpec => /\ [](MotorInv /\ RampNearLine /\ CruiseAtTarget)
                     /\ OnlyAtRest /\ RampOnTime /\ SteepClimbRises
                     /\ GentleHalt /\ SlewBounded /\ PhasesSafety
BY ProperClient, PulsesGated, RampStaysNear, CruiseReached, ChangesAtRest, RampsOnTime,
   SteepRampsClimb, HaltsGently, SlewIsBounded, LifeCycle, PTL DEF UsesDriveProperly

-----------------------------------------------------------------------------
(* The action properties. *)

\* Only a start that was the last word of an operator starts the motor
\* (main.c:242-259).
THEOREM StartsAsTold == LoopSpec => NoSurpriseMotion
<1>1. LoopIInv /\ [LoopNext]_vars
        => [currentState = "STOPPED" /\ currentState' = "ACCELERATING"
              => lastWord = "start"]_vars
  <2> SUFFICES ASSUME LoopIInv, LoopNext, currentState = "STOPPED",
                      currentState' = "ACCELERATING"
               PROVE  lastWord = "start"
    OBVIOUS
  <2>1. CASE StartMotor
    BY <2>1 DEF StartMotor, LoopIInv, CommandInv
  <2>2. CASE ApplyStart \/ ApplyStop
    BY <2>2 DEF ApplyStart, ApplyStop, CalculateProfile, Stop, motorVars
  <2>3. CASE SystemReset \/ PowerCut
    BY <2>3 DEF SystemReset, PowerCut, Reboot, MotorReset
  <2>4. CASE SysTick
    BY <2>4 DEF SysTick, KinematicTick, TickAccelerate, TickDecelerate
  <2> QED BY <2>1, <2>2, <2>3, <2>4, DriveUntouched DEF LoopNext, LoopStep, motorVars
<1> QED BY <1>1, LoopInvariant, PTL DEF LoopSpec, NoSurpriseMotion

\* Save and reboot in one batch, in any order: the program comes up with what
\* was configured (main.c:215, :299), unless the flash failed.
THEOREM SaveSurvives == LoopSpec => SaveSurvivesReboot
<1>1. LoopIInv /\ [LoopNext]_vars
        => [saving /\ at = "dying" /\ at' = "delay" => settings' = config]_vars
  <2> SUFFICES ASSUME LoopIInv, LoopNext, saving, at = "dying", at' = "delay"
               PROVE  settings' = config
    OBVIOUS
  <2>1. LoopTypeOK /\ flash = config /\ config \in Configs
    BY DEF LoopIInv, SaveInv, LoopTypeOK
  <2>2. Reboot(flash)
    <3>1. ~ClientWrite /\ ~SysTick /\ ~SysTickAtRest
      BY DEF ClientWrite, WriteMotorCtrl, WriteStreamCtrl, WriteEncoderDir, WriteBaud,
             WriteParameter, WriteSave, WriteReboot, Written, SysTick, SysTickAtRest, NoLoopChange
    <3>2. PowerCut => Reboot(flash)
      BY DEF PowerCut
    <3>3. LoopStep => SystemReset
      BY DEF LoopStep, SyncModbus, LwipDone, ReadSwitch, ReadMotor, SaveSettings, Arbitrate,
             StreamCommands, BaudMask, BaudSet, BaudResume, EncoderDirection, RebootTest,
             ApplyStart, ApplyStop, ApplyNothing, StartMotor, Goto
    <3> QED BY <3>1, <3>2, <3>3 DEF LoopNext, SystemReset
  <2> QED BY <2>1, <2>2, RebootFacts, LoadedFacts
<1> QED BY <1>1, LoopInvariant, PTL DEF LoopSpec, SaveSurvivesReboot

-----------------------------------------------------------------------------
(* The settings. *)

\* Loaded(f) is what the store calls OrFactory.
LEMMA StoreRestart ==
  ASSUME LoopTypeOK, NEW f \in {flash, Invalid}, Reboot(f)
  PROVE  Store!Restart
BY RebootFacts, LoadedFacts
   DEF LoopTypeOK, Store!Restart, Store!OrFactory, Loaded, Repaired

\* Boot, save and reset implement the promises of SettingsStore: a configuration
\* is stored and adopted as a whole (main.c:215-232, app_settings.c).
THEOREM StoreImplemented == LoopSpec => LoopImplementsStore
<1>1. LoopInit => Store!StoreInit
  <2> SUFFICES ASSUME LoopInit PROVE Store!StoreInit
    OBVIOUS
  <2>1. flash \in Repaired(Invalid) /\ settings = Loaded(Invalid)
    BY InitFacts
  <2> QED BY <2>1, LoopAssumption
          DEF Loaded, Repaired, Store!StoreInit, Store!OrFactory
<1>2. LoopIInv /\ [LoopNext]_vars => [Store!StoreNext]_(Store!storeVars)
  <2> SUFFICES ASSUME LoopIInv, [LoopNext]_vars
               PROVE  Store!StoreNext \/ UNCHANGED Store!storeVars
    OBVIOUS
  <2> USE DEF Store!storeVars
  <2>1. LoopTypeOK
    BY DEF LoopIInv
  <2>2. CASE ClientWrite
    BY <2>2
       DEF ClientWrite, WriteMotorCtrl, WriteStreamCtrl, WriteEncoderDir, WriteBaud,
           WriteParameter, WriteSave, WriteReboot, NoOtherLoopChange
  <2>3. CASE SaveSettings
    BY <2>1, <2>3 DEF SaveSettings, NewConfig, KeepSettings, LoopTypeOK,
                      Store!StoreNext, Store!Save, Store!Lose
  <2>4. CASE SystemReset \/ PowerCut
    BY <2>1, <2>4, StoreRestart DEF SystemReset, PowerCut, Store!StoreNext
  <2>5. CASE SyncModbus \/ LwipDone \/ ReadSwitch \/ ReadMotor \/ Arbitrate \/ StreamCommands
    BY <2>5 DEF SyncModbus, LwipDone, ReadSwitch, ReadMotor, Arbitrate, StreamCommands
  <2>6. CASE BaudMask \/ BaudSet \/ BaudResume \/ EncoderDirection \/ RebootTest
    BY <2>6 DEF BaudMask, BaudSet, BaudResume, EncoderDirection, RebootTest
  <2>7. CASE ApplyStart \/ ApplyStop \/ ApplyNothing \/ StartMotor
    BY <2>7 DEF ApplyStart, ApplyStop, ApplyNothing, StartMotor, NoCommandChange
  <2>8. CASE SysTick \/ SysTickAtRest
    BY <2>1, <2>8, TickFrame DEF NoLoopChange
  <2>9. CASE UNCHANGED vars
    BY <2>9 DEF vars, loopVars
  <2> QED BY <2>2, <2>3, <2>4, <2>5, <2>6, <2>7, <2>8, <2>9 DEF LoopNext, LoopStep
<1> QED BY <1>1, <1>2, LoopInvariant, PTL DEF LoopSpec, LoopImplementsStore, Store!StoreSpec
-----------------------------------------------------------------------------
(* A claim of the source that fails only for want of a switch that is off.  *)

\* Nobody commands the motor: no client writes REG_MOTOR_CTRL, the switch is
\* off when the program starts and stays there.
Unattended == ~SwitchMoves /\ "CTRL" \notin ClientRegs /\ SwitchAtBoot = {FALSE}

\* Then no section of the loop finds a reason to run the motor.
QuietInv ==
  Unattended =>
    /\ ~switchState /\ ~switches.current /\ ~switches.last
    /\ "MotorStart" \notin pending /\ ~run
    /\ at # "start" /\ currentState = "STOPPED"

LEMMA InitQuiet == LoopInit => QuietInv
<1> SUFFICES ASSUME LoopInit, Unattended
             PROVE  /\ ~switchState /\ ~switches.current /\ ~switches.last
                    /\ "MotorStart" \notin pending /\ ~run
                    /\ at # "start" /\ currentState = "STOPPED"
  BY DEF QuietInv
<1>1. PICK s \in SwitchAtBoot, g \in Repaired(Invalid) :
        /\ at = "delay" /\ pending = {} /\ switchState = s /\ run = FALSE
        /\ switches = [current |-> FALSE, last |-> FALSE]
  BY DEF LoopInit, Booted
<1>2. currentState = "STOPPED"
  BY DEF LoopInit, MotorInit
<1> QED BY <1>1, <1>2 DEF Unattended

LEMMA NextQuiet == LoopTypeOK /\ QuietInv /\ [LoopNext]_vars => QuietInv'
<1> SUFFICES ASSUME LoopTypeOK, QuietInv, [LoopNext]_vars, Unattended
             PROVE  /\ ~switchState' /\ ~switches'.current /\ ~switches'.last
                    /\ "MotorStart" \notin pending' /\ ~run'
                    /\ at' # "start" /\ currentState' = "STOPPED"
  BY DEF QuietInv, Unattended
<1>0. /\ ~switchState /\ ~switches.current /\ ~switches.last
      /\ "MotorStart" \notin pending /\ ~run
      /\ at # "start" /\ currentState = "STOPPED"
      /\ ~SwitchMoves /\ "CTRL" \notin ClientRegs
      /\ switchState = FALSE /\ run = FALSE
      /\ switches \in [current : BOOLEAN, last : BOOLEAN]
  BY DEF QuietInv, Unattended, LoopTypeOK
<1> USE <1>0 DEF Goto, motorVars
<1>1. CASE ClientWrite
  BY <1>1 DEF ClientWrite, WriteMotorCtrl, WriteStreamCtrl, WriteEncoderDir, WriteBaud,
              WriteParameter, WriteSave, WriteReboot, NoOtherLoopChange, Written, Raise
<1>2. CASE SyncModbus \/ LwipDone \/ ReadMotor \/ SaveSettings
  BY <1>2 DEF SyncModbus, LwipDone, ReadMotor, SaveSettings
<1>3. CASE ReadSwitch
  BY <1>3 DEF ReadSwitch
<1>4. CASE Arbitrate
  <2>1. ~RunRequest
    BY DEF RunRequest, SwitchEdge
  <2> QED BY <1>4, <2>1 DEF Arbitrate
<1>5. CASE StreamCommands \/ BaudMask \/ BaudSet \/ BaudResume \/ EncoderDirection \/ RebootTest
  BY <1>5 DEF StreamCommands, BaudMask, BaudSet, BaudResume, EncoderDirection, RebootTest
<1>6. CASE ApplyStart \/ StartMotor
  BY <1>6 DEF ApplyStart, StartMotor
<1>7. CASE ApplyStop \/ ApplyNothing
  BY <1>7 DEF ApplyStop, ApplyNothing, Stop, StoppableStates, NoCommandChange
<1>8. CASE SystemReset \/ PowerCut
  <2>1. PICK f \in {flash, Invalid} : Reboot(f)
    BY <1>8 DEF SystemReset, PowerCut
  <2>2. /\ switchState' = switchState /\ at' = "delay" /\ pending' = {} /\ run' = FALSE
        /\ switches' = [current |-> FALSE, last |-> FALSE]
    BY <2>1 DEF Reboot, Booted
  <2>3. currentState' = "STOPPED"
    BY <2>1 DEF Reboot, MotorReset
  <2> QED BY <2>2, <2>3
<1>9. CASE SysTick \/ SysTickAtRest
  BY <1>9 DEF SysTick, SysTickAtRest, KinematicTick, TickAccelerate, TickDecelerate,
              SwitchMayChange, NoLoopChange
<1>10. CASE UNCHANGED vars
  BY <1>10 DEF vars, loopVars
<1> QED BY <1>1, <1>2, <1>3, <1>4, <1>5, <1>6, <1>7, <1>8, <1>9, <1>10 DEF LoopNext, LoopStep

\* "The physical switch only overrides the system when its physical state
\* CHANGES" (main.c:241) is true of a switch that is off at boot: the run
\* boot_switch shows that of one that is on it is not.
THEOREM RestsIfOff ==
  ASSUME SwitchAtBoot = {FALSE}
  PROVE  LoopSpec => []RestsUntouched
<1>1. LoopIInv /\ QuietInv /\ [LoopNext]_vars => QuietInv'
  BY NextQuiet DEF LoopIInv
<1>2. QuietInv => RestsUntouched
  BY DEF QuietInv, Unattended, RestsUntouched
<1> QED BY <1>1, <1>2, InitQuiet, LoopInvariant, PTL DEF LoopSpec
=============================================================================
