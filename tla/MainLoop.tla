------------------------------ MODULE MainLoop ------------------------------
(***************************************************************************)
(* The super-loop of src/src/main.c with everything it arbitrates: Modbus  *)
(* clients (the FC06 branch of src/src/app_modbus.c), the operator's       *)
(* switch, the settings in flash, the telemetry stream, and the drive of   *)
(* module Motor.  lwIP runs without an OS: its callbacks execute inside    *)
(* MX_LWIP_Process, so clients act only at place "lwip", but several       *)
(* requests may be handled there before the loop looks at their flags.     *)
(* SysTick interrupts the loop between any two steps.                      *)
(*                                                                         *)
(* One step is a section of the loop body.  A SysTick changes the motor,   *)
(* the debounced switch and nothing else, so sections that touch neither   *)
(* are not split further, except around the UART's baud rate.              *)
(***************************************************************************)
EXTENDS Motor

CONSTANTS
  ClientRegs,       \* the registers clients write, a subset of Registers
  Bauds,            \* values of REG_UART_BAUD
  DefaultSettings,  \* defaultSettings of app_settings.c
  SwitchAtBoot,     \* positions the switch may have when the program starts
  SwitchMoves,      \* TRUE if the operator uses the switch
  PowerMayFail,     \* TRUE if the supply may fail at any moment
  FlashMayFail,     \* TRUE if erasing or programming the flash may fail
  Invalid           \* a flash sector whose record does not verify

Registers == {"CTRL", "DIR", "RPM", "ACCEL", "MICROSTEPS", "STREAM", "ENCODER_DIR",
              "BAUD", "AUTO_STREAM", "SAVE", "REBOOT"}

\* The parameters ModbusConfig_t and SystemSettings_t have in common.
Configs == [rpm : RpmRegs, accel : AccelRegs, microsteps : MicrostepRegs,
            direction : BOOLEAN, encoderReversed : BOOLEAN, baud : Bauds,
            autoStream : BOOLEAN]

ASSUME LoopAssumption ==
  /\ ClientRegs \subseteq Registers /\ DefaultSettings \in Configs
  /\ Invalid \notin Configs
  /\ SwitchAtBoot \subseteq BOOLEAN /\ SwitchAtBoot # {}
  /\ {SwitchMoves, PowerMayFail, FlashMayFail} \subseteq BOOLEAN

VARIABLES
  at,           \* the next section of main() to execute
  pending,      \* the pending... flags of ModbusConfig_t that are raised
  config,       \* the parameters of ModbusConfig_t
  settings,     \* activeSettings, the RAM copy of app_settings.c
  flash,        \* sector 11: a configuration, or Invalid if the record does not verify
  switchState,  \* switchStableState of app_switch.c
  switches,     \* [current, last] : the statics currentSwitchState, lastSwitchState
  motorState,   \* the static motorState, read once per pass
  run,          \* the static sysMotorRunRequest
  lamp,         \* the mode of lamp 0
  stream,       \* [active, resume, exti] : mb->streamActive, bStreamingState and
                \* whether the encoder lines are unmasked in EXTI->IMR
  uart,         \* baud rate USART6 is configured for
  encoder,      \* TIM4 counts reversed
  lastWord,     \* history: the last motor command of a client or of the switch
  saving        \* history: this pass received REG_SAVE_SETTINGS and its save has
                \* not failed

loopVars == <<at, pending, config, settings, flash, switchState, switches, motorState,
              run, lamp, stream, uart, encoder, lastWord, saving>>
vars == <<motorVars, loopVars>>

Flags == {"MotorStart", "MotorStop", "StreamStart", "StreamStop", "EncoderDir",
          "BaudChange", "SaveCmd", "RebootCmd"}

\* The sections, in the order of the loop; "delay" is the start-up, "dying" the
\* HAL_Delay(1000) before the software reset, "start" inside App_Motor_Start.
Sections == {"delay", "lwip", "switch", "motor", "save", "arbitrate", "stream",
             "baudMask", "baudSet", "baudResume", "encoder", "reboot", "dying",
             "apply", "start"}

-----------------------------------------------------------------------------
(* Boot: main.c:152-198. *)

\* App_Settings_Init: a record that does not verify is replaced by the defaults,
\* in RAM and, if that does not fail, in flash.
Loaded(f) == IF f = Invalid THEN DefaultSettings ELSE f
Repaired(f) == {Loaded(f)} \cup IF FlashMayFail THEN {f} ELSE {}

\* The state before HAL_Delay(STARTUP_DELAY_MS): the flash had f and has g, the
\* switch is at s.  Nobody reads the registers before SyncModbus, so that their
\* initializers (app_modbus.c:18-41) are not told from the defaults.
Booted(f, g, s) ==
  [at |-> "delay", pending |-> {}, config |-> DefaultSettings,
   settings |-> Loaded(f), flash |-> g, switchState |-> s,
   switches |-> [current |-> FALSE, last |-> FALSE], motorState |-> "STOPPED",
   run |-> FALSE, lamp |-> "OFF",
   stream |-> [active |-> FALSE, resume |-> FALSE, exti |-> FALSE],
   uart |-> Loaded(f).baud, encoder |-> Loaded(f).encoderReversed]

LoopInit ==
  /\ MotorInit
  /\ \E s \in SwitchAtBoot, g \in Repaired(Invalid) :
       LET b == Booted(Invalid, g, s) IN
       /\ at = b.at /\ pending = b.pending /\ config = b.config
       /\ settings = b.settings /\ flash = b.flash /\ switchState = b.switchState
       /\ switches = b.switches /\ motorState = b.motorState /\ run = b.run
       /\ lamp = b.lamp /\ stream = b.stream /\ uart = b.uart /\ encoder = b.encoder
  /\ lastWord = "none" /\ saving = FALSE

\* Everything but the flash is lost; the program runs up to the delay.
Reboot(f) ==
  /\ MotorReset
  /\ \E s \in IF SwitchMoves THEN BOOLEAN ELSE {switchState}, g \in Repaired(f) :
       LET b == Booted(f, g, s) IN
       /\ at' = b.at /\ pending' = b.pending /\ config' = b.config
       /\ settings' = b.settings /\ flash' = b.flash /\ switchState' = b.switchState
       /\ switches' = b.switches /\ motorState' = b.motorState /\ run' = b.run
       /\ lamp' = b.lamp /\ stream' = b.stream /\ uart' = b.uart /\ encoder' = b.encoder
  /\ lastWord' = "none" /\ saving' = FALSE

\* Mutant: one parameter is not copied.
BaudForgotten == [settings EXCEPT !.baud = config.baud]
SyncedConfig == settings

\* After the delay: the Modbus registers take the values of the settings.
SyncModbus ==
  /\ at = "delay"
  /\ config' = SyncedConfig
  /\ pending' = IF settings.autoStream THEN {"StreamStart"} ELSE {}
  /\ at' = "lwip"
  /\ UNCHANGED <<motorVars, settings, flash, switchState, switches, motorState, run,
                 lamp, stream, uart, encoder, lastWord, saving>>

-----------------------------------------------------------------------------
(* Clients: the FC06 branch of modbus_recv_cb, during MX_LWIP_Process. *)

Written(reg) == at = "lwip" /\ reg \in ClientRegs

Raise(flag) == pending' = pending \cup {flag}

NoOtherLoopChange ==
  UNCHANGED <<motorVars, at, settings, flash, switchState, switches, motorState, run,
              lamp, stream, uart, encoder>>

\* REG_MOTOR_CTRL and REG_STREAM_CTRL: 1 starts, anything else stops.
WriteMotorCtrl(start) ==
  /\ Written("CTRL")
  /\ Raise(IF start THEN "MotorStart" ELSE "MotorStop")
  /\ lastWord' = IF start THEN "start" ELSE "stop"
  /\ NoOtherLoopChange /\ UNCHANGED <<config, saving>>

WriteStreamCtrl(start) ==
  /\ Written("STREAM")
  /\ Raise(IF start THEN "StreamStart" ELSE "StreamStop")
  /\ NoOtherLoopChange /\ UNCHANGED <<config, lastWord, saving>>

\* Parameters no flag goes with; the main loop reads them when it needs them.
WriteParameter ==
  /\ \/ Written("DIR") /\ \E v \in BOOLEAN : config' = [config EXCEPT !.direction = v]
     \/ Written("RPM") /\ \E v \in RpmRegs : config' = [config EXCEPT !.rpm = v]
     \/ Written("ACCEL") /\ \E v \in AccelRegs : config' = [config EXCEPT !.accel = v]
     \/ Written("MICROSTEPS")
        /\ \E v \in MicrostepRegs : config' = [config EXCEPT !.microsteps = v]
     \/ Written("AUTO_STREAM")
        /\ \E v \in BOOLEAN : config' = [config EXCEPT !.autoStream = v]
  /\ NoOtherLoopChange /\ UNCHANGED <<pending, lastWord, saving>>

WriteEncoderDir(v) ==
  /\ Written("ENCODER_DIR")
  /\ config' = [config EXCEPT !.encoderReversed = v] /\ Raise("EncoderDir")
  /\ NoOtherLoopChange /\ UNCHANGED <<lastWord, saving>>

WriteBaud(v) ==
  /\ Written("BAUD")
  /\ config' = [config EXCEPT !.baud = v] /\ Raise("BaudChange")
  /\ NoOtherLoopChange /\ UNCHANGED <<lastWord, saving>>

WriteSave ==
  /\ Written("SAVE") /\ Raise("SaveCmd") /\ saving' = TRUE
  /\ NoOtherLoopChange /\ UNCHANGED <<config, lastWord>>

WriteReboot ==
  /\ Written("REBOOT") /\ Raise("RebootCmd")
  /\ NoOtherLoopChange /\ UNCHANGED <<config, lastWord, saving>>

ClientWrite ==
  \/ \E b \in BOOLEAN : WriteMotorCtrl(b) \/ WriteStreamCtrl(b) \/ WriteEncoderDir(b)
  \/ \E v \in Bauds : WriteBaud(v)
  \/ WriteParameter \/ WriteSave \/ WriteReboot

-----------------------------------------------------------------------------
(* The loop body, main.c:208-358. *)

Goto(from, to) == at = from /\ at' = to

\* MX_LWIP_Process returns.
LwipDone ==
  /\ Goto("lwip", "switch")
  /\ UNCHANGED <<motorVars, pending, config, settings, flash, switchState, switches,
                 motorState, run, lamp, stream, uart, encoder, lastWord, saving>>

ReadSwitch ==
  /\ Goto("switch", "motor")
  /\ switches' = [switches EXCEPT !.current = switchState]
  /\ UNCHANGED <<motorVars, pending, config, settings, flash, switchState, motorState,
                 run, lamp, stream, uart, encoder, lastWord, saving>>

\* Mutant: the state is read in the pass before.
SnapshotOfLastPass == motorState
Snapshot == currentState

ReadMotor ==
  /\ Goto("motor", "save")
  /\ motorState' = Snapshot
  /\ UNCHANGED <<motorVars, pending, config, settings, flash, switchState, switches,
                 run, lamp, stream, uart, encoder, lastWord, saving>>

\* Mutant: a field of the static newCfg is not filled in.
PartialConfig == [config EXCEPT !.microsteps = 0]
NewConfig == config

\* Mutant: the RAM copy is updated although the save failed.
AdoptAnyway == settings' = config
KeepSettings == UNCHANGED settings

\* main.c:215-232 and App_Settings_Save, in one step: while the sector is
\* erased no code runs from flash, so neither does SysTick.  The RAM copy is
\* replaced only on success; module Settings has the words.
SaveSettings ==
  /\ Goto("save", "arbitrate")
  /\ IF "SaveCmd" \in pending
       THEN /\ pending' = pending \ {"SaveCmd"}
            /\ \/ flash' = NewConfig /\ settings' = NewConfig /\ UNCHANGED saving
               \/ /\ FlashMayFail /\ flash' \in {flash, Invalid}
                  /\ saving' = FALSE /\ KeepSettings
       ELSE UNCHANGED <<pending, flash, settings, saving>>
  /\ UNCHANGED <<motorVars, config, switchState, switches, motorState, run, lamp,
                 stream, uart, encoder, lastWord>>

SwitchEdge == switches.current # switches.last

\* Mutant: the position of the switch counts, not its edge.
SwitchLevelCounts ==
  IF "MotorStop" \in pending THEN FALSE
  ELSE IF "MotorStart" \in pending THEN TRUE ELSE switches.current

\* main.c:242-259: three assignments in a row, the last one counts.
RunRequest ==
  IF "MotorStop" \in pending THEN FALSE
  ELSE IF "MotorStart" \in pending THEN TRUE
  ELSE IF SwitchEdge THEN switches.current ELSE run

\* Mutant: a start request is not acknowledged.
StopOnly == {"MotorStop"}
Acknowledged == {"MotorStart", "MotorStop"}

Arbitrate ==
  /\ Goto("arbitrate", "stream")
  /\ switches' = [switches EXCEPT !.last = switches.current]
  /\ run' = RunRequest
  /\ pending' = pending \ Acknowledged
  /\ lastWord' = IF SwitchEdge /\ {"MotorStart", "MotorStop"} \cap pending = {}
                   THEN IF switches.current THEN "start" ELSE "stop"
                   ELSE lastWord
  /\ UNCHANGED <<motorVars, config, settings, flash, switchState, motorState, lamp,
                 stream, uart, encoder, saving>>

\* main.c:260-273, then the test of 274.
StreamRequested ==
  IF "StreamStop" \in pending THEN FALSE
  ELSE "StreamStart" \in pending \/ stream.active

StreamCommands ==
  /\ Goto("stream", IF "BaudChange" \in pending THEN "baudMask" ELSE "encoder")
  /\ stream' = [stream EXCEPT !.active = StreamRequested,
                  !.exti = IF StreamRequested # stream.active THEN StreamRequested ELSE @]
  /\ pending' = pending \ {"StreamStart", "StreamStop", "BaudChange"}
  /\ UNCHANGED <<motorVars, config, settings, flash, switchState, switches, motorState,
                 run, lamp, uart, encoder, lastWord, saving>>

\* App_Telemetry_StopStream if the stream was active.
MaskedForBaud == stream.exti /\ ~stream.active

\* main.c:279-294: stop the stream, change the rate, resume the stream.
BaudMask ==
  /\ Goto("baudMask", "baudSet")
  /\ stream' = [stream EXCEPT !.resume = stream.active, !.exti = MaskedForBaud]
  /\ UNCHANGED <<motorVars, pending, config, settings, flash, switchState, switches,
                 motorState, run, lamp, uart, encoder, lastWord, saving>>

BaudSet ==
  /\ Goto("baudSet", "baudResume")
  /\ uart' = config.baud
  /\ UNCHANGED <<motorVars, pending, config, settings, flash, switchState, switches,
                 motorState, run, lamp, stream, encoder, lastWord, saving>>

\* Mutant: streaming always resumes.
ResumeAlways == TRUE
ResumeAfterBaud == stream.resume \/ stream.exti

BaudResume ==
  /\ Goto("baudResume", "encoder")
  /\ stream' = [stream EXCEPT !.exti = ResumeAfterBaud]
  /\ UNCHANGED <<motorVars, pending, config, settings, flash, switchState, switches,
                 motorState, run, lamp, uart, encoder, lastWord, saving>>

\* main.c:295-298.
EncoderDirection ==
  /\ Goto("encoder", "reboot")
  /\ encoder' = IF "EncoderDir" \in pending THEN config.encoderReversed ELSE encoder
  /\ pending' = pending \ {"EncoderDir"}
  /\ UNCHANGED <<motorVars, config, settings, flash, switchState, switches, motorState,
                 run, lamp, stream, uart, lastWord, saving>>

\* main.c:299-309.
RebootTest ==
  /\ Goto("reboot", IF "RebootCmd" \in pending THEN "dying" ELSE "apply")
  /\ pending' = pending \ {"RebootCmd"}
  /\ UNCHANGED <<motorVars, config, settings, flash, switchState, switches, motorState,
                 run, lamp, stream, uart, encoder, lastWord, saving>>

\* NVIC_SystemReset, main.c:312.
SystemReset == at = "dying" /\ Reboot(flash)

-----------------------------------------------------------------------------
(* The motor state machine, main.c:318-358, on the state read at "motor". *)

\* Mutant: steady and blinking are mixed up.
LampMixedUp(state) == CASE state = "STOPPED" -> "OFF" [] state = "CRUISING" -> "BLINK_FAST"
                        [] OTHER -> "ON"
LampOf(state) == CASE state = "STOPPED" -> "OFF" [] state = "CRUISING" -> "ON"
                   [] OTHER -> "BLINK_FAST"

NoCommandChange ==
  UNCHANGED <<pending, config, settings, flash, switchState, switches, motorState, run,
              stream, uart, encoder, lastWord>>

\* Mutant: a run request restarts a motor that is still stopping.
RestartableStates == {"STOPPED", "DECELERATING"}
StartableStates == {"STOPPED"}

ApplyStart ==
  /\ motorState \in StartableStates /\ run
  /\ Goto("apply", "start")
  /\ CalculateProfile(config.rpm, config.accel, config.microsteps)
  /\ lamp' = LampOf(motorState)
  /\ NoCommandChange /\ UNCHANGED saving

\* Mutant: a stop is noticed during the climb only.
StopWhileClimbing == {"ACCELERATING"}
StopStates == {"ACCELERATING", "CRUISING"}

\* App_Motor_Stop returns at once from the other states.
ApplyStop ==
  /\ motorState \in StopStates /\ ~run
  /\ Goto("apply", "lwip")
  /\ IF currentState \in StoppableStates THEN Stop ELSE UNCHANGED motorVars
  /\ lamp' = LampOf(motorState) /\ saving' = FALSE
  /\ NoCommandChange

ApplyNothing ==
  /\ ~(motorState \in StartableStates /\ run) /\ ~(motorState \in StopStates /\ ~run)
  /\ Goto("apply", "lwip")
  /\ lamp' = LampOf(motorState) /\ saving' = FALSE
  /\ NoCommandChange /\ UNCHANGED motorVars

\* App_Motor_Start(mb->motorDirection), to its end.
StartMotor ==
  /\ at = "start"
  /\ \/ StartArm(config.direction) /\ UNCHANGED <<at, saving>>
     \/ (StartSetArr \/ StartSetCcr) /\ UNCHANGED <<at, saving>>
     \/ StartTimer /\ at' = "lwip" /\ saving' = FALSE
  /\ NoCommandChange /\ UNCHANGED lamp

LoopStep ==
  \/ SyncModbus \/ LwipDone \/ ReadSwitch \/ ReadMotor \/ SaveSettings \/ Arbitrate
  \/ StreamCommands \/ BaudMask \/ BaudSet \/ BaudResume \/ EncoderDirection
  \/ RebootTest \/ SystemReset \/ ApplyStart \/ ApplyStop \/ ApplyNothing \/ StartMotor

-----------------------------------------------------------------------------
(* Interrupts and the supply. *)

SwitchMayChange == switchState' \in IF SwitchMoves THEN BOOLEAN ELSE {switchState}

NoLoopChange ==
  UNCHANGED <<at, pending, config, settings, flash, switches, motorState, run, lamp,
              stream, uart, encoder, lastWord, saving>>

\* SysTick_Handler: the kinematic tick, then the debounced switch (module
\* Switch says when it may change).
SysTick ==
  /\ KinematicTick
  /\ SwitchMayChange /\ NoLoopChange

\* The same in the two states where the kinematic tick does nothing.
SysTickAtRest ==
  /\ currentState \in {"STOPPED", "CRUISING"} /\ TickMayFall
  /\ SwitchMayChange /\ NoLoopChange /\ UNCHANGED motorVars

\* During a save the sector may have been erased and not yet rewritten.
PowerCut ==
  /\ PowerMayFail
  /\ \/ Reboot(flash)
     \/ at = "save" /\ "SaveCmd" \in pending /\ Reboot(Invalid)

LoopNext == ClientWrite \/ LoopStep \/ SysTick \/ SysTickAtRest \/ PowerCut

\* The loop runs (MX_LWIP_Process always returns) and SysTick keeps firing.
LoopSpec ==
  /\ LoopInit /\ [][LoopNext]_vars
  /\ WF_vars(LoopStep) /\ WF_vars(SysTick)
=============================================================================
