------------------------- MODULE MainLoopProperties -------------------------
(***************************************************************************)
(* What makes the super-loop of module MainLoop correct.                   *)
(***************************************************************************)
EXTENDS MainLoop

\* The types of the statics, the registers and the flash.
LoopTypeOK ==
  /\ at \in Sections /\ pending \subseteq Flags
  /\ config \in Configs /\ settings \in Configs /\ flash \in Configs \cup {Invalid}
  /\ switchState \in BOOLEAN /\ switches \in [current : BOOLEAN, last : BOOLEAN]
  /\ motorState \in States /\ run \in BOOLEAN /\ lamp \in {"OFF", "ON", "BLINK_FAST"}
  /\ stream \in [active : BOOLEAN, resume : BOOLEAN, exti : BOOLEAN]
  /\ uart \in Bauds /\ encoder \in BOOLEAN
  /\ lastWord \in {"none", "start", "stop"} /\ saving \in BOOLEAN

-----------------------------------------------------------------------------
(* The motor. *)

\* The loop is a proper client of the drive, although it decides on a state it
\* read at the top of the pass (main.c:210) while SysTick went on: it asks for
\* a profile at rest only and starts the motor before it does anything else.
\* So what is proved of MotorSpec holds of the drive inside the firmware.
UsesDriveProperly == MotorSafety

\* The state the loop acts on (main.c:318) is at most one transition of the
\* tick behind: it never takes a moving motor for a stopped one.
SnapshotSafe ==
  at \in {"save", "arbitrate", "stream", "baudMask", "baudSet", "baudResume",
          "encoder", "reboot", "apply"} =>
    \/ motorState = currentState
    \/ motorState = "ACCELERATING" /\ currentState = "CRUISING"
    \/ motorState = "DECELERATING" /\ currentState = "STOPPED"

\* The motor only starts if the last thing an operator said, by register or by
\* switch, was "start": a request is consumed once, and a stop outlives the
\* motion it ends (main.c:242-259, 325-328).
NoSurpriseMotion ==
  [][currentState = "STOPPED" /\ currentState' = "ACCELERATING"
       => lastWord = "start"]_vars

\* Whoever says "stop", in whatever state of the motor, gets it stopped, unless
\* somebody says "start" later.
StopObeyed == lastWord = "stop" ~> currentState = "STOPPED" \/ lastWord # "stop"

\* A start that no stop of the same batch accompanies brings the motor to
\* speed, also if it came while the motor was running down (main.c:249, :325),
\* unless a stop or a reset comes first.
StartObeyed ==
  at = "arbitrate" /\ "MotorStart" \in pending /\ "MotorStop" \notin pending
  ~> currentState = "CRUISING" \/ lastWord # "start"

\* The lamp follows a motor that stays at rest or at speed.
LampFollows ==
  /\ currentState = "STOPPED"  ~> lamp = "OFF" \/ currentState # "STOPPED"
  /\ currentState = "CRUISING" ~> lamp = "ON"  \/ currentState # "CRUISING"

-----------------------------------------------------------------------------
(* Settings and the telemetry stream. *)

\* The encoder lines are unmasked exactly while REG_STREAM_CTRL reads 1, except
\* while the baud rate is changed: neither start and stop requests of the same
\* batch nor the stop and resume around a change leave them apart
\* (main.c:260-294).  During the change no encoder step can start a transmission.
StreamMask ==
  IF at \in {"baudSet", "baudResume"} THEN ~stream.exti ELSE stream.exti = stream.active

\* Types, and the encoder lines follow REG_STREAM_CTRL.
LoopInv == LoopTypeOK /\ StreamMask

\* What the registers say of the UART and the encoder is what the hardware
\* does, or will do within the pass.
WritesApplied ==
  at # "delay" =>
    /\ uart = config.baud \/ "BaudChange" \in pending \/ at \in {"baudMask", "baudSet"}
    /\ encoder = config.encoderReversed \/ "EncoderDir" \in pending

\* A client that sends save and reboot together finds what it had configured
\* after the reboot, because the loop saves before it reboots (main.c:215,
\* :299), unless the flash failed.
SaveSurvivesReboot ==
  [][saving /\ at = "dying" /\ at' = "delay" => settings' = config]_vars

\* Saving and booting, as the loop sees them, keep the promises of
\* SettingsStore that module Settings shows for the flash word by word.
Store == INSTANCE SettingsStore
           WITH Whole <- Configs, Factory <- DefaultSettings, Nothing <- Invalid,
                stored <- flash, adopted <- settings
LoopImplementsStore == Store!StoreSpec

-----------------------------------------------------------------------------
(* The inductive invariant: LoopTypeOK, SnapshotSafe, StreamMask and        *)
(* WritesApplied strengthened by what relates the sections of a pass.       *)

\* The loop is between computing a profile and the end of App_Motor_Start
\* exactly where the drive says so, and no tick moves the motor before it is
\* started.
StartInv ==
  /\ currentState \in States /\ mpc \in Places
  /\ at = "start" <=> mpc # "idle"
  /\ mpc = "profiled" => currentState = "STOPPED"

\* StreamMask, and while the lines are masked for the change of the baud rate
\* bStreamingState remembers REG_STREAM_CTRL.
StreamInv ==
  IF at \in {"baudSet", "baudResume"} THEN ~stream.exti /\ stream.resume = stream.active
  ELSE stream.exti = stream.active

\* During the start-up delay UART and encoder are set up from the settings the
\* registers will be copied from.
HardwareInv ==
  /\ WritesApplied
  /\ at = "delay" => uart = settings.baud /\ encoder = settings.encoderReversed

\* A save of this pass is outstanding until its section, and has put the
\* registers, which no client writes after MX_LWIP_Process, into the flash
\* afterwards.
SaveInv ==
  saving =>
    /\ at # "delay"
    /\ IF at \in {"lwip", "switch", "motor", "save"} THEN "SaveCmd" \in pending
       ELSE flash = config /\ settings = config

\* Unless a command still waits to be looked at, the motor is asked to run
\* because the last command said so; a start that waits alone is the last one.
CommandInv ==
  /\ {"MotorStart", "MotorStop"} \cap pending = {} => (run => lastWord = "start")
  /\ "MotorStart" \in pending /\ "MotorStop" \notin pending => lastWord = "start"
  /\ at \notin {"lwip", "switch", "motor", "save", "arbitrate"} =>
       {"MotorStart", "MotorStop"} \cap pending = {}
  /\ at = "start" => run

LoopIInv == LoopTypeOK /\ SnapshotSafe /\ StartInv /\ StreamInv /\ HardwareInv /\ SaveInv
            /\ CommandInv

-----------------------------------------------------------------------------
(* A claim of the source that does not hold; see the README. *)

\* "The physical switch only overrides the system when its physical state
\* CHANGES" (main.c:241): nobody moves it, no client writes, the motor rests.
RestsUntouched == ~SwitchMoves /\ ClientRegs = {} => currentState = "STOPPED"
=============================================================================
