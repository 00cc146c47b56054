# A verification project for MDCMotorControl

MDCMotorControl is the firmware of an STM32F407 board that turns a radar antenna with a
stepper motor, measures its position with an incremental encoder, and talks Modbus TCP
(commands, parameters) and a small binary protocol on a UART (positions). It has no
operating system: a super-loop in `main.c`, the SysTick interrupt once per millisecond,
and three more interrupt sources share static variables and a few peripherals.

This directory holds TLA+ models of its core logic, TLC configurations that check them on
small instances, and TLAPS proofs, for all values of the constants, of every safety property the runs check.
Line numbers refer to the sources under `src/src/`.

- [1. Inventory](#1-inventory)
- [2. Modules](#2-modules)
- [3. Runs](#3-runs)
- [4. Fairness](#4-fairness)
- [5. Proofs](#5-proofs)
- [6. What the code does differently from what it says](#6-what-the-code-does-differently-from-what-it-says)
- [7. Abstractions and what is not modelled](#7-abstractions-and-what-is-not-modelled)
- [8. Plan](#8-plan)

To repeat the checks: `tlc -config Motor.cfg MCMotor` and likewise for each row of
section 3; `tlapm MotorProofs.tla` and likewise for each module of section 5.

## 1. Inventory

### Who runs when

| context | priority | runs | shares with the others |
|---|---|---|---|
| `main()` | thread | boot, then the super-loop; lwIP and the Modbus callbacks run inside `MX_LWIP_Process` | everything below |
| SysTick | 14 | `App_Motor_KinematicTick_1ms`, `App_Switch_Tick_1ms`, `App_Lamp_Tick_1ms` | `currentState`, `currentFreq`, TIM2, EN pin; `switchStableState`; `currentModes`, `timeCounters` |
| USART6; DMA2 stream 6 hands its end of transfer to it (1) | 5 | byte parser, answer to a position request, end of a transfer | `huart6`, `tx_buffer` |
| EXTI9_5 | 2 | a packet per encoder step while the stream is on | `huart6`, `tx_buffer`, `lastSentPos` |
| EXTI2 | 0 | index (Z) pulse: cycle time and heartbeat | `lastRevolutionTimeUs`, `cycleCounter` |

An interrupt preempts those with a larger number and the thread, anywhere.

### Components

| component | state | operations | what makes it correct |
|---|---|---|---|
| **Motor drive** (`app_motor.c`, `hal_motor.c`) | `shaft` (profile), `currentState`, `currentFreq`; TIM2 period and duty, EN, DIR | `CalculateProfile`, `Start`, `Stop` (loop); `KinematicTick_1ms` (SysTick) | pulses run exactly during a motion; ramps follow a straight line of the configured length as closely as float sums can; the pulse rate never jumps; a stop ends at rest; direction and profile change at rest only |
| **Super-loop and boot** (`main.c`) | its statics: last switch state, motor state of this pass, run request, stream resume, ... | boot; per pass: network, switch, motor state, save, arbitration, stream, baud rate, encoder direction, reboot, motor state machine, lamp | last word of the operator wins; no motion nobody asked for; decisions on the state read at the top of a pass stay right; registers, flash and hardware agree |
| **Modbus commands** (`app_modbus.c`) | `ModbusCfg` (parameters and pending flags); the connection is kept by lwIP | FC03 reads, FC06 writes | a write that is acknowledged has its effect, a read tells what is; no client is misled or kept waiting |
| **Settings** (`app_settings.c`) | `activeSettings` in RAM, a record with magic word and CRC-32 in flash sector 11 | `Init`, `Get`, `Save` | whole or not at all, whatever fails and whenever the supply goes |
| **Switch** (`app_switch.c`, `hal_switch.c`) | stable state, last raw state, counter | `Init`, `Tick_1ms`, `GetState` | no false toggles, no lost or late ones |
| **Telemetry** (`app_telemetry.c`, `hal_telemtry.c`) | parser state; `tx_buffer`, UART handle, DMA stream 6 | byte received, encoder step, start/stop stream, set baud rate | whole packets, no UART that stays busy |
| **Encoder** (`app_encoder.c`, `hal_encoder.c`) | TIM4 count, `lastSentPos`, cycle time, heartbeat, first-pulse flag | step and Z interrupts, position, direction | times and counters of the same revolution; wrap-around |
| **Lamps** (`app_lamp.c`, `hal_lamp.c`) | mode and blink timer per lamp | set mode, update | the lamp tells what the motor does |
| **CRC-8** (`crc8.c`) | none | one function | polynomial division |
| **Ethernet and lwIP port** (`ethernetif.c`, `lwip.c`) | pool of 12 receive buffers, `RxAllocStatus`, link state, IP address | poll, allocate and free a buffer, link check | no buffer lost or used twice; an empty pool does not deafen the receiver |
| **System setup**, vendored lwIP and SEGGER RTT, host tools | | | not part of the logic modelled here |

### How they interact

```
 Modbus client --FC06--> ModbusCfg, pending flags --\
 operator ---> Switch (SysTick) ---> switchStableState ---> super-loop ---> Start/Stop ---> drive
                                                       /     |   |  \            ^
 flash <--- Settings <--- save, boot -----------------/      |   |   lamp        | SysTick: kinematic tick
                                                             |   `---> SetBaudRate, Start/StopStream
 UART host --request--> USART6 ----\                         |                   |
 encoder ---step------> EXTI9_5 ----+--> tx_buffer, DMA <----+-------------------/
```

### What is hard about it

Interleavings of the loop and SysTick inside `App_Motor_Start` and between the reading of the
motor state and its use; two interrupts of different priority and the DMA on one transmit
buffer; several requests that raise flags in one `MX_LWIP_Process` and are looked at in
a fixed order; requests that are skipped and answers that wait or get lost; a power failure between any two words of a save; the first use of statics
that boot leaves at zero. The full list, each entry at its line, is under `hazards` in
`PROJECT.json`, with the properties that cover it or the reason why none does yet.

## 2. Modules

| module | models |
|---|---|
| `Motor` | the drive, with both contexts |
| `MotionPhases` | what the drive promises: the life cycle of a motion |
| `MotorProperties` | properties of the drive, its inductive invariant, the refinement mapping |
| `MainLoop` | boot, super-loop, Modbus writes, SysTick; extends `Motor`, so the drive is in it step by step |
| `MainLoopProperties` | properties of the whole |
| `Settings` | saving and loading, flash word by flash word |
| `SettingsStore` | what the settings promise: a configuration is stored and adopted as a whole |
| `SettingsProperties` | properties of `Settings`, the refinement mapping to `SettingsStore` |
| `Switch`, `SwitchProperties` | debouncing |
| `Lamp`, `LampProperties` | the mode of the lamp, store by store, and blinking |
| `Panel` | `Switch` and `Lamp` under one SysTick |
| `TelemetryTx`, `TelemetryProperties` | the transmit side of the UART with both producers, the DMA and baud rate changes |
| `TelemetryRx` | the byte parser, for any check byte |
| `Telemetry` | `TelemetryRx` deciding what `TelemetryTx` answers, with the properties and the invariant of the parser |
| `Crc8` | the check byte, as the code computes it and as polynomial division |
| `Encoder`, `EncoderProperties` | count, index pulses, time of revolution, heartbeat, and their readers |
| `ModbusServer`, `ModbusServerProperties` | requests and answers of one connection, with the receive buffers below and the queues of lwIP around |
| `RemoteRegister` | what the Modbus server promises a client: requests in their order, each at most once, and true answers |
| `MCMotor`, `MCMainLoop`, `MCSettings`, `MCTelemetry` | sets of values for TLC; `MCTelemetry` gives the parser the check bytes of `Crc8` |
| `MotorProofs`, `MainLoopProofs`, `SettingsProofs`, `PanelProofs`, `EncoderProofs`, `TelemetryProofs`, `ParserProofs`, `ModbusServerProofs` | theorems and proofs (section 5) |

Each `...Properties` module, and `Telemetry` for the parser, ends with the inductive invariant the proofs use, in named parts (`...IInv`).

### Motor

State: `shaft` is the static `ShaftProfile_t`; `currentState` and `currentFreq` are the statics;
`arr` and `ccr` are the frequencies TIM2's period and duty registers were computed from (0: still
what `HAL_Motor_Init` left); `timerOn`, `enabled`, `dir` are the pins as the code drives them; `mpc` is
where the main loop is between `App_Motor_CalculateProfile` and the end of `App_Motor_Start`.
`startTicked`, `legFreq` and `legTicks` are history variables: the frequency at which the present climb or descent (leg) began, and its ticks, counted up
to `TicksCounted`.

Actions: `CalculateProfile`; `StartArm`, `StartSetArr`, `StartSetCcr`, `StartTimer` are `App_Motor_Start`, split
at every store a tick can tell apart; `Stop`; `TickAccelerate` and `TickDecelerate` are the two branches of
`App_Motor_KinematicTick_1ms` (in the other two states it does nothing); `MotorReset` is a reset or
power loss at any moment.

- *Frequencies are floats*: `currentFreq`, `startFreq`, `targetFreq` and `accelStepPerMs` are members of `Floats`, counted in so small a unit that all of them
  are integers (`Grain` of them are 1 Hz). `Rounded(n, d)` is the float nearest to n/d, of two the even one, as in IEEE 754. `deltaFreqHz`, `accelStepPerMs` and
  the sums of `app_motor.c:134` and `:145` are rounded where the code rounds them, so that the ramp drifts from its line, ends earlier or later than
  configured, and may lose a small step altogether. `FloatAssumption` is all the proofs know of a format: it is symmetric, has 0 and 1 Hz, and a float within
  1/`Precision` of every number in its range. The two chains of four operations that give `startFreq` and `targetFreq` are rounded once, at their end (`FreqOf`), and
  `totalMs` is exact (the code's product is, but for 786 of the 65535 values of the register, which are off by a unit in the last place). Both change where a ramp begins and ends or its
  step, by a few units in the last place, and not how it is followed. The truncation to whole Hz at the timer is in (`Hz`), and so is the
  refusal of 0 Hz (`hal_motor.c:87`).
- *At most one tick per start*: `App_Motor_Start` takes microseconds and SysTick comes
  once per millisecond (`TickMayFall`).
- *`RequestProfile`* has the condition of the code's only caller, `main.c:321`: a profile
  is computed for a stopped motor. `MainLoop` uses the unconditional `CalculateProfile`, and
  `UsesDriveProperly` shows that it satisfies the condition.
- *`FirstRpmInRange`*: an RPM of `MaxRPM` or more is not stored (`app_motor.c:71`). If it is the first
  one after a boot the profile has target 0. With `TRUE` the clients are assumed not to
  do that; with `FALSE` they may. The ramp properties are stated for `ProfileSet`, and the proofs
  cover both.

`MotionPhases` knows rest, rising, steady and falling, the heading and the pulses. The mapping
(`Phases` in `MotorProperties`) sends the four motor states to the four phases, `dir` to
the heading and `timerOn` to the pulses; profiles, frequencies and the steps of `App_Motor_Start` that
set registers are stutters. That every rising phase ends holds only where no step is lost in a sum, as in the instance of run `motor`; section 6 has ramps of the code for which it does not.

### MainLoop

State: `at` is the next section of `main()`; `pending` is the set of raised `pending...` flags; `config` the
parameters of `ModbusConfig_t`; `settings` and `flash` the two copies of `app_settings.c`, a whole
configuration at a time; `switches`, `motorState`, `run`, `lamp`, `stream` are statics of `main.c` with what they command;
`uart` and `encoder` are the hardware's settings. `lastWord` (the last start or stop that client or switch
said) and `saving` are history variables.

Actions: `ClientWrite` is one FC06 request. lwIP runs inside `MX_LWIP_Process`, so clients act at place
`"lwip"` only, any number of times before `LwipDone`. One action per section of the loop follows, in the
order of the code; those whose effects SysTick could see are split (the baud rate change,
`App_Motor_Start`). `SysTick` is the kinematic tick and an arbitrary change of the debounced switch.
`PowerCut` and `SystemReset` keep the flash and reset everything else, the drive included. A save is one step:
no code runs from flash while a sector is erased, so SysTick does not either, and a power
failure inside it leaves a sector that does not verify (`Invalid`).

`lastWord` says what an operator would: a request counts when it is written; an edge of
the switch counts in the pass that sees it, unless a request of the same pass overrides it
(`main.c:249-258`).

### Settings

State: `sector` holds the record's words, `activeSettings` the RAM copy; `place` and `i` are where
`App_Settings_Save` is; `locked` is the flash control register. Actions: `SaveRequest`, `EraseSector` and `EraseFails`,
`ProgramWord` and `ProgramFails`, `Adopt`, and `Restart`, which may come anywhere, tears what was under way
(`HalfErased`, `HalfProgrammed`) and runs `App_Settings_Init`: load, or defaults and their own save. Under `SettingsStore` a
record counts as stored with its last word, and as adopted from then on.

### Switch, Lamp and Panel

`Switch`: the pin, the three statics, and the last `DebounceTimeMs + 1` samples as history. `Bounce` changes
the pin between samples as it likes; a tick takes one of three branches.

`Lamp`: `mode`, `timeCounter` and the pin of lamp 0. `App_Lamp_SetMode` is `StoreMode`, `StoreCounter` and `StorePin`, because
SysTick may come between any two of them, at most once (`ticked`): it may then toggle the pin of a lamp whose timer
is about to be cleared, or count on a timer that is not yet. `steady`, the ticks since the last change, and `modeBefore`, the mode before it, are history.
A tick between the stores of `app_lamp.c:31` and `:32` that finds the timer of `BLINK_SLOW` in a lamp just set to `BLINK_FAST` may toggle it before its interval; `EvenBlinking` names this case
(`StaleSlowCounter`) and excludes every other. `main.c` never sets `BLINK_SLOW`.
Any change of mode is possible here; `MainLoop` knows when the loop asks for which. Lamp 1 has no caller.

`Panel` lets one SysTick serve both, in the same step.

### TelemetryTx

State: `gState` of the UART handle, `tx_buffer`, the DMA transfer and the bytes it has put on the `line`;
a byte is known by the packet it belongs to. `EncoderStep` is EXTI9_5 and runs to its end; `ZeroPulse` is the restart of the count in EXTI2. An answer is
split into `Check`, one `Copy` per byte and `Start`, because EXTI9_5 and the DMA go on meanwhile.
`TransmitComplete` is an interrupt of the answering priority and waits for it. The loop's
`SetBaudRate` and `SetStream` run when no interrupt does; that `SetBaudRate` finds the encoder lines masked
is what `BaudQuiet` shows of the loop. `takesTurns` distinguishes hosts that ask for
positions only while the stream is off from hosts that do both.

### Crc8, TelemetryRx and Telemetry

`crc8_atm` is the code's loop: shift, and exclusive-or with 7 when a bit falls out. `Remainder` is what the byte stands for: the
remainder of a division by x^8 + x^2 + x + 1, found among the multiples of that polynomial. TLC evaluates the
assumption `CrcDivides` for all 256 command bytes. The parser does not depend on which function it is: `TelemetryRx` has
the check bytes as the constant `CrcOf`, and that of the host's request as `RequestCrc`. `RxAssumption` says that the two agree and that
`RequestCrc` is not the sync byte; `MCTelemetry` puts in `crc8_atm` and `Remainder`, and TLC evaluates the assumption for them.

`TelemetryRx` is the three-state parser. Any byte of `Heard` may arrive at any moment: those of a request and `Noise`, so that
damaged and invented bytes occur, and a lost byte is one that does not arrive. `HAL_UART_ErrorCallback` rearms the receiver and leaves the
parser as it is; the parser is not reset by time or by a change of the baud rate either. `matched` is the only history
variable: how much of two requests in a row the bytes heard end with, the reference for the two parser properties.

`Telemetry` composes them: a byte that completes a request starts `Request` of `TelemetryTx` in the same step, and none is
heard while an answer is being prepared, because the receiver is rearmed after the callback (`hal_telemtry.c:171-176`).

### Encoder

State: the antenna's `angle`, with the index at 0; TIM4's `count` and whether it is mirrored; TIM5's `clock`; the pending index
interrupt; the four statics of `app_encoder.c`; what the main loop is doing. `Turn` is a step of the rotor in either direction, the only thing
that makes an index edge; `Microsecond` lets TIM5 count. `ServeZ` is EXTI2 with its callback and comes before the next encoder step or
microsecond (`Free`), except while a flash sector is erased: then the antenna turns on, and several edges become one. An FC03
request that covers cycle time and heartbeat is `ReadTime` and `ReadCounter`, which `ServeZ` may separate.

The `count` starts at 0 wherever the antenna stands, and a reversal changes the sign of further steps but not the count; `synced` says that
an edge was served at the index since. `edgeAge`, `lastTurn` and `prompt` measure the antenna itself; `heard` and `beats` are the client's side.

### ModbusServer

`MainLoop` knows what a write does; this module knows how a request gets there and how its answer gets back. One register
stands for all that are kept in `ModbusConfig_t`; operations are a read, a write, a reboot and a request that gets no answer.

- *Requests*: `requests` are those not yet handed over, in the order of their sequence numbers. A segment may carry several
  (`InOrder(n, end)`, where `end` is the last request that becomes readable by it) or overtake another (`OutOfOrder`), in which case lwIP keeps it in its receive buffer (`held`). What becomes readable
  together reaches `modbus_recv_cb` as one chain; it carries out the first request and frees them all.
- *Receive buffers*: `pool` and `RxAllocStatus`. `ReadData` takes a buffer out of the descriptor ring, refills it and lets lwIP free
  some. When the pool is dry, `RxAllocStatus` keeps `low_level_input` from reading until a buffer is freed (`pbuf_free_custom`). If all
  buffers are held out of order, only the timer of lwIP can do that (`OoseqTimeout`).
- *Answers*: `unsent` and `flight` are lwIP's queues; `Output` is `tcp_output` with Nagle's rule, which a failed `tcp_write` suspends
  (`TF_NAGLEMEMERR`). `tcp_write` fails when the queue is full, and the callback does not look. Acknowledgements come alone (`Ack`) or with a request (`acks`).
  A flight may be `Lose`d and is sent again.
- *Client*: `window = 1` takes turns, as `modbus_gui_flash.py` does; a larger window pipelines. `Hear` is an arriving flight: of the answers that
  tell the register (`Told`) the last one counts (`LastTold`). `GiveUp` comes after a time-out. A client that takes
  turns is assumed to have a time-out that is longer than any answer takes (`Quiet`): the three seconds of pymodbus against milliseconds and
  a few retransmissions.
- *Promise*: `RemoteRegister` knows no segments, buffers or acknowledgements. Requests are carried out in the order they were made, each at most once; one that is carried
  out may take requests behind it along (the rest of its chain), and its answer may be lost (the full queue). An answer tells what its request stored, or the register when it was carried out,
  and answers arrive in that order. Only a restart somebody asked for brings the saved value back. The mapping (`Register`) drops from a request what lwIP notes of its segment (`PlainOf`), joins the two
  queues, and takes the delay before a reset as the rest of a restart.
- *Ends*: `Break` is a connection dropped by either side. A reboot is `Arbitrate`, after which nothing of lwIP runs until `Reset`.

## 3. Runs

| run | module | expects | distinct states | what it shows |
|---|---|---|---|---|
| `motor` | `MCMotor` | pass | 2.8 thousand | gating, ramps up to their rounding, cruise, slew, halt; ends of motions; refinement of `MotionPhases` |
| `encoder` | `EncoderProperties` | pass | 958 thousand | turns both ways, reversals, wrapping timers, late edges, torn reads |
| `panel` | `Panel` | pass | 33 thousand | debouncing; a lamp that is set while it blinks |
| `modbus` | `ModbusServerProperties` | pass | 217 thousand | chains, overtaking segments, full queues, empty pools, lost answers, reboots; refinement of `RemoteRegister` |
| `control` | `MCMainLoop` | pass | 288 thousand | clients, switch, reboots and power cuts against the motor |
| `config` | `MCMainLoop` | pass | 390 thousand | stream, baud rate, encoder and settings in any batch, with failing flash; refinement of `SettingsStore` |
| `settings` | `MCSettings` | pass | 5 thousand | word-by-word saving; refinement of `SettingsStore` |
| `telemetry` | `MCTelemetry` | pass | 215 thousand | the parser, one transmit buffer, two producers |
| `stop_first_fast`, `start_race`, `boot_switch`, `telemetry_race` | | violation | | section 6 |

Why the bounds are enough:

- **motor**: `RpmRegs` has a value below the minimum, one in range and one out of range;
  `MicrostepRegs` one below the driver's minimum and two valid ones; `AccelRegs` gives ramps of 1, 2
  and 4 ticks, so that a stop falls before, on, inside and after the climb, and a tick into each gap of
  `App_Motor_Start`. Larger numbers only make ramps longer; for the safety properties `MotorProofs` shows that nothing
  depends on the numbers. The floats have 4 bits and a unit of 1/8 Hz: sums are rounded on most ramps, some climbs drift by a whole tick, none loses a step.
- **control** leaves the drive a ramp of two ticks and two speeds, and the clients the registers
  that concern the motor, so that all orders of commands, edges, ticks and sections occur; its frequencies are whole numbers that need no rounding, because no
  property of the loop is about it. **config** rests the
  motor and gives clients the other registers. The two groups meet only in `save` and `reboot`,
  which both have. No number of requests per batch is bounded: flags are a set.
- **settings** has two payload words where the code has ten: a mixture needs two, and every
  word is written by the same step. Two values per word make four configurations.
- **panel** counts to a few ticks instead of 50, 100 and 500: the counters are only compared with their limits and with zero.
- **telemetry** has the real packet lengths, sync and command bytes and check bytes; two positions tell two packets apart,
  which is all `PacketIntact` asks; of the noise bytes, 255 fits nowhere and 0 is its own check byte, so
  that a request with a good check and an unknown command occurs.
- **encoder** has a few counts per turn and a clock and a heartbeat that wrap within a few turns; `LongestRest` is beyond the range of the
  clock, so that too long a revolution occurs, and `MaxTime` is below the longest time.
- **modbus** has a pool of two buffers with one in the ring, so that one segment out of order empties it; a send queue of two answers, which two
  pipelining requests fill; three identifiers, so that a request can be under way while an older one and an answer to a third still are.

`CHECK_DEADLOCK` is left on everywhere: the firmware never stops.

## 4. Fairness

- *SysTick keeps firing*: weak fairness of `KinematicTick` and of the two `SysTick`. The timer is free-running and no
  code masks interrupts for good.
- *The loop proceeds*: weak fairness of `LoopStep` (`MainLoop`), which makes `MX_LWIP_Process` return
  after finitely many requests, and of `StartSteps` (`Motor`). Every call in the loop returns: the delays are bounded, there
  is no wait on a flag without a timeout.
- *Nobody has to do anything*: there is no fairness for clients, the switch, starts, stops, steps, requests, resets or failures.
- *Panel*: `App_Lamp_SetMode` returns. *Encoder*: the index interrupt is served and an erase ends.
- *ModbusServer*: weak fairness of what the loop and the timers of lwIP do (`Poll`, `OoseqTimeout`, `Retransmit`, `Arbitrate`, `Reset`), of
  the client's retransmissions (`Arrive`) and of its time-out (`GiveUp`). Strong fairness of `Hear`: an answer may be lost any number of times, but
  not every time it is sent again. No fairness for `Break`, `Lose` or any request.
- *Telemetry*: weak fairness of the answering interrupt and of the DMA. `TransmitComplete` is strongly fair:
  answers may keep it waiting, but its request stays pending in the NVIC and is served when the answer returns, before
  the three bytes of the next request have arrived.
- `Settings` has no liveness: a supply that fails often enough prevents any save.

## 5. Proofs

Eight modules hold theorems. Each is about the specification its run checks, for all values of the constants that satisfy
the named assumptions of the modules, and each proves first that an inductive invariant (`...IInv`) holds.

| module | theorem | shows |
|---|---|---|
| `MotorProofs` | `MotorInvariant` | `MotorIInv` |
| | `PulsesGated`, `RampStaysNear`, `CruiseReached` | `MotorInv`, `RampNearLine`, `CruiseAtTarget` |
| | `ChangesAtRest`, `RampsOnTime`, `HaltsGently`, `SlewIsBounded` | the action properties `OnlyAtRest`, `RampOnTime`, `GentleHalt`, `SlewBounded` |
| | `SteepRampsClimb` | `SteepClimbRises`: a step greater than `targetFreq / Precision` is never lost (section 6) |
| | `LifeCycle` | every step of the drive is a step of `MotionPhases` or a stutter |
| | `DescentSlows` | `DecelerationSlows` (section 6), if the first RPM is in range |
| | `LongRampsArrive` | `CruiseAlwaysAtTarget` (section 6), if no acceleration time is 1 ms and every profile is `Wide` |
| `MainLoopProofs` | `LoopInvariant` | `LoopIInv` |
| | `StreamFollows`, `SnapshotIsSafe`, `WritesAreApplied` | `LoopInv`, `SnapshotSafe`, `WritesApplied` |
| | `ProperClient` | `UsesDriveProperly`: a run of the firmware is one of `MotorSafety` |
| | `DriveInFirmware` | so all that `MotorProofs` shows holds in the firmware |
| | `StartsAsTold`, `SaveSurvives` | `NoSurpriseMotion`, `SaveSurvivesReboot` |
| | `StoreImplemented` | `LoopImplementsStore`: boot, save and reset implement `SettingsStore` |
| | `RestsIfOff` | `RestsUntouched` (section 6), if the switch is off at boot |
| `SettingsProofs` | `SettingsInvariant` | `SettingsIInv` |
| | `ReadbackIsHonest`, `RestartsWhole` | `SettingsInv`, `NeverTorn` |
| | `StoreRefined` | `ImplementsStore`: word by word implements as a whole |
| `PanelProofs` | `SwitchResponds`, `NoBounceToggles` | `SwitchInv`, `NoFalseToggle` |
| | `LampShowsMode`, `BlinksEvenly` | `LampInv`, `EvenBlinking` |
| `EncoderProofs` | `EncoderInvariant` | `EncoderIInv` |
| | `CountIsTheAngle`, `RevolutionsAreTimed`, `SecondLook` | `EncoderInv`, `TurnMeasured`, `SecondLookRight` |
| `TelemetryProofs` | `TxInvariant` | `TxIInv` |
| | `WholePackets`, `TransfersRunToEnd` | `TxInv`, `RunsToEnd` |
| `ParserProofs` | `ParserInvariant` | `ParserInv` |
| | `ParserRecovers`, `NoiseUnanswered` | `SecondRequestHeard`, `OnlyRequestsAnswered` |
| | `TransmitSideKept` | what `TelemetryProofs` shows, of the whole UART |
| `ModbusServerProofs` | `ServerInvariant` | `ServerIInv` |
| | `BuffersStay`, `ViewIsHonest`, `EchoIsOut` | `ServerInv`, `ViewHonest`, `EchoBeforeReboot` |
| | `DeafCanRecover` | `DeafHoldsBuffers`: the safety part of `HearsAgain` |
| | `RegisterRefined` | `ImplementsRegister`: every step of the server is one of `RemoteRegister` or a stutter |

`MotorSafety` and `TxSafety` are `MotorSpec` and `TxSpec` without their fairness. Theorems about them can be used wherever the steps of a larger
module are theirs, which `ProperClient` and `TransmitSideKept` show of the firmware and of the whole UART.

`OnlyAtRest`, `RampOnTime`, `SteepClimbRises` and `DeafHoldsBuffers` are proved and not checked by a run of their own; the other safety properties are both. TLC checked every inductive invariant on the
instance of its run before it was proved.

### Assumptions

- `DriveAssumption`, `RegisterAssumption` (`Motor`): what the `#define`s of `app_motor.c` satisfy. Bounds are positive and ordered, and the slowest start
  frequency is at least 1 Hz (2 RPM times 800 microsteps is far above it). Registers are naturals; their 16 bits are not needed.
- `FloatAssumption` (`Motor`): what IEEE 754 says of a format, see section 2. Binary32 with `Precision` = 2^24 and a unit of 2^-149 Hz satisfies it, and so does every shorter format.
- `LoopAssumption` (`MainLoop`): the defaults are a configuration and a sector that does not verify is none.
- `RpmPromise` (`MainLoopProofs`), of `ProperClient` and `DriveInFirmware` only: *if* `FirstRpmInRange` assumes that a first profile is in range, no client
  writes an RPM that is not. With `FirstRpmInRange = FALSE` it says nothing, and the two theorems hold of all clients; the ramp properties then
  speak of motions that have a profile (`ProfileSet`).
- `SettingsAssumption`: a payload has at least one word, the words that mark an erased, garbled or valid record differ, and CRCs do not collide (section 7).
- `DebounceAssumption`, `IntervalAssumption`: 50, 500 and 100 are positive and the fast interval is the shorter one.
- `EncoderAssumption`: counts and ranges of timers are positive. They need not divide one another.
- `TelemetryAssumption`: a stream packet is shorter than an answer (4 and 5 bytes); `RxAssumption`: firmware and host agree on the check byte of the request, and it
  is not the sync byte.
- `ServerAssumption`: there are more buffers (12) than descriptors (4 by default), queue and ring have a place, and finitely many identifiers are under way at a time
  (they are 16 bits).

### The invariants, and why they are needed

None of the properties is inductive alone.

- **Drive.** `RampNearLine` is inductive because each tick adds one rounding error, of at most `targetFreq / Precision`, to those of the ticks before, and because rounding never
  crosses a float: a sum that starts above `startFreq` and falls short of `targetFreq` stays between them. It needs a profile that does not fall
  (`ProfileInv`, which also says how far `totalMs` steps are from the climb, for `RampOnTime`);
  `PulseGate` needs that ARR and CCR are set before the timer starts in every place of
  `App_Motor_Start` (`PlaceInv`) and that frequencies converted to `uint32_t` are not negative (`FreqInv`); `CruiseAtTarget`
  needs that a tick that falls into `App_Motor_Start` is the first of its ramp (`WindowInv`), so that a climb of more is not over before the call is (`CruiseInv`).
  `SlewBounded` and `GentleHalt` relate the timer to the ramp and need `RateInv` besides: the timer has the current frequency
  except, until the second tick, what a start that was overtaken by a tick left there.
  The facts about rounding (nearest, monotone, never across a float) and the nonlinear ones (a product of a tick count and a step) are
  lemmas of their own at the head of the module. `Wide` keeps a profile of two or more milliseconds from being so narrow, next to the distance between floats, that rounding makes it one step long.
- **Loop.** `StartInv`: the loop is inside a start exactly where the drive is, and the motor does not leave rest between the profile and the start, so that a decision
  on an old state is still right. `StreamInv`: what the mask is inside a baud rate change. `HardwareInv`: UART and encoder are set from the settings during the
  start-up delay, before the registers are. `SaveInv`: from the request to its section and from there to the end of the pass, where the configuration of a save is.
  `CommandInv`: which of the pending commands and `run` stands for the operator's last word at every section.
- **Settings.** `ProgressInv`: the words below `i` are the record's and the others erased, so that the record verifies with its last word and not before;
  `InUseInv`: until the erase, what a boot would accept is what is in use; `SectorOK`: what a word can hold at all. The refinement uses the same three.
- **Switch.** `CounterInv` reads the counter as the number of like samples at the end of the history. **Lamp.** `TimerInv`: timer and true time since the last change differ by the one tick
  that may fall between two stores; before the second store the timer is still that of the mode before (`OldTimer`).
- **Encoder.** `CaptureInv`: an edge that was served in time leaves the clock as far from the capture as the edge is old, modulo the timer's range;
  `BeatInv`: the heartbeat is the one last heard and the beats since, modulo its range, and no beat means that the time read belongs to it.
- **Transmit side.** `TransferInv` ties the handle's state, the DMA and the progress of an answer; `TurnInv`: with a host that takes turns no step can touch
  the buffer of an answer, and the DMA reads a buffer that holds one packet.
- **Parser.** `ParserInv` relates its state to how much of a request the bytes heard end with. It may be out of step inside a first request; the end of a request brings it
  back, because the check byte is not the sync byte. From then on it is in step.
- **Server.** `ViewHonest` speaks of the end of an exchange; `KnowInv` says what holds in its course: if every request the client waits for is still somewhere and none
  is stale, the last answer under way that tells the register tells the register as it is. `StaleInv` covers the other case: requests the client has given up are in front of all others, and
  until they are gone no answer is under way that it waits for and it claims to know nothing. `IdsInv` and `AckInv` keep answers of different requests apart and say that a
  segment acknowledges only what was heard; a skipped request of a chain, or an answer that does not fit, leaves an identifier that is nowhere, which is why `Covered` fails until the client gives up.
  `TurnsInv`: a client that takes turns acknowledges the last answer with its next request, so that Nagle's rule never holds its echo back.
  `BuffersAccounted` needs that a chain takes just the buffers held behind it (`HeldBehind`).
  `Deaf` says how the receiver becomes deaf: with an empty pool and a gap in the ring. As every buffer is accounted for, the others are then kept out of order.
  The refinement of `RemoteRegister` needs `AckInv`, because the server may forget an answer only when it was heard, `WriteInv`, and that the flag of a reboot is down during the delay (`Lowered`).

### What is only model-checked

- Liveness (`StopObeyed`, `StartObeyed`, `LampFollows`, `KeepsBlinking`, `LineFrees`, `RepeatsServed`,
  `HeartbeatMoves`, `HearsAgain`, `TurnsAnswered`) and the fairness part of the refinement of `MotionPhases` (`ImplementsPhases`): beyond the prover.
- That `crc8_atm` divides for every byte: a finite fact, settled by evaluation. `Crc8` takes exclusive-or from the module `Bitwise`, which the prover cannot use, and
  so does `MCTelemetry`; `Telemetry` does not, and what is proved of it holds for every check byte.

The invariants whose names end in `Inv` (`MotorInv`, `LoopInv`, `SettingsInv`, `SwitchInv`, `LampInv`, `TxInv`, `EncoderInv`, `ServerInv`) join the types of a
module to its first safety invariant.

## 6. What the code does differently from what it says

Each has a run that finds it; `findings` in `PROJECT.json` quotes the text. For each a theorem says that its cause is the only one: without it the claim
holds (`DescentSlows`, `LongRampsArrive`, `RestsIfOff`; `WholePackets`).

- **`stop_first_fast`**: the first RPM after a boot is 200.0 or more. It is not stored, `targetRPM` is
  still 0 and `accelStepPerMs` is negative. A stop given before the first tick then *accelerates* the motor at every tick and
  never ends. Without the stop the climb is over after one tick, at the start frequency.
- **`start_race`**: with an acceleration time of 0 (clamped to 1 ms), a tick between the store of `ACCELERATING` (`app_motor.c:104`) and the store of ARR that
  the call of line 106 makes (`hal_motor.c:90`) finishes the climb and puts the target frequency in the timer. The store of ARR then overwrites it with the start frequency, and no
  tick corrects it; the motor "cruises" there. (A tick between the stores of ARR and CCR3 costs only the duty cycle.)
- **`boot_switch`**: `lastSwitchState` starts as `false`; a switch that is on at power-up is an edge and
  starts the motor.
- **`telemetry_race`**: an encoder step between the test of `gState` and the copy of an answer: the line
  carries bytes of both packets. Hosts that take turns do not meet it (`IntactInTurns`).

More that came up while modelling, without a run of its own:

- A climb is to "reach the target frequency in exactly 'accelTimeSec'" (`app_motor.c:86`), but the sum of rounded steps drifts from the line. With the C floats and 5000 microsteps 8 RPM over
  60 s take 59943 ticks instead of 60000, over 0.7 s 701 instead of 700, and 2.1 RPM over 100 s take 102400 instead of 100000. `RampsOnTime` bounds the difference.
- "Velocity increases constantly over TIME" (`app_motor.c:133`), but a step of at most half the distance between two floats near `currentFreq` is lost in the sum. With the C floats and 5000
  microsteps a climb from 2.0 to 2.1 RPM over 1100 s stays at 512 Hz until somebody stops it, one over 2100 s at its start frequency; the register of the acceleration time goes up to
  6553.5 s. `SteepRampsClimb` says which steps are safe.
- A stop and then a start handled in one `MX_LWIP_Process`: the stop flag is looked at last (`main.c:254`), and
  an acknowledged start is dropped (`docs/README_MODBUS.md:36` knows of no such order).
- A start or stop request overrides an edge of the switch that is seen in the same pass (`main.c:249-258`, against
  "Switch dictates the new target state" at line 244).
- The reboot command resets a motor at full speed without a ramp (`main.c:309-312`), after a second in which the switch is not
  looked at.
- That second is to give "the LwIP stack enough time to transmit the Modbus TCP response" (`main.c:306-309`), but lwIP does not run in it.
  The echo of a client that takes turns is on the line before (`EchoBeforeReboot`); the echo of a pipelining client may be waiting for
  an acknowledgement, and no echo that gets lost is sent again.
- `modbus_recv_cb` takes one request of a chain: the others are neither carried out nor answered. A client that pipelines has to expect that (`ViewHonest`
  shows that it is not misled, only ignored).
- Writes to the NETMASK and GATEWAY registers are echoed and ignored (`app_modbus.c:198-246`), though `docs/README_MODBUS.md` lists them as
  read/write; a read of an IP register gives the address in the settings, not the one just written.
- The first index pulse after boot does not move the heartbeat (`app_encoder.c:92-104`).
- The GUI notes the cycle time at the first sight of a new heartbeat (`tools/modbus_gui_flash.py:460-463`), the one answer in which it may be the
  time of the revolution before (`SecondLookRight`).
- Both entries of the lamp table are the pin PE5 (`hal_lamp.c`); lamp 1 is never set, so that nothing comes of it.

## 7. Abstractions and what is not modelled

- The single roundings inside `startFreq` and `targetFreq` (section 2); ticks lost while a sector is erased (they delay a ramp; the model counts ticks). Beyond the range of TIM5 (71 minutes) a revolution is reported modulo
  2^32 microseconds (`app_encoder.c:95`); nothing is claimed of it.
- CRC-32 of the record: no torn record collides with its CRC (the last two conjuncts of `SettingsAssumption`: a CRC is known by the payload it
  is of, and an erased or a half-programmed word is the CRC of nothing that may stand before it). A program operation that reports an error has not
  programmed its word.
- IP address registers: they go through `config` and `settings` like the other parameters and take
  effect at the next boot. The Modbus initializers before the first synchronisation are not told from
  the defaults, as nobody reads them.
- Requests that are split over segments: `modbus_recv_cb` reads up to `data[11]` of a first buffer that may hold fewer
  bytes (`app_modbus.c:126-135`); what it finds there is not modelled. Several clients at once. Link state, transmission and the
  choice of the IP address at boot (`lwip.c` looks at the first octet only).
- A baud rate register of 0, which divides by zero in a vendor macro; the delivery of the last position to a host that only listens
  (`lastSentPos`). Lamp 1.
- lwIP and SEGGER RTT, which are vendored, are about 97 in 100 of the lines of `src/`. They are modelled only where the server depends on them (the queues of one
  connection), so that the map covers a small part of the lines of the repository and most of the firmware's own.
- The HAL and the hardware: `HAL_UART_Transmit_DMA`, the DMA stream and the contact are modelled from how the code
  uses them. The few instructions of `HAL_UART_Transmit_DMA` itself are one step.
- Clock, pin and NVIC configuration, fault handlers, debug output, `App_Motor_SetMicrosteps` (no caller), vendored lwIP and
  SEGGER RTT except as said above, host tools.

## 8. Plan

Models: done, except for the link state of the Ethernet port.

Proofs: every safety property the runs check is proved, and so is each refinement, of `MotionPhases`, `SettingsStore` (twice) and `RemoteRegister`. What is
left needs a prover for `ENABLED` and fairness: the liveness properties of section 5, of which `DeafCanRecover` (for `HearsAgain`)
and `TransfersRunToEnd` (for `LineFrees`) are the safety parts.
