----------------------------- MODULE MCMainLoop -----------------------------
(* Instances of the super-loop for TLC. *)
EXTENDS MainLoopProperties

MCDefaults == [rpm |-> 4, accel |-> 1, microsteps |-> 2, direction |-> FALSE,
               encoderReversed |-> FALSE, baud |-> 1, autoStream |-> FALSE]

\* Frequencies in Hz, small enough that none is rounded: what rounding does to
\* the drive is for the instances of module MCMotor.
MCFloats == -10 .. 10
MCEven   == {2 * h : h \in -5 .. 5}

One   == {1}
Two   == {2}
Four  == {4}
LowAndFour == {1, 4}
Two12 == {1, 2}
Off   == {FALSE}
On    == {TRUE}
Both  == BOOLEAN

ControlRegs == {"CTRL", "DIR", "RPM", "REBOOT"}
ConfigRegs  == {"STREAM", "ENCODER_DIR", "BAUD", "AUTO_STREAM", "SAVE", "REBOOT",
                "ACCEL", "MICROSTEPS"}
NoRegs      == {}
=============================================================================
