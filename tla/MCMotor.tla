------------------------------ MODULE MCMotor ------------------------------
(* Instances of the drive for TLC. *)
EXTENDS MotorProperties

\* Below the minimum, between minimum and maximum, and out of range.
MCRpmRegs       == {1, 5, 6}
MCMicrostepRegs == {1, 2, 3}
MCAccelRegs     == {0, 1, 2}
\* Only the shortest ramp, one tick.
MCAccelShortest == {0}

\* The floats of p bits of significand and exponents up to e, and those with an
\* even significand.  Precision is 2^p.
FloatsOf(p, e) == {s * m * 2^k : s \in {-1, 1}, m \in 0 .. 2^p - 1, k \in 0 .. e}
EvenOf(p, e)   == {s * (2 * h) * 2^k : s \in {-1, 1}, h \in 0 .. 2^(p-1) - 1, k \in 0 .. e}

\* With 4 bits ramps drift by whole ticks and no step is lost.
MCFloats == FloatsOf(4, 4)
MCEven   == EvenOf(4, 4)
=============================================================================
