--------------------------------- MODULE Crc8 ---------------------------------
(***************************************************************************)
(* The check byte of the telemetry protocol: crc8_atm of src/src/crc8.c,   *)
(* and what it stands for, division by x^8 + x^2 + x + 1.                  *)
(***************************************************************************)
EXTENDS Integers, SequencesExt, Bitwise

Byte == 0 .. 255

Shifted(crc) == LET s == (2 * crc) % 256 IN IF crc >= 128 THEN s ^^ 7 ELSE s

Mixed(crc, byte) ==
  FoldLeft(LAMBDA c, bit : Shifted(c), crc ^^ byte, [bit \in 1 .. 8 |-> bit])

crc8_atm(data) == FoldLeft(Mixed, 0, data)

-----------------------------------------------------------------------------
(* Reference: bits are the coefficients of polynomials over GF(2). *)

Generator == 263  \* x^8 + x^2 + x + 1

\* The product of the generator and the polynomial of byte q.
Multiple(q) ==
  FoldLeft(LAMBDA sum, i : IF (q \div 2^i) % 2 = 1 THEN sum ^^ (Generator * 2^i) ELSE sum,
           0, [i \in 1 .. 8 |-> i - 1])

Multiples == {Multiple(q) : q \in Byte}

\* What makes byte, check divisible by the generator.
Remainder(byte) == CHOOSE check \in Byte : 256 * byte + check \in Multiples

\* crc8_atm is division, for every command byte.
ASSUME CrcDivides == \A byte \in Byte : crc8_atm(<<byte>>) = Remainder(byte)
=============================================================================
