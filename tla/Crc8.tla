-------------------------------- MODULE Crc8 --------------------------------
(***************************************************************************)
(* The checksum that MeterStore puts behind every EEPROM image:            *)
(* reflected polynomial 0x8C, start value 0, one byte at a time.           *)
(* Written with recursive functions, so that modules with proofs can use   *)
(* it.                                                                     *)
(***************************************************************************)
EXTENDS Integers, Sequences

Byte == 0..255

\* Exclusive or of two bytes, bit by bit from the lowest.
Xor[p \in Byte \X Byte] ==
  IF p[1] = 0 THEN p[2]
  ELSE IF p[2] = 0 THEN p[1]
  ELSE ((p[1] + p[2]) % 2) + 2 * Xor[<<p[1] \div 2, p[2] \div 2>>]

\* One of the eight shift steps: (crc >> 1), with 0x8C mixed in when the
\* bit that falls out is set.
ShiftStep(c) == IF c % 2 = 1 THEN Xor[<<c \div 2, 140>>] ELSE c \div 2

\* The eight steps for one byte that is already mixed into the register.
ByteTable == [c \in Byte |->
  LET step[i \in 0..8] == IF i = 0 THEN c ELSE ShiftStep(step[i - 1])
  IN  step[8]]

\* crc8(data, n): data is a sequence of bytes.
CrcOf(data) ==
  LET crc[i \in 0..Len(data)] ==
        IF i = 0 THEN 0 ELSE ByteTable[Xor[<<crc[i - 1], data[i]>>]]
  IN  crc[Len(data)]
=============================================================================
