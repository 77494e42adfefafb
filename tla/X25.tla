--------------------------------- MODULE X25 ---------------------------------
(***************************************************************************)
(* The checksum of MAVLink: x25crc of ap_uploader/mavlink.py, and the      *)
(* definition of CRC-16/MCRF4XX that its docstring names.                  *)
(***************************************************************************)
EXTENDS Integers, Sequences, SequencesExt, Bitwise

(* x25crc.accumulate: what the low byte of the checksum, combined with the *)
(* next byte, contributes to the checksum, and the loop over the bytes.    *)
contribution[mixed \in 0..255] ==
  LET tmp == (mixed ^^ (16 * mixed)) % 256
  IN  (256 * tmp) ^^ ((8 * tmp) ^^ (tmp \div 16))

accumulate(accum, b) == (accum \div 256) ^^ contribution[(accum % 256) ^^ b]

x25crc(bytes) ==
  LET crc[i \in 0..Len(bytes)] ==
        IF i = 0 THEN 65535 ELSE accumulate(crc[i - 1], bytes[i])
  IN  crc[Len(bytes)]

(* The definition, bit by bit: the reflected polynomial is 16#8408. *)
Shift(crc) == IF crc % 2 = 1 THEN (crc \div 2) ^^ 33800 ELSE crc \div 2
ShiftByte(crc, b) ==
  FoldLeft(LAMBDA c, i : Shift(c), crc ^^ b, << 1, 2, 3, 4, 5, 6, 7, 8 >>)
MCRF4XX(bytes) == FoldLeft(ShiftByte, 65535, bytes)
==============================================================================
