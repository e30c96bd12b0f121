-------------------------- MODULE DiameterLength --------------------------
(***************************************************************************)
(* The arithmetic of the lengths of a Diameter message: the three bytes of *)
(* a length or of a command code, written and read in two parts, and the   *)
(* padding of the AVPs to a multiple of four bytes.                        *)
(*                                                                         *)
(* The code splits at 65535 and not at 65536 (`lenHighByte =               *)
(* uint8(avpLen / 65535)`), in all the places where it writes and in all   *)
(* those where it reads. The number is the constant Word, because what     *)
(* matters of it is that it is the same on both sides.                     *)
(***************************************************************************)
EXTENDS Integers

CONSTANT Word  \* 65535 in the code

ASSUME WordAssumption == Word \in Nat \ {0} /\ Word <= 65536  \* the low part is a uint16

\* The high byte (a uint8) and the low word (a uint16) of a written length.
SplitHigh(n) == IF n < Word THEN 0 ELSE (n \div Word) % 256
SplitLow(n) == IF n < Word THEN n ELSE n % Word

\* The length that is read from the two parts.
JoinLen(high, low) == (high * Word) + low

\* The bytes added to a length to make it a multiple of four.
PadLen(n) == IF n % 4 = 0 THEN 0 ELSE 4 - (n % 4)

\* The greatest length that the parts hold.
MaxLen == (255 * Word) + (Word - 1)
===========================================================================
