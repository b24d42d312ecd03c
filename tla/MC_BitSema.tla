----------------------------- MODULE MC_BitSema -------------------------------
(* BitSema on 4-bit values: every LHS, and the rotate amounts below the   *)
(* width that a rotate can take (all of them, or only the nonzero ones);  *)
(* the memory types of extending loads i8, i16 and i32 are 1, 2, 3 bits.  *)
EXTENDS BitSema

MCWidth == 4
MCMemBits == [i8 |-> 1, i16 |-> 2, i32 |-> 3]
NonzeroAmounts == 1..(MCWidth - 1)
AllAmounts == 0..(MCWidth - 1)
=============================================================================
