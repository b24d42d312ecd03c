---------------------------- MODULE MC_RegCoerce -----------------------------
(* RegCoerce at a sixteenth of the real widths: i16, i32 and i64 are 1, 2 *)
(* and 4 bits, a 64-bit and a 32-bit register, float and double, and four *)
(* bit patterns per width (zero, one, the top bit, all ones).             *)
EXTENDS RegCoerce

MCRegs == {"R64", "R32"}
MCRegWidth == [r \in MCRegs |-> IF r = "R64" THEN 4 ELSE 2]
MCTapeTypes == {Int(1), Int(2), Int(4), [k |-> "fp", w |-> 2], [k |-> "fp", w |-> 4]}
MCPatterns == [w \in 1..4 |-> {0, 1, 2^(w - 1), 2^w - 1}]
=============================================================================
