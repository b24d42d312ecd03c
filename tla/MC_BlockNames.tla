--------------------------- MODULE MC_BlockNames -----------------------------
(***************************************************************************)
(* BlockNames for a function at 0 with MC blocks at 0x0 (instructions at *)
(* 0x0 and 0x2) and 0xC0 (an instruction at 0xC0), branches to 0x4 and    *)
(* 0xC0, and an external tail call to 0x100.  The addresses are chosen so *)
(* that hex digits above 9 and the letter c of "_c" meet.                  *)
(***************************************************************************)
EXTENDS BlockNames

MCInstsDef == [a \in {0, 192} |-> IF a = 0 THEN {0, 2} ELSE {192}]
MCTargets == {4, 192}
MCTails == {256}
=============================================================================
