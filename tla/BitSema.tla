------------------------------ MODULE BitSema --------------------------------
(***************************************************************************)
(* The value-level expansions translateOpcode emits for the semantic      *)
(* opcodes that have no single IR instruction (lib/DC/DCFunction.cpp):     *)
(* ROTL (a shl, a sub, an lshr and an or), SMUL_LOHI / UMUL_LOHI (an     *)
(* extension to twice the width, a mul, and two truncations) and the      *)
(* extending-load predicates (a narrow load and a zext or sext).  Each is *)
(* evaluated with the IR's bit-vector semantics over W-bit values,        *)
(* including poison for a shift by W bits or more, and compared with the  *)
(* meaning of the selection-DAG node the semantics tape was generated     *)
(* from.                                                                   *)
(*                                                                         *)
(* One step translates one opcode on operands the running program can     *)
(* hold: every W-bit value, the rotate amounts Amounts, and every value   *)
(* of the memory type of an extending load.                              *)
(***************************************************************************)
EXTENDS Naturals, Bitwise

CONSTANTS
  W,        \* width in bits of LHS and of the result (LoResType = HiResType)
  Amounts,  \* rotate amounts the RHS operand of ROTL can hold
  MemBits,  \* [{"i8", "i16", "i32"} -> width], the memory types, narrower than W
  Poison    \* the IR poison value

ASSUME W \in Nat \ {0} /\ Amounts \subseteq 0..(2^W - 1)

VARIABLES
  opc,   \* the semantic opcode being translated
  lhs,   \* first operand popped (getNextOperand)
  rhs,   \* second operand popped
  res    \* results registered, <<>> before the opcode is translated

vars == <<opc, lhs, rhs, res>>

Word == 0..(2^W - 1)

-----------------------------------------------------------------------------
(* The IR instructions the Builder creates, on W-bit (or 2W-bit) values.  *)

Shl(x, s, w)  == IF s = Poison \/ s >= w THEN Poison ELSE (x * 2^s) % 2^w
LShr(x, s, w) == IF s = Poison \/ s >= w THEN Poison ELSE shiftR(x, s)
Sub(x, y, w)  == (x - y) % 2^w
OrV(x, y)     == IF x = Poison \/ y = Poison THEN Poison ELSE x | y
Trunc(x, w)   == x % 2^w
\* sext of an m-bit value to w bits.
SExt(x, m, w) == IF x >= 2^(m - 1) THEN (x + 2^w) - 2^m ELSE x

(* ROTL: RHS is zero-extended to LHS's type (a no-op on the value), then  *)
(* (LHS << RHS) | (LHS >> (width - RHS)).                                 *)
RotlIROffByOne(x, r) == OrV(Shl(x, r, W), LShr(x, Sub(W - 1, r, W), W))
RotlIR(x, r) == OrV(Shl(x, r, W), LShr(x, Sub(W, r, W), W))

(* The factors of SMUL_LOHI are sign-extended, those of UMUL_LOHI        *)
(* zero-extended, to LoBits + HiBits.                                     *)
ExtendFactorZeroOnly(signed, x) == x
ExtendFactor(signed, x) == IF signed THEN SExt(x, W, 2 * W) ELSE x

MulLoHiIRUntruncatedLo(signed, a, b) ==
  LET full == (ExtendFactor(signed, a) * ExtendFactor(signed, b)) % 2^(2 * W)
  IN  <<full, Trunc(LShr(full, W, 2 * W), W)>>

(* SMUL_LOHI / UMUL_LOHI: the full product, registered as trunc(Full) and *)
(* then trunc(Full >> LoBits).                                            *)
MulLoHiIR(signed, a, b) ==
  LET full == (ExtendFactor(signed, a) * ExtendFactor(signed, b)) % 2^(2 * W)
  IN  <<Trunc(full, W), Trunc(LShr(full, W, 2 * W), W)>>

(* The extending loads of translatePredicate: the memory type and whether *)
(* translateExtLoad sign-extends (isSExt defaults to false).               *)
ExtLoadOfSExt32Default ==
  [zextloadi8  |-> [mem |-> "i8",  sext |-> FALSE],
   zextloadi16 |-> [mem |-> "i16", sext |-> FALSE],
   sextloadi8  |-> [mem |-> "i8",  sext |-> TRUE],
   sextloadi16 |-> [mem |-> "i16", sext |-> TRUE],
   sextloadi32 |-> [mem |-> "i32", sext |-> FALSE]]
ExtLoadOf ==
  [zextloadi8  |-> [mem |-> "i8",  sext |-> FALSE],
   zextloadi16 |-> [mem |-> "i16", sext |-> FALSE],
   sextloadi8  |-> [mem |-> "i8",  sext |-> TRUE],
   sextloadi16 |-> [mem |-> "i16", sext |-> TRUE],
   sextloadi32 |-> [mem |-> "i32", sext |-> TRUE]]

(* translateExtLoad: load the memory type, then SExt or ZExt to ResType. *)
ExtLoadIR(p, x) ==
  LET e == ExtLoadOf[p]
  IN  IF e.sext THEN SExt(x, MemBits[e.mem], W) ELSE x

-----------------------------------------------------------------------------
Init ==
  /\ opc \in {"ROTL", "SMUL_LOHI", "UMUL_LOHI"} \cup DOMAIN ExtLoadOf
  /\ lhs \in IF opc \in DOMAIN ExtLoadOf
               THEN 0..(2^MemBits[ExtLoadOf[opc].mem] - 1) ELSE Word
  /\ rhs \in IF opc = "ROTL" THEN Amounts ELSE IF opc \in DOMAIN ExtLoadOf THEN {0} ELSE Word
  /\ res = <<>>

TranslateROTL ==
  /\ opc = "ROTL" /\ res = <<>>
  /\ res' = <<RotlIR(lhs, rhs)>>
  /\ UNCHANGED <<opc, lhs, rhs>>

TranslateMulLoHi ==
  /\ opc \in {"SMUL_LOHI", "UMUL_LOHI"} /\ res = <<>>
  /\ res' = MulLoHiIR(opc = "SMUL_LOHI", lhs, rhs)
  /\ UNCHANGED <<opc, lhs, rhs>>

TranslateExtLoad ==
  /\ opc \in DOMAIN ExtLoadOf /\ res = <<>>
  /\ res' = <<ExtLoadIR(opc, lhs)>>
  /\ UNCHANGED <<opc, lhs, rhs>>

Next == TranslateROTL \/ TranslateMulLoHi \/ TranslateExtLoad

Spec == Init /\ [][Next]_vars /\ WF_vars(Next)

-----------------------------------------------------------------------------
(* The meaning of the selection-DAG nodes, by arithmetic.                 *)

\* ISD::ROTL: rotate left by the amount modulo the width.
RotateRef(x, r) ==
  LET k == r % W IN ((x * 2^k) % 2^W) + (x \div 2^(W - k))

\* Two's complement reading of a W-bit value.
Signed(x) == IF x >= 2^(W - 1) THEN x - 2^W ELSE x

\* ISD::SMUL_LOHI / UMUL_LOHI: low and high halves of the exact product.
MulLoHiRef(signed, a, b) ==
  LET p == IF signed THEN Signed(a) * Signed(b) ELSE a * b
  IN  <<p % 2^W, (p \div 2^W) % 2^W>>

\* ISD sextload / zextload of the predicate's memory VT (TargetSelectionDAG):
\* the two's complement or the unsigned reading of the loaded bits, in W bits.
ExtLoadRef(p, x) ==
  LET m == CASE p \in {"zextloadi8", "sextloadi8"}   -> MemBits["i8"]
             [] p \in {"zextloadi16", "sextloadi16"} -> MemBits["i16"]
             [] p = "sextloadi32"                    -> MemBits["i32"]
  IN  IF p \in {"sextloadi8", "sextloadi16", "sextloadi32"} /\ x >= 2^(m - 1)
        THEN (x - 2^m) % 2^W ELSE x

-----------------------------------------------------------------------------
(* Properties.                                                            *)

TypeOK ==
  /\ opc \in {"ROTL", "SMUL_LOHI", "UMUL_LOHI"} \cup DOMAIN ExtLoadOf
  /\ lhs \in Word /\ rhs \in Word
  /\ res \in {<<>>} \cup {<<v>> : v \in Word \cup {Poison}} \cup (Word \X Word)

(* The ROTL expansion computes the rotate the tape asks for, and never    *)
(* poison, for every amount the operand holds (the FIXME at the ROTL case *)
(* of translateOpcode says RHS "needs to be tweaked").                    *)
RotlMatchesISD ==
  (opc = "ROTL" /\ res # <<>>) => res = <<RotateRef(lhs, rhs)>>

(* The two results SMUL_LOHI / UMUL_LOHI register are the low and the     *)
(* high half of the signed / unsigned product: the extension, the width   *)
(* of the full product and the shift to the high half all agree.          *)
MulLoHiMatchesISD ==
  (opc \in {"SMUL_LOHI", "UMUL_LOHI"} /\ res # <<>>) =>
    res = MulLoHiRef(opc = "SMUL_LOHI", lhs, rhs)

(* Each extending-load predicate loads its memory type and extends it the *)
(* way the predicate names: translatePredicate passes the right type and  *)
(* isSExt to translateExtLoad, and the extension fills the upper bits.     *)
ExtLoadMatchesISD ==
  (opc \in DOMAIN ExtLoadOf /\ res # <<>>) => res = <<ExtLoadRef(opc, lhs)>>

=============================================================================
