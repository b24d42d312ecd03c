----------------------------- MODULE RegCoerce -------------------------------
(***************************************************************************)
(* The values and types the register opcodes of translateOpcode move       *)
(* between the operand stack and the register file (lib/DC/DCFunction.cpp): *)
(* GET_RC truncates the register's integer and bitcasts it to the result  *)
(* type, PUT_RC turns the value into an integer (ptrtoint or bitcast),     *)
(* inserts it into the register when narrower and asserts that the result *)
(* has the register's integer type; CONSTANT_OP and MOV_CONSTANT push     *)
(* integer constants of the result type, MOV_CONSTANT taking an iPTR      *)
(* result type as i64.                                                     *)
(*                                                                         *)
(* A type is a kind and a width in bits; a value is a type and a bit      *)
(* pattern.  The top of the operand stack is kept with the type the tape  *)
(* declared for it (its EVT).  Widths are scaled down: I64 stands for 64. *)
(***************************************************************************)
EXTENDS Naturals

CONSTANTS
  Regs,       \* register numbers the MC operands of the tape resolve to
  RegWidth,   \* [Regs -> width of DRS.getRegIntType]
  PtrBits,    \* the data layout's pointer width
  I64,        \* the width Builder->getInt64Ty() has
  TapeTypes,  \* the non-pointer result types the tape can name
  Patterns,   \* [width -> the bit patterns values of that width take]
  IPtr,       \* the iPTR value-type tag of the tape
  Invalid,    \* the outcome of a cast LLVM rejects (an assertion)
  None        \* no value

ASSUME RegWidth \in [Regs -> Nat \ {0}] /\ PtrBits \in Nat \ {0}

VARIABLES
  regs,     \* register contents, as the register's integer
  top,      \* the value on top of the operand stack with its EVT, or None
  written,  \* ghost: the value each register was last PUT_RC with, or None
  got,      \* ghost: the GET_RC of the last step, with the value last put
  failed    \* an assertion of PUT_RC or a cast failed

vars == <<regs, top, written, got, failed>>

Int(w) == [k |-> "int", w |-> w]
Ptr == [k |-> "ptr", w |-> PtrBits]
Bits(w) == 0..(2^w - 1)

\* Type::getPrimitiveSizeInBits: 0 for a pointer.
PrimSize(t) == IF t.k = "ptr" THEN 0 ELSE t.w

-----------------------------------------------------------------------------
(* The IR casts the handlers emit, on values [ty, bits].                  *)

PtrToInt(v, t) == [ty |-> t, bits |-> v.bits % 2^t.w]

\* A bitcast needs equal sizes and no pointer on either side.
BitCast(v, t) ==
  IF v = Invalid \/ v.ty.k = "ptr" \/ t.k = "ptr" \/ PrimSize(v.ty) # PrimSize(t)
    THEN Invalid ELSE [ty |-> t, bits |-> v.bits]

\* CreateTrunc to an integer type: the value itself at its own width, an
\* assertion unless narrower otherwise (IntegerType::get(0) included).
TruncTo(v, w) ==
  CASE v.ty.k = "int" /\ w = v.ty.w        -> v
    [] v.ty.k = "int" /\ 0 < w /\ w < v.ty.w -> [ty |-> Int(w), bits |-> v.bits % 2^w]
    [] OTHER                               -> Invalid

\* DRS.insertBitsInValue(Full, V): V replaces the low bits of Full.
InsertBitsInValueUnmasked(full, v) == [ty |-> full.ty, bits |-> full.bits + v.bits]
InsertBitsInValue(full, v) ==
  [ty |-> full.ty, bits |-> (full.bits - (full.bits % 2^v.ty.w)) + v.bits]

-----------------------------------------------------------------------------
(* The handlers' value computations.                                       *)

\* GET_RC: the register as integer, truncated when the result type is
\* narrower, bitcast when the result type is not an integer.
GetRCNoBitcast(r, t, cur) ==
  LET reg == [ty |-> Int(RegWidth[r]), bits |-> cur]
  IN  IF PrimSize(t) < RegWidth[r] THEN TruncTo(reg, PrimSize(t)) ELSE reg
GetRCValue(r, t, cur) ==
  LET reg == [ty |-> Int(RegWidth[r]), bits |-> cur]
      a   == IF PrimSize(t) < RegWidth[r] THEN TruncTo(reg, PrimSize(t)) ELSE reg
  IN  IF t.k # "int" THEN BitCast(a, t) ELSE a

\* PUT_RC's first two coercions: a pointer is ptrtoint'ed to the register
\* type rt, any other non-integer bitcast to the integer of its size.
AsIntPtrOwnWidth(v, rt) ==
  LET a == IF v.ty.k = "ptr" THEN PtrToInt(v, Int(PtrBits)) ELSE v
  IN  IF a.ty.k # "int" THEN BitCast(a, Int(PrimSize(a.ty))) ELSE a
AsInt(v, rt) ==
  LET a == IF v.ty.k = "ptr" THEN PtrToInt(v, rt) ELSE v
  IN  IF a.ty.k # "int" THEN BitCast(a, Int(PrimSize(a.ty))) ELSE a

\* PUT_RC: the integer is inserted into the register when narrower; the
\* result must have the register's type (assert), else Invalid.
PutRCValue(r, v, cur) ==
  LET rt == Int(RegWidth[r])
      b  == AsInt(v, rt)
      c  == IF PrimSize(b.ty) < RegWidth[r]
              THEN InsertBitsInValue([ty |-> rt, bits |-> cur], b) ELSE b
  IN  IF c.ty = rt THEN c ELSE Invalid

\* ConstantInt::get(IntegerType, n) keeps the low bits of n.
ConstantValue(t, n) == [ty |-> t, bits |-> n % 2^t.w]

\* MOV_CONSTANT's result type: i64 for iPTR, else the EVT's type.
MovConstantType(evt) == IF evt = IPtr THEN Int(I64) ELSE evt

\* The width the tape declares for a value of an EVT; iPTR is pointer-sized.
DeclWidth(evt) == IF evt = IPtr THEN PtrBits ELSE PrimSize(evt)

Values(t) == {[ty |-> t, bits |-> b] : b \in Patterns[t.w]}
IntTypes == {t \in TapeTypes : t.k = "int"}

-----------------------------------------------------------------------------
(* One step runs one register opcode on the stack top, or any other opcode *)
(* leaves a value there.  The tape only names types that fit the register *)
(* class of the operand, so a GET_RC result type and the EVT of the value  *)
(* a PUT_RC pops are no wider than the register.  A failed assertion ends *)
(* the translation.                                                        *)

Init ==
  /\ regs \in [Regs -> UNION {Patterns[RegWidth[r]] : r \in Regs}]
  /\ \A r \in Regs : regs[r] \in Patterns[RegWidth[r]]
  /\ top = None
  /\ written = [r \in Regs |-> None]
  /\ got = None
  /\ failed = "no"

Push(v, evt) == top' = [val |-> v, evt |-> evt]

TranslateGetRC(r, t) ==
  /\ failed = "no" /\ top = None
  /\ PrimSize(t) <= RegWidth[r]
  /\ LET v == GetRCValue(r, t, regs[r])
     IN /\ got' = [r |-> r, ty |-> t, val |-> v, put |-> written[r]]
        /\ IF v = Invalid THEN failed' = "GET_RC" /\ UNCHANGED top
                          ELSE Push(v, t) /\ UNCHANGED failed
  /\ UNCHANGED <<regs, written>>

TranslatePutRC(r) ==
  /\ failed = "no" /\ top # None
  /\ DeclWidth(top.evt) <= RegWidth[r]
  /\ LET c == PutRCValue(r, top.val, regs[r])
     IN IF c = Invalid
          THEN failed' = "PUT_RC" /\ UNCHANGED <<regs, written>>
          ELSE /\ regs' = [regs EXCEPT ![r] = c.bits]
               /\ written' = [written EXCEPT ![r] = top.val]
               /\ UNCHANGED failed
  /\ top' = None
  /\ got' = None

TranslateConstantOp(t, n) ==
  /\ failed = "no" /\ top = None
  /\ Push(ConstantValue(t, n), t)
  /\ got' = None /\ UNCHANGED <<regs, written, failed>>

TranslateMovConstant(evt, n) ==
  /\ failed = "no" /\ top = None
  /\ Push(ConstantValue(MovConstantType(evt), n), evt)
  /\ got' = None /\ UNCHANGED <<regs, written, failed>>

\* registerResult of any other opcode or hook: a value of a tape type, or a
\* pointer (a target hook's value).
RegisterResult(t, v) ==
  /\ failed = "no" /\ top = None
  /\ Push(v, t)
  /\ got' = None /\ UNCHANGED <<regs, written, failed>>

Next ==
  \/ \E r \in Regs, t \in TapeTypes : TranslateGetRC(r, t)
  \/ \E r \in Regs : TranslatePutRC(r)
  \/ \E t \in IntTypes, n \in Patterns[I64] : TranslateConstantOp(t, n)
  \/ \E e \in IntTypes \cup {IPtr}, n \in Patterns[I64] : TranslateMovConstant(e, n)
  \/ \E t \in TapeTypes \cup {Ptr} : \E v \in Values(t) : RegisterResult(t, v)

Spec == Init /\ [][Next]_vars

-----------------------------------------------------------------------------
(* Properties.                                                            *)

Value == UNION {[ty : {t}, bits : Bits(t.w)] :
                 t \in TapeTypes \cup {Ptr} \cup {Int(w) : w \in DOMAIN Patterns}}

TypeOK ==
  /\ \A r \in Regs : regs[r] \in Bits(RegWidth[r])
  /\ top \in {None} \cup [val : Value, evt : TapeTypes \cup {Ptr, IPtr}]
  /\ \A r \in Regs : written[r] \in Value \cup {None}
  /\ failed \in {"no", "GET_RC", "PUT_RC"}

(* PUT_RC's assertion that the coerced value has the register's integer   *)
(* type holds for every value the tape can put in the register: pointers, *)
(* non-integers, narrower values, and the constants MOV_CONSTANT makes.   *)
PutRCAssertHolds == failed # "PUT_RC"

\* The bits a value stands for in a register of width w.
RegBits(v, w) == IF v.ty.k = "ptr" THEN v.bits % 2^w ELSE v.bits

(* GET_RC yields a value of the type the tape asks for, and after a       *)
(* PUT_RC of the same register it reads back the low bits of the value   *)
(* put, whatever types the two used, when it reads no more bits than were *)
(* put (a pointer puts the register's width).  About the truncation and  *)
(* bitcast of GET_RC, the coercions of PUT_RC and the sub-register insert. *)
GetRCReadsBack ==
  got # None =>
    /\ got.val # Invalid
    /\ got.val.ty = got.ty
    /\ LET w == IF got.put = None THEN 0
                ELSE IF got.put.ty.k = "ptr" THEN RegWidth[got.r]
                ELSE PrimSize(got.put.ty)
       IN (got.put # None /\ PrimSize(got.ty) <= w) =>
            got.val.bits = RegBits(got.put, RegWidth[got.r]) % 2^PrimSize(got.ty)

=============================================================================
