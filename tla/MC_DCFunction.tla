--------------------------- MODULE MC_DCFunction ---------------------------
(***************************************************************************)
(* A model of DCFunction for TLC: an x86-64 flavoured semantics tape and   *)
(* every MC function of two blocks the decoder can produce from it.       *)
(*                                                                         *)
(*   block 1: [0, 3)  inst @0 (2 bytes), inst @2 (1 byte)                  *)
(*   block 2: [3, 5)  inst @3 (2 bytes)                                    *)
(*                                                                         *)
(* The first instruction is any non-branch instruction of the table, the  *)
(* last of each block a branch (direct to 0, 3 or the external 8,         *)
(* indirect) or one of a few others, so that blocks fall through, loop,   *)
(* branch forward, tail-call, call, read the PC and fail.                 *)
(* Two more sets: functions with an empty second block, and functions of  *)
(* three one-instruction blocks with two external branch targets.         *)
(***************************************************************************)
EXTENDS DCFunction

\* The semantics of each MC opcode: opcode, result VT, inline operands.
TapeOf == [
  ADDrr   |-> <<"GET_RC", "i64", "1", "GET_RC", "i64", "2", "ADD", "i64",
                "PUT_RC", "i64", "0", "END">>,
  LEArip  |-> <<"GET_REG", "i64", "RIP", "PUT_RC", "i64", "0", "END">>,
  JMP     |-> <<"CONSTANT_OP", "i64", "0", "BR", "isVoid", "END">>,
  JMPr    |-> <<"GET_RC", "i64", "0", "BRIND", "isVoid", "END">>,
  CALL    |-> <<"CONSTANT_OP", "i64", "0", "X86_CALL", "isVoid", "END">>,
  CPUID   |-> <<"X86_CPUID", "isVoid", "END">>,
  MULH    |-> <<"GET_RC", "i64", "1", "GET_RC", "i64", "2",
                "UMUL_LOHI", "i64", "i64", "PUT_RC", "i64", "0",
                "PUT_RC", "i64", "1", "END">>,
  MEM     |-> <<"GET_RC", "i64", "1", "PREDICATE", "i32", "loadi32",
                "ZERO_EXTEND", "i64", "PUT_RC", "i64", "0", "END">>,
  STOREm  |-> <<"GET_RC", "i64", "0", "GET_RC", "i64", "1",
                "PREDICATE", "isVoid", "store", "END">>,
  BADPRED |-> <<"GET_RC", "i64", "1", "PREDICATE", "i64", "nontemporalload",
                "PUT_RC", "i64", "0", "END">>,
  CUST    |-> <<"CUSTOM_OP", "i64", "7", "1", "PUT_RC", "i64", "0", "END">>,
  CPLX    |-> <<"COMPLEX_PATTERN", "iPTR", "3", "LOAD", "i64",
                "PUT_RC", "i64", "0", "END">>,
  IMPL    |-> <<"IMPLICIT", "isVoid", "EFLAGS", "END">>,
  BAD     |-> <<"GET_RC", "i64", "1", "FMA", "f64", "END">>,
  MOVabs  |-> <<"MOV_CONSTANT", "iPTR", "0", "PUT_REG", "i64", "RAX", "END">>,
  UD2     |-> <<"TRAP", "isVoid", "END">>,
  MFENCE  |-> <<"MOV_CONSTANT", "i64", "2", "MOV_CONSTANT", "i64", "1",
                "ATOMIC_FENCE", "isVoid", "END">>]

TapeOrder == <<"ADDrr", "LEArip", "JMP", "JMPr", "CALL", "CPUID", "MULH",
               "MEM", "STOREm", "BADPRED", "CUST", "CPLX", "IMPL", "BAD",
               "MOVabs", "UD2", "MFENCE">>

Flat == FlattenSeq([k \in 1..Len(TapeOrder) |-> TapeOf[TapeOrder[k]]])

MCSemanticsArray == [i \in 0..(Len(Flat) - 1) |-> Flat[i + 1]]

MCOpcodeToSemaIdx ==
  [o \in {"UNK", "TGT"} \cup DOMAIN TapeOf |->
     IF o \in DOMAIN TapeOf
       THEN LET k == CHOOSE k \in 1..Len(TapeOrder) : TapeOrder[k] = o
            IN Len(FlattenSeq([j \in 1..(k - 1) |-> TapeOf[TapeOrder[j]]]))
       ELSE NoSema]

MCConstantArray == [c \in {"0", "1", "2"} |->
                      IF c = "0" THEN 42 ELSE IF c = "1" THEN 7 ELSE 1]

\* Decoded instructions: opcode and immediate (branch or call target).
Choice(o, imm) == [opc |-> o, imm |-> imm]
NonBranch == {Choice(o, IF o = "CALL" THEN 16 ELSE 0) :
                o \in {"ADDrr", "LEArip", "CALL", "CPUID", "MULH", "MEM",
                       "STOREm", "BADPRED", "CUST", "CPLX", "IMPL", "BAD",
                       "MOVabs", "UD2", "MFENCE", "UNK", "TGT"}}
Branch == {Choice("JMP", t) : t \in {0, 3, 8}} \cup {Choice("JMPr", 0)}
Slot2 == Branch \cup {Choice("LEArip", 0), Choice("CALL", 16),
                      Choice("UNK", 0), Choice("TGT", 0)}
Slot3 == Branch \cup {Choice("LEArip", 0), Choice("CALL", 16)}

Inst(a, size, c) == [addr |-> a, size |-> size, opc |-> c.opc, imm |-> c.imm]

\* The decoder's successors of an MC block, from its last instruction.
MCSuccs(end, last) ==
  IF last.opc = "JMP" THEN {last.imm}
  ELSE IF last.opc = "JMPr" THEN {ExitLabel}
  ELSE {end}

MCBB(start, end, insts) ==
  [start |-> start, end |-> end, insts |-> insts,
   succs |-> MCSuccs(end, insts[Len(insts)])]

MCMCFunctions ==
  {[start |-> 0,
    bbs |-> <<MCBB(0, 3, <<Inst(0, 2, c1), Inst(2, 1, c2)>>),
              MCBB(3, 5, <<Inst(3, 2, c3)>>)>>,
    tailcalls |-> {c.imm : c \in {c \in {c2, c3} : c.opc = "JMP" /\ c.imm \notin {0, 3}}}]
   : c1 \in NonBranch, c2 \in Slot2, c3 \in Slot3}

MCBlockAddrs == {0, 3, 5, 8}

\* A function whose second MC block has no instruction (start = end), the
\* first falling through or jumping to it.
MCEmptyBlockFunctions ==
  {[start |-> 0,
    bbs |-> <<MCBB(0, 3, <<Inst(0, 2, c1), Inst(2, 1, c2)>>),
              [start |-> 3, end |-> 3, insts |-> <<>>, succs |-> {3}]>>,
    tailcalls |-> {}]
   : c1 \in {Choice("ADDrr", 0), Choice("CALL", 16)},
     c2 \in {Choice("ADDrr", 0), Choice("JMP", 3)}}

\* Functions of three one-instruction blocks [0,2), [2,4), [4,6): each ends
\* in a fall-through, a call, a direct branch to any block or to one of two
\* external addresses, or an indirect branch.
Slot3B == {Choice("ADDrr", 0), Choice("CALL", 16), Choice("JMPr", 0)}
            \cup {Choice("JMP", t) : t \in {0, 2, 4, 9, 10}}

MCThreeBlockFunctions ==
  {[start |-> 0,
    bbs |-> [k \in 1..3 |-> MCBB(2 * k - 2, 2 * k, <<Inst(2 * k - 2, 2, c[k])>>)],
    tailcalls |-> {c[k].imm : k \in {k \in 1..3 : c[k].opc = "JMP" /\ c[k].imm \in {9, 10}}}]
   : c \in [1..3 -> Slot3B]}

MCThreeBlockAddrs == {0, 2, 4, 6, 9, 10}

\* The two-block and the three-block functions together.
MCTwoAndThreeBlockFunctions == MCMCFunctions \cup MCThreeBlockFunctions
MCTwoAndThreeBlockAddrs == MCBlockAddrs \cup MCThreeBlockAddrs

=============================================================================
