----------------------------- MODULE DCFunction -----------------------------
(***************************************************************************)
(* The function translator of lib/DC/DCFunction.cpp: the state machine    *)
(* that turns one decoded MC function into IR basic blocks.               *)
(*                                                                         *)
(*  - the basic-block manager (BBByAddr, getOrCreateBasicBlock and the     *)
(*    trap+unreachable placeholders);                                      *)
(*  - the function translator proper (constructor, SwitchToBasicBlock,     *)
(*    FinalizeBasicBlock, insertCall/insertCallBB, the external tail call  *)
(*    and the destructor's post-processing of call blocks);               *)
(*  - the instruction translator (translateInst, tryTranslateInst and one  *)
(*    action per group of semantic opcodes of translateOpcode), reading    *)
(*    the semantics tape and an operand stack.                             *)
(*                                                                         *)
(* The IR is abstracted to the shape the properties look at: a block is a  *)
(* sequence of IR instructions, each a kind and, for a branch, the target  *)
(* block.  IR values are only told apart by whether they are a ConstantInt *)
(* and, as a ghost, by the run-time value they hold when it is known.      *)
(* The register-semantics collaborator (DRS) is out of scope: its reads    *)
(* and writes emit no IR here, and only the program counter is tracked.   *)
(* The driver that calls the translator (not in this repository) is       *)
(* modelled from the spec: MC blocks in order, each instruction, finalize, *)
(* then the external tail calls, then the destructor.                     *)
(***************************************************************************)
EXTENDS Naturals, Sequences, FiniteSets, SequencesExt

CONSTANTS
  MCFunctions,        \* decoded MC functions the decoder can hand over
  OpcodeToSemaIdx,    \* [MC opcode -> index into SemanticsArray or NoSema]
  SemanticsArray,     \* [0..n-1 -> token], the semantics tape
  ConstantArray,      \* [indices -> Nat], the MOV_CONSTANT pool
  TargetInsts,        \* MC opcodes translateTargetInst handles end to end
  TargetOpcodes,      \* semantic opcodes in the target range
  TargetCallOpcodes,  \* target opcodes whose hook emits a call (insertCall)
  PCReg,              \* DRS.MRI.getProgramCounter()
  EnableRegSetDiff,   \* -enable-dc-regset-diff
  EnableInstAddrSave, \* -enable-dc-pc-save
  TranslateUnknownToUndef, \* -dc-translate-unknown-to-undef
  MaxStack,           \* deepest operand stack a well-formed tape builds
  BlockAddrs,         \* every address a block can be created for
  NoSema,             \* the ~0U sentinel of OpcodeToSemaIdx
  NoAddr,             \* address of blocks not in BBByAddr
  ExitLabel,          \* successor label of a path that reaches ExitBB
  Unknown             \* a run-time value the translator cannot know

ASSUME EnableRegSetDiff \in BOOLEAN /\ EnableInstAddrSave \in BOOLEAN
ASSUME TranslateUnknownToUndef \in BOOLEAN
ASSUME MaxStack \in Nat

VARIABLES
  mcf,        \* the MC function being translated (TheMCFunction)
  blocks,     \* the IR function's blocks: id -> [kind, addr, body]
  bbByAddr,   \* BBByAddr: address -> block id
  theBB,      \* TheBB (0 = nullptr)
  drsBB,      \* the block DRS was last switched to, 0 once finalized
  theMCBB,    \* TheMCBB, index into mcf.bbs (0 = nullptr)
  callBBs,    \* CallBBs
  curInst,    \* CurrentInst, index into the MC block's instructions (0 = nullptr)
  idx,        \* Idx, the tape cursor
  vals,       \* Vals, the operand stack (top = last)
  status,     \* "idle", or the running/returned state of tryTranslateInst
  phase,      \* driver: "new", "run", "aborted", "done"
  ok,         \* driver: FALSE once an instruction failed to translate
  doneBBs,    \* driver: MC blocks finalized so far
  drvInst,    \* driver: instructions of the current MC block translated
  tailTodo,   \* driver: external tail-call targets still to create
  pcVal,      \* ghost: run-time value of the PC at the insertion point
  opened,     \* ghost: addresses whose block was opened for insertion
  pcObserved, \* ghost: PC values read by GET_REG and the value expected
  hookFailed, \* ghost: a target hook reported failure in this instruction
  instLog     \* ghost: outcome of every translated instruction

vars == <<mcf, blocks, bbByAddr, theBB, drsBB, theMCBB, callBBs, curInst, idx, vals,
          status, phase, ok, doneBBs, drvInst, tailTodo, pcVal, opened,
          pcObserved, hookFailed, instLog>>

-----------------------------------------------------------------------------
(* IR instructions and blocks.                                            *)

Ins(k) == [k |-> k, to |-> 0]
Br(b)  == [k |-> "br", to |-> b]
IsTerminator(i) == i.k \in {"br", "ret", "unreachable"}

\* The body getOrCreateBasicBlock gives a new block: trap(); unreachable.
Placeholder == <<Ins("trap"), Ins("unreachable")>>

Block(kind, a, body) == [kind |-> kind, addr |-> a, body |-> body]

AppendIR(bl, b, is) == [bl EXCEPT ![b].body = @ \o is]

\* Blocks created by the constructor: entry is 1, ExitBB is 2.
EntryBB == 1
ExitBB  == 2

\* Operand stack values: whether it is a ConstantInt, and its run-time value.
Value == [cst : BOOLEAN, v : Nat \cup {Unknown}]
Opaque == [cst |-> FALSE, v |-> Unknown]
Const(n) == [cst |-> TRUE, v |-> n]

\* getNextOperand, n times: the operands come off the top of Vals.
PopOne(s, n) == SubSeq(s, 1, Len(s) - 1)
Pop(s, n) == SubSeq(s, 1, Len(s) - n)

\* The PC after "PC <- PC + Size"; an unknown PC stays unknown.
PlusSizeMissing(pc, size) == pc
PlusSize(pc, size) == IF pc = Unknown THEN Unknown ELSE pc + size

-----------------------------------------------------------------------------
(* getOrCreateBasicBlock: look the address up in BBByAddr, or create a     *)
(* bb_<addr> placeholder and record it.  Returns the new block list, map  *)
(* and the block id.                                                       *)

GetOrCreateNoLookup(bl, map, a) ==
  [blocks |-> Append(bl, Block("bb", a, Placeholder)),
   map    |-> (a :> (Len(bl) + 1)) @@ map,
   id     |-> Len(bl) + 1]

GetOrCreate(bl, map, a) ==
  IF a \in DOMAIN map
    THEN [blocks |-> bl, map |-> map, id |-> map[a]]
    ELSE [blocks |-> Append(bl, Block("bb", a, Placeholder)),
          map    |-> (a :> (Len(bl) + 1)) @@ map,
          id     |-> Len(bl) + 1]

(* insertCallBB: branch from the current block into a new "<bb>_call"     *)
(* block holding only the call, which branches on to a new "<bb>_c<addr>" *)
(* successor that becomes TheBB.  DRS finalizes the current block and is  *)
(* switched to the successor (drs).  CallBBs records the call block.       *)
CallSplit(bl, cur) ==
  AppendIR(bl, cur, <<Br(Len(bl) + 1)>>)
    \o <<Block("call", NoAddr, <<Ins("call"), Br(Len(bl) + 2)>>),
         Block("succ", NoAddr, <<>>)>>

InsertCallBBUnrecorded(bl, cur, cbbs) ==
  [blocks |-> CallSplit(bl, cur), theBB |-> Len(bl) + 2, drs |-> Len(bl) + 2,
   callBBs |-> cbbs]
InsertCallBB(bl, cur, cbbs) ==
  [blocks |-> CallSplit(bl, cur), theBB |-> Len(bl) + 2, drs |-> Len(bl) + 2,
   callBBs |-> Append(cbbs, Len(bl) + 1)]

(* insertCall: a ConstantInt target is the IR function at that address;   *)
(* anything else goes through translate_at (a call and a bitcast emitted  *)
(* in the current block) before the call block is inserted.               *)
InsertCall(bl, cur, cbbs, target) ==
  LET pre == IF target.cst THEN <<>> ELSE <<Ins("translate_at"), Ins("op")>>
  IN InsertCallBB(AppendIR(bl, cur, pre), cur, cbbs)


(* SwitchToBasicBlock(uint64_t) with prepareBasicBlockForInsertion: get    *)
(* the block at the address, which must still be the 2-instruction       *)
(* placeholder ("Several BBs at the same address?"), and erase both.      *)
(* The PC is then set to the block's start address.                       *)
OpenAt(bl, map, a) ==
  LET g == GetOrCreate(bl, map, a)
  IN [placeholder |-> g.blocks[g.id].body = Placeholder,
      blocks      |-> [g.blocks EXCEPT ![g.id].body = <<>>],
      map         |-> g.map,
      id          |-> g.id]

EmptyMap == [a \in {} |-> 0]

MCBBs == mcf.bbs
CurMCBB == MCBBs[theMCBB]
CurInst == CurMCBB.insts[curInst]

-----------------------------------------------------------------------------
(* Driver and function translator.                                        *)

Init ==
  /\ mcf \in MCFunctions
  /\ blocks = <<>>
  /\ bbByAddr = EmptyMap
  /\ theBB = 0
  /\ drsBB = 0
  /\ theMCBB = 0
  /\ callBBs = <<>>
  /\ curInst = 0
  /\ idx = 0
  /\ vals = <<>>
  /\ status = "idle"
  /\ phase = "new"
  /\ ok = TRUE
  /\ doneBBs = 0
  /\ drvInst = 0
  /\ tailTodo = mcf.tailcalls
  /\ pcVal = Unknown
  /\ opened = {}
  /\ pcObserved = {}
  /\ hookFailed = FALSE
  /\ instLog = {}

(* DCFunction::DCFunction: entry and exit blocks; with regset diffing the  *)
(* entry saves the regset (alloca, load, store) and ExitBB branches to a  *)
(* diff_exit block calling the diff function then returning; otherwise    *)
(* ExitBB returns.  The entry then branches to the block at StartAddr.    *)
Construct ==
  /\ phase = "new"
  /\ LET entry == Block("entry", NoAddr,
                        IF EnableRegSetDiff
                          THEN <<Ins("op"), Ins("op"), Ins("op")>> ELSE <<>>)
         exit  == Block("exit", NoAddr,
                        IF EnableRegSetDiff THEN <<Br(3)>> ELSE <<Ins("ret")>>)
         diff  == Block("diff_exit", NoAddr, <<Ins("diffcall"), Ins("ret")>>)
         base  == IF EnableRegSetDiff THEN <<entry, exit, diff>>
                                      ELSE <<entry, exit>>
         g     == GetOrCreate(base, EmptyMap, mcf.start)
     IN /\ blocks' = AppendIR(g.blocks, EntryBB, <<Br(g.id)>>)
        /\ bbByAddr' = g.map
        /\ theBB' = 0
  /\ phase' = "run"
  /\ UNCHANGED <<mcf, drsBB, theMCBB, callBBs, curInst, idx, vals, status, ok,
                 doneBBs, drvInst, tailTodo, pcVal, opened, pcObserved,
                 hookFailed, instLog>>

(* SwitchToBasicBlock(const MCBasicBlock * ), called by the driver for the *)
(* next MC block in order.  The assertion of prepareBasicBlockForInsertion *)
(* is a guard: when it fails the translator stops here.  DRS is switched   *)
(* to the block.                                                          *)
SwitchToBasicBlock ==
  /\ phase = "run"
  /\ theMCBB = 0
  /\ doneBBs < Len(MCBBs)
  /\ LET b == doneBBs + 1
         o == OpenAt(blocks, bbByAddr, MCBBs[b].start)
     IN /\ o.placeholder
        /\ blocks' = o.blocks
        /\ bbByAddr' = o.map
        /\ theBB' = o.id
        /\ drsBB' = o.id
        /\ theMCBB' = b
        /\ pcVal' = MCBBs[b].start
        /\ opened' = opened \cup {MCBBs[b].start}
  /\ drvInst' = 0
  /\ UNCHANGED <<mcf, callBBs, curInst, idx, vals, status, phase, ok, doneBBs,
                 tailTodo, pcObserved, hookFailed, instLog>>

(* translateInst up to the semantics loop of tryTranslateInst: record     *)
(* CurrentInst, optionally store its address (volatile), then either the  *)
(* target translates the whole instruction, or the opcode has no          *)
(* semantics (~0U), or the PC is incremented by the instruction size      *)
(* before anything else and the tape cursor is set.                       *)
TranslateInst ==
  /\ phase = "run"
  /\ theMCBB # 0
  /\ status = "idle"
  /\ drvInst < Len(CurMCBB.insts)
  /\ LET i    == CurMCBB.insts[drvInst + 1]
         save == IF EnableInstAddrSave THEN <<Ins("op")>> ELSE <<>>
     IN \/ /\ i.opc \in TargetInsts
           /\ blocks' = AppendIR(blocks, theBB, save \o <<Ins("op")>>)
           /\ status' = "ok"
           /\ pcVal' = Unknown
           /\ UNCHANGED idx
        \/ /\ i.opc \notin TargetInsts
           /\ OpcodeToSemaIdx[i.opc] = NoSema
           /\ blocks' = AppendIR(blocks, theBB, save)
           /\ status' = "fail"
           /\ UNCHANGED <<idx, pcVal>>
        \/ /\ i.opc \notin TargetInsts
           /\ OpcodeToSemaIdx[i.opc] # NoSema
           /\ blocks' = AppendIR(blocks, theBB, save \o <<Ins("op")>>)
           /\ idx' = OpcodeToSemaIdx[i.opc]
           /\ pcVal' = PlusSize(pcVal, i.size)
           /\ status' = "tape"
  /\ curInst' = drvInst + 1
  /\ hookFailed' = FALSE
  /\ UNCHANGED <<mcf, bbByAddr, theBB, drsBB, theMCBB, callBBs, vals, phase, ok,
                 doneBBs, drvInst, tailTodo, opened, pcObserved, instLog>>

ClearInstState == vals' = <<>> /\ curInst' = 0

(* The end of translateInst once tryTranslateInst returned: on failure    *)
(* with -dc-translate-unknown-to-undef emit trap+unreachable and report   *)
(* success, else the driver gives up on the function.  Vals is cleared    *)
(* and CurrentInst reset on every path.                                   *)
FinishInst ==
  /\ status \in {"ok", "fail"}
  /\ LET undef == status = "fail" /\ TranslateUnknownToUndef
     IN /\ blocks' = IF undef THEN AppendIR(blocks, theBB, Placeholder)
                             ELSE blocks
        /\ IF status = "fail" /\ ~TranslateUnknownToUndef
             THEN phase' = "aborted" /\ ok' = FALSE
             ELSE UNCHANGED <<phase, ok>>
  /\ ClearInstState
  /\ status' = "idle"
  /\ drvInst' = drvInst + 1
  /\ instLog' = instLog \cup {[addr       |-> CurInst.addr,
                               translated |-> status = "ok",
                               hookFailed |-> hookFailed]}
  /\ UNCHANGED <<mcf, bbByAddr, theBB, drsBB, theMCBB, callBBs, idx, doneBBs,
                 tailTodo, pcVal, opened, pcObserved, hookFailed>>

-----------------------------------------------------------------------------
(* translateOpcode, one action per group of semantic opcodes.  Every      *)
(* opcode is followed on the tape by its result type (NextVT), which is   *)
(* read first; the opcode's own inline operands follow.                   *)

Op == SemanticsArray[idx]
Arg(k) == SemanticsArray[idx + 1 + k]   \* k-th inline operand after the VT

(* Opcodes whose only effect is IR computed from popped operands: pops,   *)
(* pushes, and extra tape tokens read (the second VT of the _LOHI         *)
(* multiplies).  TRAP pops nothing and emits the trap call.               *)
ValueOps ==
  LET bin  == [pops |-> 2, pushes |-> 1, extra |-> 0]
      un   == [pops |-> 1, pushes |-> 1, extra |-> 0]
      lohi == [pops |-> 2, pushes |-> 2, extra |-> 1]
  IN [ADD |-> bin, FADD |-> bin, SUB |-> bin, FSUB |-> bin, MUL |-> bin,
      FMUL |-> bin, UDIV |-> bin, SDIV |-> bin, FDIV |-> bin, UREM |-> bin,
      SREM |-> bin, FREM |-> bin, SHL |-> bin, SRL |-> bin, SRA |-> bin,
      AND |-> bin, OR |-> bin, XOR |-> bin,
      TRUNCATE |-> un, BITCAST |-> un, ZERO_EXTEND |-> un, SIGN_EXTEND |-> un,
      FP_TO_UINT |-> un, FP_TO_SINT |-> un, UINT_TO_FP |-> un,
      SINT_TO_FP |-> un, FP_ROUND |-> un, FP_EXTEND |-> un,
      FSQRT |-> un, BSWAP |-> un, ROTL |-> bin,
      INSERT_VECTOR_ELT |-> [pops |-> 3, pushes |-> 1, extra |-> 0],
      EXTRACT_VECTOR_ELT |-> bin,
      SMUL_LOHI |-> lohi, UMUL_LOHI |-> lohi,
      LOAD |-> un, STORE |-> [pops |-> 2, pushes |-> 0, extra |-> 0],
      TRAP |-> [pops |-> 0, pushes |-> 0, extra |-> 0]]

(* translatePredicate: the predicates it knows reuse the load, store,     *)
(* extending-load and and codepaths; any other makes it return false.     *)
Predicates ==
  LET ld == [pops |-> 1, pushes |-> 1]
      st == [pops |-> 2, pushes |-> 0]
  IN [memop |-> ld, loadi16 |-> ld, loadi32 |-> ld, alignedload |-> ld,
      alignedload256 |-> ld, alignedload512 |-> ld, load |-> ld,
      alignednontemporalstore |-> st, nontemporalstore |-> st,
      alignedstore |-> st, alignedstore256 |-> st, alignedstore512 |-> st,
      store |-> st, zextloadi8 |-> ld, zextloadi16 |-> ld, sextloadi8 |-> ld,
      sextloadi16 |-> ld, sextloadi32 |-> ld,
      and_su |-> [pops |-> 2, pushes |-> 1]]

RegOps == {"PUT_RC", "PUT_REG", "GET_RC", "GET_REG", "CONSTANT_OP",
           "MOV_CONSTANT"}
HookOps == {"CUSTOM_OP", "COMPLEX_PATTERN", "IMPLICIT"}
KnownOps == {"END", "BR", "BRIND", "PREDICATE", "ATOMIC_FENCE"}
              \cup DOMAIN ValueOps \cup RegOps \cup HookOps \cup TargetOpcodes

Emit(is) == blocks' = AppendIR(blocks, theBB, is)

\* Frame of a tape step that changes only the listed variables.
TapeStep == /\ phase = "run" /\ status = "tape"
Others == <<mcf, phase, ok, doneBBs, drvInst, tailTodo, opened, curInst>>
\* ... and of one that changes only the stack and the cursor.
StackOnly == <<Others, blocks, bbByAddr, theBB, drsBB, theMCBB, callBBs, status,
               pcVal, pcObserved, hookFailed, instLog>>

(* The loop of tryTranslateInst reads END_OF_INSTRUCTION: success.        *)
EndOfInstruction ==
  /\ TapeStep /\ Op = "END"
  /\ idx' = idx + 1
  /\ status' = "ok"
  /\ UNCHANGED <<Others, blocks, bbByAddr, theBB, drsBB, theMCBB, callBBs, vals,
                 pcVal, pcObserved, hookFailed, instLog>>

(* Binary, cast, intrinsic, ROTL, vector, _LOHI, LOAD, STORE and TRAP.    *)
TranslateValueOp ==
  /\ TapeStep /\ Op \in DOMAIN ValueOps
  /\ LET sh == ValueOps[Op]
     IN /\ Len(vals) >= sh.pops
        /\ vals' = Pop(vals, sh.pops) \o [j \in 1..sh.pushes |-> Opaque]
        /\ idx' = idx + 2 + sh.extra
        /\ Emit(<<Ins(IF Op = "TRAP" THEN "trap" ELSE "op")>>)
  /\ UNCHANGED <<Others, bbByAddr, theBB, drsBB, theMCBB, callBBs, status, pcVal,
                 pcObserved, hookFailed, instLog>>

(* The fence operands translateOpcode accepts: NotAtomic (0) < ordering  *)
(* <= SequentiallyConsistent (7), scope SingleThread (0) or CrossThread   *)
(* (1); anything else reaches llvm_unreachable.                           *)
ValidFenceExclusiveSeqCst(ord, scope) == ord \in 1..6 /\ scope \in {0, 1}
ValidFence(ord, scope) == ord \in 1..7 /\ scope \in {0, 1}

(* ATOMIC_FENCE: both operands must be ConstantInts (cast<>), the first   *)
(* popped is the ordering, the second the scope, and they must be valid.  *)
TranslateAtomicFence ==
  /\ TapeStep /\ Op = "ATOMIC_FENCE"
  /\ Len(vals) >= 2
  /\ LET ord == vals[Len(vals)]
         scope == vals[Len(vals) - 1]
     IN /\ ord.cst /\ scope.cst
        /\ ValidFence(ord.v, scope.v)
  /\ vals' = Pop(vals, 2)
  /\ idx' = idx + 2
  /\ Emit(<<Ins("fence")>>)
  /\ UNCHANGED <<Others, bbByAddr, theBB, drsBB, theMCBB, callBBs, status, pcVal,
                 pcObserved, hookFailed, instLog>>

(* BR: the operand must be a ConstantInt (cast<>); it is written to the   *)
(* PC and the block branches to the block at that address.                *)
TranslateBR ==
  /\ TapeStep /\ Op = "BR"
  /\ vals # <<>> /\ Last(vals).cst
  /\ LET t == Last(vals).v
         g == GetOrCreate(blocks, bbByAddr, t)
     IN /\ blocks' = AppendIR(g.blocks, theBB, <<Br(g.id)>>)
        /\ bbByAddr' = g.map
        /\ pcVal' = t
  /\ vals' = Front(vals)
  /\ idx' = idx + 2
  /\ UNCHANGED <<Others, theBB, drsBB, theMCBB, callBBs, status, pcObserved,
                 hookFailed, instLog>>

(* BRIND: write the target to the PC, call it (insertCall), then branch   *)
(* from the call's successor block to ExitBB.                             *)
TranslateBRIND ==
  /\ TapeStep /\ Op = "BRIND"
  /\ vals # <<>>
  /\ LET c == InsertCall(blocks, theBB, callBBs, Last(vals))
     IN /\ blocks' = AppendIR(c.blocks, c.theBB, <<Br(ExitBB)>>)
        /\ theBB' = c.theBB
        /\ drsBB' = c.drs
        /\ callBBs' = c.callBBs
  /\ pcVal' = Unknown
  /\ vals' = Front(vals)
  /\ idx' = idx + 2
  /\ UNCHANGED <<Others, bbByAddr, theMCBB, status, pcObserved, hookFailed,
                 instLog>>

(* PUT_RC: pop the value and write it, width-coerced, to the register of  *)
(* the MC operand.  The coercions and the write go through DRS.           *)
TranslatePutRC ==
  /\ TapeStep /\ Op = "PUT_RC"
  /\ vals # <<>>
  /\ vals' = Front(vals)
  /\ idx' = idx + 3
  /\ UNCHANGED StackOnly

(* PUT_REG: pop the value and write it to the register named on the tape. *)
TranslatePutReg ==
  /\ TapeStep /\ Op = "PUT_REG"
  /\ vals # <<>>
  /\ pcVal' = IF Arg(1) = PCReg THEN Last(vals).v ELSE pcVal
  /\ vals' = Front(vals)
  /\ idx' = idx + 3
  /\ UNCHANGED <<Others, blocks, bbByAddr, theBB, drsBB, theMCBB, callBBs, status,
                 pcObserved, hookFailed, instLog>>

(* GET_RC: push the register of the MC operand, truncated or bitcast to   *)
(* the result type.                                                       *)
TranslateGetRC ==
  /\ TapeStep /\ Op = "GET_RC"
  /\ vals' = Append(vals, Opaque)
  /\ idx' = idx + 3
  /\ UNCHANGED StackOnly

(* GET_REG: push the register named on the tape.  A read of the PC        *)
(* observes its run-time value, recorded with the value the semantics of  *)
(* the instruction expect: the address of the next instruction.           *)
TranslateGetReg ==
  /\ TapeStep /\ Op = "GET_REG"
  /\ IF Arg(1) = PCReg
       THEN /\ vals' = Append(vals, [cst |-> FALSE, v |-> pcVal])
            /\ pcObserved' = pcObserved \cup
                   {[expect |-> CurInst.addr + CurInst.size, seen |-> pcVal]}
       ELSE /\ vals' = Append(vals, Opaque)
            /\ UNCHANGED pcObserved
  /\ idx' = idx + 3
  /\ UNCHANGED <<Others, blocks, bbByAddr, theBB, drsBB, theMCBB, callBBs, status,
                 pcVal, hookFailed, instLog>>

(* CONSTANT_OP: push the MC operand's immediate as a ConstantInt.         *)
TranslateConstantOp ==
  /\ TapeStep /\ Op = "CONSTANT_OP"
  /\ vals' = Append(vals, Const(CurInst.imm))
  /\ idx' = idx + 3
  /\ UNCHANGED StackOnly

(* MOV_CONSTANT: push ConstantArray[ValIdx] as a ConstantInt (an iPTR     *)
(* result type is taken as i64).                                          *)
TranslateMovConstant ==
  /\ TapeStep /\ Op = "MOV_CONSTANT"
  /\ vals' = Append(vals, Const(ConstantArray[Arg(1)]))
  /\ idx' = idx + 3
  /\ UNCHANGED StackOnly

(* CUSTOM_OP (operand type, MI operand) and COMPLEX_PATTERN (pattern):    *)
(* the target hook returns a value, pushed, or nullptr, and the opcode    *)
(* fails.  The target's answer is a free choice.                          *)
TranslateCustomOrComplex ==
  /\ TapeStep /\ Op \in {"CUSTOM_OP", "COMPLEX_PATTERN"}
  /\ idx' = idx + IF Op = "CUSTOM_OP" THEN 4 ELSE 3
  /\ \/ /\ vals' = Append(vals, Opaque)
        /\ UNCHANGED <<status, hookFailed>>
     \/ /\ status' = "fail"
        /\ hookFailed' = TRUE
        /\ UNCHANGED vals
  /\ UNCHANGED <<Others, blocks, bbByAddr, theBB, drsBB, theMCBB, callBBs, pcVal,
                 pcObserved, instLog>>

(* IMPLICIT: translateImplicit(Next()) is called and its result ignored.  *)
TranslateImplicit ==
  /\ TapeStep /\ Op = "IMPLICIT"
  /\ \E hookOk \in BOOLEAN : hookFailed' = (hookFailed \/ ~hookOk)
  /\ idx' = idx + 3
  /\ UNCHANGED <<Others, blocks, bbByAddr, theBB, drsBB, theMCBB, callBBs, vals,
                 status, pcVal, pcObserved, instLog>>

(* PREDICATE: a known predicate reuses the load/store/binop codepaths; an *)
(* unknown one makes translateOpcode return false.                        *)
TranslatePredicate ==
  /\ TapeStep /\ Op = "PREDICATE"
  /\ IF Arg(1) \in DOMAIN Predicates
       THEN LET sh == Predicates[Arg(1)]
            IN /\ Len(vals) >= sh.pops
               /\ vals' = Pop(vals, sh.pops) \o [j \in 1..sh.pushes |-> Opaque]
               /\ Emit(<<Ins("op")>>)
               /\ UNCHANGED status
       ELSE /\ status' = "fail"
            /\ UNCHANGED <<vals, blocks>>
  /\ idx' = idx + 3
  /\ UNCHANGED <<Others, bbByAddr, theBB, drsBB, theMCBB, callBBs, pcVal, pcObserved,
                 hookFailed, instLog>>

(* A target-range opcode goes to translateTargetOpcode.  Its failure      *)
(* fails the instruction; a call opcode pops the callee and insertCalls.  *)
TranslateTargetOpcode ==
  /\ TapeStep /\ Op \in TargetOpcodes
  /\ idx' = idx + 2
  /\ \E hookOk \in BOOLEAN :
       \/ /\ ~hookOk
          /\ status' = "fail"
          /\ hookFailed' = TRUE
          /\ UNCHANGED <<blocks, theBB, drsBB, callBBs, vals, pcVal>>
       \/ /\ hookOk /\ Op \notin TargetCallOpcodes
          /\ Emit(<<Ins("op")>>)
          /\ UNCHANGED <<theBB, drsBB, callBBs, vals, status, hookFailed, pcVal>>
       \/ /\ hookOk /\ Op \in TargetCallOpcodes /\ vals # <<>>
          /\ LET c == InsertCall(blocks, theBB, callBBs, Last(vals))
             IN /\ blocks' = c.blocks
                /\ theBB' = c.theBB
                /\ drsBB' = c.drs
                /\ callBBs' = c.callBBs
          /\ vals' = Front(vals)
          /\ pcVal' = Unknown
          /\ UNCHANGED <<status, hookFailed>>
  /\ UNCHANGED <<Others, bbByAddr, theMCBB, pcObserved, instLog>>

(* The default of translateOpcode: an opcode it does not know.            *)
UnknownOpcode ==
  /\ TapeStep /\ Op \notin KnownOps
  /\ status' = "fail"
  /\ idx' = idx + 2
  /\ UNCHANGED <<Others, blocks, bbByAddr, theBB, drsBB, theMCBB, callBBs, vals,
                 pcVal, pcObserved, hookFailed, instLog>>

-----------------------------------------------------------------------------
(* Finishing blocks, tail calls and the destructor.                       *)

\* getBasicBlockEndAddress: where a block without terminator falls through.
FallthroughAddrStart == CurMCBB.start
FallthroughAddr == CurMCBB.end

\* !TheBB->getTerminator(): the block does not end in a terminator.
NeedsFallthroughAlways(body) == TRUE
NeedsFallthrough(body) == body = <<>> \/ ~IsTerminator(Last(body))

(* FinalizeBasicBlock, called by the driver after the MC block's last     *)
(* instruction: a block without terminator branches to the block at the   *)
(* MC block's end address; DRS finalizes the block; TheBB and TheMCBB    *)
(* are reset.                                                              *)
FinalizeBasicBlock ==
  /\ phase = "run"
  /\ theMCBB # 0
  /\ status = "idle"
  /\ drvInst = Len(CurMCBB.insts)
  /\ IF NeedsFallthrough(blocks[theBB].body)
       THEN LET g == GetOrCreate(blocks, bbByAddr, FallthroughAddr)
            IN /\ blocks' = AppendIR(g.blocks, theBB, <<Br(g.id)>>)
               /\ bbByAddr' = g.map
       ELSE UNCHANGED <<blocks, bbByAddr>>
  /\ theBB' = 0
  /\ drsBB' = 0
  /\ theMCBB' = 0
  /\ doneBBs' = doneBBs + 1
  /\ UNCHANGED <<mcf, callBBs, curInst, idx, vals, status, phase, ok, drvInst,
                 tailTodo, pcVal, opened, pcObserved, hookFailed, instLog>>

(* createExternalTailCallBB(Addr), called by the driver for each branch   *)
(* target outside the function once its blocks are done: open the block   *)
(* at Addr, call the function at Addr through a call block, and return    *)
(* directly from the successor, bypassing ExitBB.                         *)
CreateExternalTailCallBB ==
  /\ phase = "run"
  /\ doneBBs = Len(MCBBs)
  /\ \E a \in tailTodo :
       LET o == OpenAt(blocks, bbByAddr, a)
           c == InsertCallBB(o.blocks, o.id, callBBs)
       IN /\ o.placeholder
          /\ blocks' = AppendIR(c.blocks, c.theBB, <<Ins("ret")>>)
          /\ bbByAddr' = o.map
          /\ theBB' = c.theBB
          /\ drsBB' = c.drs
          /\ callBBs' = c.callBBs
          /\ opened' = opened \cup {a}
          /\ tailTodo' = tailTodo \ {a}
  /\ pcVal' = Unknown
  /\ UNCHANGED <<mcf, theMCBB, curInst, idx, vals, status, phase, ok, doneBBs,
                 drvInst, pcObserved, hookFailed, instLog>>

(* The translator is dropped once the driver is done with the function,   *)
(* or has given up on it: the destructor runs on both paths.              *)
CanDestructOnSuccessOnly ==
  phase = "run" /\ doneBBs = Len(MCBBs) /\ tailTodo = {}
CanDestruct ==
  \/ phase = "run" /\ doneBBs = Len(MCBBs) /\ tailTodo = {}
  \/ phase = "aborted"

(* ~DCFunction: every recorded call block must still be exactly {call,   *)
(* br}; DRS saves all local registers before the call and restores them   *)
(* after it.  Then DRS.FinalizeFunction(ExitBB).                          *)
Destruct ==
  /\ CanDestruct
  /\ \A c \in Range(callBBs) : Len(blocks[c].body) = 2
  /\ blocks' = [b \in DOMAIN blocks |->
                  IF b \in Range(callBBs)
                    THEN [blocks[b] EXCEPT !.body =
                            <<Ins("save"), @[1], Ins("restore"), @[2]>>]
                    ELSE blocks[b]]
  /\ phase' = "done"
  /\ UNCHANGED <<mcf, bbByAddr, theBB, drsBB, theMCBB, callBBs, curInst, idx, vals,
                 status, ok, doneBBs, drvInst, tailTodo, pcVal, opened,
                 pcObserved, hookFailed, instLog>>

TranslateOpcode ==
  \/ EndOfInstruction
  \/ TranslateValueOp
  \/ TranslateAtomicFence
  \/ TranslateBR
  \/ TranslateBRIND
  \/ TranslatePutRC
  \/ TranslatePutReg
  \/ TranslateGetRC
  \/ TranslateGetReg
  \/ TranslateConstantOp
  \/ TranslateMovConstant
  \/ TranslateCustomOrComplex
  \/ TranslateImplicit
  \/ TranslatePredicate
  \/ TranslateTargetOpcode
  \/ UnknownOpcode

Next ==
  \/ Construct
  \/ SwitchToBasicBlock
  \/ TranslateInst
  \/ TranslateOpcode
  \/ FinishInst
  \/ FinalizeBasicBlock
  \/ CreateExternalTailCallBB
  \/ Destruct

(* The translator is one sequential thread that never waits: weak         *)
(* fairness on its steps.                                                 *)
Spec == Init /\ [][Next]_vars /\ WF_vars(Next)

-----------------------------------------------------------------------------
(* Properties.                                                            *)

BlockKinds == {"entry", "exit", "diff_exit", "bb", "call", "succ"}
IRKinds == {"br", "ret", "unreachable", "trap", "op", "call", "translate_at",
            "fence", "diffcall", "save", "restore"}

TypeOK ==
  /\ blocks \in Seq([kind : BlockKinds, addr : BlockAddrs \cup {NoAddr},
                     body : Seq([k : IRKinds, to : Nat])])
  /\ DOMAIN bbByAddr \subseteq BlockAddrs
  /\ \A a \in DOMAIN bbByAddr : bbByAddr[a] \in 1..Len(blocks)
  /\ theBB \in 0..Len(blocks) /\ drsBB \in 0..Len(blocks)
  /\ callBBs \in Seq(1..Len(blocks))
  /\ vals \in Seq(Value) /\ Len(vals) <= MaxStack
  /\ status \in {"idle", "tape", "ok", "fail"}
  /\ phase \in {"new", "run", "aborted", "done"}
  /\ pcVal \in Nat \cup {Unknown}

Body(b) == blocks[b].body

(* Every block of a function the driver translated without giving up is   *)
(* well-formed IR: it ends in a terminator and has none before that.      *)
(* About FinalizeBasicBlock's terminator test, the branches BR, BRIND and  *)
(* insertCallBB emit, and the trap+unreachable of unknown instructions.   *)
WellFormedBlocks ==
  (phase = "done" /\ ok) =>
    \A b \in DOMAIN blocks :
      /\ Body(b) # <<>>
      /\ IsTerminator(Last(Body(b)))
      /\ \A j \in 1..(Len(Body(b)) - 1) : ~IsTerminator(Body(b)[j])

\* Blocks a block branches to.
Targets(b) == {Body(b)[j].to : j \in {j \in DOMAIN Body(b) : Body(b)[j].k = "br"}}

\* The blocks control leaves the blocks S for, passing through the call
\* and call-successor blocks insertCallBB splits a block into.
RECURSIVE Leaving(_, _)
Leaving(S, seen) ==
  LET nxt == UNION {Targets(b) : b \in S} \ seen
      via == {b \in nxt : blocks[b].kind \in {"call", "succ"}}
  IN (nxt \ via) \cup (IF via = {} THEN {} ELSE Leaving(via, seen \cup nxt))

Label(b) == IF blocks[b].kind = "bb" THEN blocks[b].addr ELSE ExitLabel

IRSuccessors(a) == {Label(b) : b \in Leaving({bbByAddr[a]}, {})}

(* The IR reproduces the MC control flow: from the block of each MC block  *)
(* control goes exactly to the blocks at the MC block's successors (the   *)
(* fall-through end address, the direct branch target, or ExitBB after an *)
(* indirect branch), whatever calls were split into it.  About            *)
(* FinalizeBasicBlock, BR, BRIND, insertCallBB and getOrCreateBasicBlock.  *)
BlocksFaithful ==
  (phase = "done" /\ ok) =>
    \A k \in 1..Len(MCBBs) : IRSuccessors(MCBBs[k].start) = MCBBs[k].succs

(* Whenever the semantics read the PC, it holds the address of the next   *)
(* instruction, as the ISA defines (PC-first): SwitchToBasicBlock sets it *)
(* to the block start and tryTranslateInst adds the size before the       *)
(* opcodes run.  A PC made unknown by a call or a target hook is exempt.  *)
PCReadIsNextAddress ==
  \A o \in pcObserved : o.seen \in {o.expect, Unknown}

(* After the destructor, every call to a translated function sits alone   *)
(* in a call block between DRS's save of the local registers and their    *)
(* restore: insertCallBB records every call block it makes and the        *)
(* destructor processes each once, on the failure path too.               *)
CallsBracketed ==
  phase = "done" =>
    \A b \in DOMAIN blocks :
      (\E j \in DOMAIN Body(b) : Body(b)[j].k = "call") =>
        /\ blocks[b].kind = "call"
        /\ [j \in DOMAIN Body(b) |-> Body(b)[j].k]
             = <<"save", "call", "restore", "br">>

EmptyBlocksTrap ==
  (phase = "done" /\ ok) =>
    \A k \in 1..Len(MCBBs) :
      MCBBs[k].insts = <<>> =>
        \E j \in DOMAIN Body(bbByAddr[MCBBs[k].start]) :
          Body(bbByAddr[MCBBs[k].start])[j].k = "trap"

(* Translation always runs to the destructor: no assertion stops it and   *)
(* the driver cannot get stuck, whether the function translates or not.   *)
Termination == <>(phase = "done")

(* A target hook that reports failure fails the instruction (spec 4.2:    *)
(* "Failure => overall failure"); about translateOpcode's IMPLICIT case.   *)
HookFailureSurfaces ==
  \A r \in instLog : r.hookFailed => ~r.translated

(* With -enable-dc-regset-diff every return of the function passes        *)
(* through the regset diff call (spec 8, "Diff mode"); about              *)
(* createExternalTailCallBB's ret void.                                   *)
DiffOnEveryReturn ==
  EnableRegSetDiff =>
    \A b \in DOMAIN blocks :
      (\E j \in DOMAIN Body(b) : Body(b)[j].k = "ret") =>
        \E j \in DOMAIN Body(b) : Body(b)[j].k = "diffcall"

(* The block map refines BlockMap: an address keeps the block it was      *)
(* given, blocks are not shared, a placeholder changes only by being      *)
(* opened, and a block is opened once.  About getOrCreateBasicBlock,      *)
(* prepareBasicBlockForInsertion and every emission into TheBB.           *)
BMStatus ==
  [a \in BlockAddrs |->
     IF a \notin DOMAIN bbByAddr THEN "none"
     ELSE IF a \in opened THEN "filled"
     ELSE IF Body(bbByAddr[a]) = Placeholder THEN "placeholder"
     ELSE "corrupt"]

BM == INSTANCE BlockMap
        WITH Addr <- BlockAddrs, NoBlock <- 0, status <- BMStatus,
             blockOf <- [a \in BlockAddrs |->
                           IF a \in DOMAIN bbByAddr THEN bbByAddr[a] ELSE 0]

BlockMapRefinement == BM!Spec

=============================================================================
