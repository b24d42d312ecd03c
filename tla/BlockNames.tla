---------------------------- MODULE BlockNames -------------------------------
(***************************************************************************)
(* The names DCFunction gives the IR basic blocks it creates              *)
(* (lib/DC/DCFunction.cpp): the constructor's entry_fn_/exit_fn_/         *)
(* diff_exit_fn_ blocks, getOrCreateBasicBlock's "bb_<hex addr>" blocks,  *)
(* and insertCallBB's call block "<TheBB>_call" and successor, named      *)
(* after the part of TheBB's name before find_first_of("_c"), then "_c"   *)
(* and the hex address of the current instruction ("" outside one, in     *)
(* createExternalTailCallBB).                                             *)
(*                                                                         *)
(* A name is a sequence of characters.  The translator's other effects    *)
(* are left to DCFunction; only which block is current, which addresses  *)
(* have blocks and the names blocks are created with are kept.  Names are *)
(* the ones BasicBlock::Create is given, before LLVM makes them unique.   *)
(***************************************************************************)
EXTENDS Naturals, Sequences, SequencesExt

CONSTANTS
  StartAddr,    \* MCF.getStartAddr()
  MCInsts,      \* [start address of an MC block -> its instruction addresses]
  TargetAddrs,  \* addresses the block's branches and fallthrough go to
  TailAddrs,    \* targets createExternalTailCallBB is called for
  MaxBlocks,    \* bound on the number of blocks of the function
  EnableRegSetDiff,
  None

VARIABLES
  bbByAddr,  \* the addresses BBByAddr has a block for
  theBB,     \* the name of TheBB
  theMCBB,   \* the start address of TheMCBB, or None
  called,    \* instruction addresses translated in the current MC block
  opened,    \* addresses SwitchToBasicBlock has opened
  blocks     \* the blocks created: kind, name, block address, instruction

vars == <<bbByAddr, theBB, theMCBB, called, opened, blocks>>

\* llvm::utohexstr(X, LowerCase): the hex digits of X, most significant
\* first, "0" for 0.
HexDigits(lower) ==
  <<"0", "1", "2", "3", "4", "5", "6", "7", "8", "9">> \o
  (IF lower THEN <<"a", "b", "c", "d", "e", "f">>
            ELSE <<"A", "B", "C", "D", "E", "F">>)
RECURSIVE Utohexstr(_, _)
Utohexstr(n, lower) ==
  IF n < 16 THEN <<HexDigits(lower)[n + 1]>>
            ELSE Utohexstr(n \div 16, lower) \o <<HexDigits(lower)[(n % 16) + 1]>>

\* getOrCreateBasicBlock's name, "bb_" + utohexstr(Addr).
BBNameLowerCase(a) == <<"b", "b", "_">> \o Utohexstr(a, TRUE)
BBName(a) == <<"b", "b", "_">> \o Utohexstr(a, FALSE)

\* BBName.substr(0, BBName.find_first_of("_c")): the name up to the first
\* character that is '_' or 'c'; the whole name when there is none (npos).
CallParentName(name) ==
  LET i == SelectInSeq(name, LAMBDA ch : ch \in {"_", "c"})
  IN  IF i = 0 THEN name ELSE SubSeq(name, 1, i - 1)

Blk(kind, name, addr, inst) ==
  [kind |-> kind, name |-> name, addr |-> addr, inst |-> inst]

\* getOrCreateBasicBlock(Addr): a new placeholder block unless there is one.
GetOrCreate(a) ==
  IF a \in bbByAddr THEN <<>> ELSE <<Blk("bb", BBName(a), a, None)>>

\* insertCallBB with TheBB named bb in the block at addr: the call block
\* and the successor, which becomes TheBB.
CallBlocks(bb, addr, inst) ==
  LET succ == CallParentName(bb) \o <<"_", "c">> \o
              (IF inst = None THEN <<>> ELSE Utohexstr(inst, FALSE))
  IN  <<Blk("call", bb \o <<"_", "c", "a", "l", "l">>, addr, inst),
        Blk("succ", succ, addr, inst)>>

Room(n) == Len(blocks) + n <= MaxBlocks

-----------------------------------------------------------------------------
(* DCFunction::DCFunction: entry_fn_, exit_fn_, diff_exit_fn_ with regset *)
(* diffing, then the entry's branch creates the block at StartAddr.       *)
Init ==
  LET hex == Utohexstr(StartAddr, FALSE)
      fn  == <<Blk("entry", <<"e", "n", "t", "r", "y", "_", "f", "n", "_">> \o hex,
                   StartAddr, None),
               Blk("exit", <<"e", "x", "i", "t", "_", "f", "n", "_">> \o hex,
                   StartAddr, None)>> \o
             (IF EnableRegSetDiff
                THEN <<Blk("diff", <<"d", "i", "f", "f", "_">> \o
                         <<"e", "x", "i", "t", "_", "f", "n", "_">> \o hex,
                         StartAddr, None)>>
                ELSE <<>>)
  IN /\ blocks = fn \o <<Blk("bb", BBName(StartAddr), StartAddr, None)>>
     /\ bbByAddr = {StartAddr}
     /\ theBB = fn[1].name
     /\ theMCBB = None
     /\ called = {}
     /\ opened = {}

(* SwitchToBasicBlock(MCBB): TheBB is the block at the MC block's start,  *)
(* which must not have been opened before (prepareBasicBlockForInsertion). *)
SwitchToBasicBlock(a) ==
  /\ theMCBB = None /\ a \notin opened /\ Room(1)
  /\ blocks' = blocks \o GetOrCreate(a)
  /\ bbByAddr' = bbByAddr \cup {a}
  /\ theBB' = BBName(a)
  /\ theMCBB' = a
  /\ opened' = opened \cup {a}
  /\ called' = {}

(* A call instruction of the MC block, translated in address order:       *)
(* insertCall then insertCallBB, with CurrentInst the instruction.        *)
TranslateCall(i) ==
  /\ theMCBB # None /\ i \in MCInsts[theMCBB] /\ Room(2)
  /\ \A j \in called : j < i
  /\ blocks' = blocks \o CallBlocks(theBB, theMCBB, i)
  /\ theBB' = blocks'[Len(blocks')].name
  /\ called' = called \cup {i}
  /\ UNCHANGED <<bbByAddr, theMCBB, opened>>

(* A branch of the block to a (BR, or a conditional branch's targets).    *)
Branch(a) ==
  /\ theMCBB # None /\ Room(1)
  /\ blocks' = blocks \o GetOrCreate(a)
  /\ bbByAddr' = bbByAddr \cup {a}
  /\ UNCHANGED <<theBB, theMCBB, called, opened>>

(* FinalizeBasicBlock: a block without terminator falls through to the  *)
(* block at the MC block's end, a (None when it has a terminator).       *)
FinalizeBasicBlock(a) ==
  /\ theMCBB # None /\ Room(1)
  /\ blocks' = IF a = None THEN blocks ELSE blocks \o GetOrCreate(a)
  /\ bbByAddr' = IF a = None THEN bbByAddr ELSE bbByAddr \cup {a}
  /\ theMCBB' = None
  /\ UNCHANGED <<theBB, called, opened>>

(* createExternalTailCallBB(Addr): SwitchToBasicBlock(Addr) then          *)
(* insertCallBB outside any instruction (CurrentInst is null).            *)
CreateExternalTailCallBB(a) ==
  /\ theMCBB = None /\ a \notin opened /\ Room(3)
  /\ LET cb == CallBlocks(BBName(a), a, None)
     IN /\ blocks' = blocks \o GetOrCreate(a) \o cb
        /\ theBB' = cb[2].name
  /\ bbByAddr' = bbByAddr \cup {a}
  /\ opened' = opened \cup {a}
  /\ UNCHANGED <<theMCBB, called>>

Next ==
  \/ \E a \in DOMAIN MCInsts : SwitchToBasicBlock(a)
  \/ \E a \in UNION {MCInsts[b] : b \in DOMAIN MCInsts} : TranslateCall(a)
  \/ \E a \in TargetAddrs : Branch(a)
  \/ \E a \in TargetAddrs \cup {None} : FinalizeBasicBlock(a)
  \/ \E a \in TailAddrs : CreateExternalTailCallBB(a)

Spec == Init /\ [][Next]_vars

-----------------------------------------------------------------------------
(* Properties.                                                            *)

(* A block getOrCreateBasicBlock makes for an address is created with a   *)
(* name no other block of the function is created with, whatever the     *)
(* order of blocks, calls and tail calls: LLVM keeps "bb_<hex addr>" and  *)
(* the name tells the address.  About the "bb_" names, the successor      *)
(* names insertCallBB cuts from them and the hex digits of utohexstr.     *)
BBNamesUnique ==
  \A k, j \in DOMAIN blocks :
    (k # j /\ blocks[k].kind = "bb") => blocks[k].name # blocks[j].name

(* The successor block insertCallBB makes is named <parent>_c<inst addr>, *)
(* the parent being the name of the block the call was split from,       *)
(* bb_<hex of its address> (spec, section 4.3 and 4.4).                   *)
SuccessorNamedAfterParent ==
  \A k \in DOMAIN blocks :
    blocks[k].kind = "succ" =>
      blocks[k].name = BBName(blocks[k].addr) \o <<"_", "c">> \o
                       (IF blocks[k].inst = None THEN <<>>
                        ELSE Utohexstr(blocks[k].inst, FALSE))

=============================================================================
