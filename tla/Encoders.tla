------------------------------ MODULE Encoders ------------------------------
(***************************************************************************)
(* The instruction encoders of lib/armv8: constructors that assemble a     *)
(* word by writing fields into it, base class before derived.              *)
(*                                                                         *)
(* A word is the set of its bits that are one, so that all 32 fit TLC's    *)
(* integers.  A constructor is the sequence of the fields it writes: a     *)
(* field a later one overlaps is overwritten, as in BitSet::SetBits, and   *)
(* what does not fit into a field is cut off without a word.               *)
(*                                                                         *)
(* At the end, the same instructions as the architecture lays them out.    *)
(* CalcImmWhole is a faulty variant for TLC.                               *)
(***************************************************************************)
EXTENDS Integers, Sequences, SequencesExt

(* The bits of an integer in two's complement.                             *)
Bits(v) == {i \in 0..30 : (v \div 2^i) % 2 = 1} \cup (IF v < 0 THEN {31} ELSE {})

Field(low, high, v) == [low |-> low, high |-> high, val |-> v]
Flag(bit, v)        == Field(bit, bit + 1, v)

SetBits(word, f) ==
  (word \ (f.low .. f.high-1)) \cup {i + f.low : i \in {j \in Bits(f.val) : j + f.low < f.high}}

Assemble(fields) == FoldLeft(SetBits, {}, fields)

(* reg::Register; None is index -1, of which a field keeps all ones.       *)
X(i)      == [is64 |-> 1, index |-> i]
W(i)      == [is64 |-> 0, index |-> i]
None(reg) == [reg EXCEPT !.index = -1]
SP        == X(31)

Instruction(op0) == << Field(25, 29, op0) >>

-----------------------------------------------------------------------------
(* Data processing with an immediate.                                      *)

Op100xInstruction(op0) == Instruction(8) \o << Field(23, 26, op0) >>

PcRelAddressing(reg, imm, op) ==
  Op100xInstruction(0) \o
    << Flag(31, op), Field(29, 31, imm), Field(5, 24, imm \div 4), Field(0, 5, reg.index) >>
Adr(reg, imm)  == PcRelAddressing(reg, imm, 0)
(* The distance is unsigned here: its pages are 20 bits, of 21 there are.  *)
Adrp(reg, imm) == PcRelAddressing(reg, (imm \div 4096) % 2^20, 1)

AddSubtractImmediate(sf, op, s) ==
  Op100xInstruction(2) \o << Flag(31, sf), Flag(30, op), Flag(29, s) >>
CalcSh(imm)  == IF imm # 0 /\ imm % 4096 = 0 THEN 1 ELSE 0
CalcImmWhole(imm) == imm
CalcImm(imm) == IF CalcSh(imm) = 1 THEN imm \div 4096 ELSE imm
Operands(rd, rn, imm) ==
  << Field(0, 5, rd.index), Field(5, 10, rn.index), Field(10, 22, CalcImm(imm)), Flag(22, CalcSh(imm)) >>

AddImmediate(rd, rn, imm)  == AddSubtractImmediate(rd.is64, 0, 0) \o Operands(rd, rn, imm)
AddsImmediate(rd, rn, imm) == AddSubtractImmediate(rd.is64, 0, 1) \o Operands(rd, rn, imm)
SubImmediate(rd, rn, imm)  == AddSubtractImmediate(rd.is64, 1, 0) \o Operands(rd, rn, imm)
SubsImmediate(rd, rn, imm) == AddSubtractImmediate(rd.is64, 1, 1) \o Operands(rd, rn, imm)
CmnImmediate(reg, imm)     == AddsImmediate(None(reg), reg, imm)
CmpImmediate(reg, imm)     == SubsImmediate(None(reg), reg, imm)

MoveWideImmediate(reg, opc, hw, imm) ==
  Op100xInstruction(5) \o
    << Flag(31, reg.is64), Field(29, 31, opc), Field(21, 23, hw), Field(5, 21, imm),
       Field(0, 5, reg.index) >>
Movk(reg, imm) == MoveWideImmediate(reg, 3, 0, imm)
Movn(reg, imm) == MoveWideImmediate(reg, 0, 0, imm)
Movz(reg, imm) == MoveWideImmediate(reg, 2, 0, imm)

-----------------------------------------------------------------------------
(* Branches.                                                               *)

Op101xInstruction(op0) == Instruction(10) \o << Field(29, 32, op0) >>

Nop == Op101xInstruction(6) \o << Field(12, 26, 4146), Field(0, 5, 31), Field(8, 12, 0), Field(5, 8, 0) >>

(* relative_address is unsigned: a quarter of it has two bits less, which  *)
(* the field does not reach.                                               *)
UnconditionalBranchImmediate(op, relative) ==
  Op101xInstruction(0) \o << Flag(31, op), Field(0, 26, relative \div 4) >>
Branch(relative)     == UnconditionalBranchImmediate(0, relative)
BranchLink(relative) == UnconditionalBranchImmediate(1, relative)

UnconditionalBranchRegister(opc, op2) ==
  Op101xInstruction(6) \o << Field(12, 26, 8192), Field(21, 25, opc), Field(16, 21, op2) >>
BranchRegister(rn) ==
  UnconditionalBranchRegister(0, 31) \o << Field(10, 16, 0), Field(5, 10, rn.index), Field(0, 5, 0) >>
RetTo(rn) ==
  UnconditionalBranchRegister(2, 31) \o << Field(10, 16, 0), Field(5, 10, rn.index), Field(0, 5, 0) >>

-----------------------------------------------------------------------------
(* Loads and stores.                                                       *)

Opx1x0Instruction(op0) == Instruction(4) \o << Field(28, 32, op0) >>
GetSize(rt) == 2 + rt.is64

ExtendTypes  == {"UXTB", "UXTH", "UXTW", "LSL", "SXTB", "SXTH", "SXTW", "SXTX"}
CreateOption(extend) ==
  CASE extend = "UXTW" -> 2 [] extend = "LSL" -> 3
    [] extend = "SXTW" -> 6 [] extend = "SXTX" -> 7 [] OTHER -> 0
CreateS(rt, amount) == IF amount = GetSize(rt) THEN 1 ELSE 0

LoadStoreRegisterOffset(size, opc) ==
  Opx1x0Instruction(3) \o
    << Field(30, 32, size), Field(22, 24, opc), Flag(26, 0), Field(23, 25, 0), Field(16, 22, 32),
       Field(10, 12, 2), Flag(26, 0) >>
RegisterOffset(opc, rt, rn, rm, extend, amount) ==
  LoadStoreRegisterOffset(GetSize(rt), opc) \o
    << Field(30, 32, GetSize(rt)), Field(16, 21, rm.index), Field(13, 16, CreateOption(extend)),
       Flag(12, CreateS(rt, amount)), Field(0, 5, rt.index), Field(5, 10, rn.index) >>
LdrRegisterOffset(rt, rn, rm, extend, amount) == RegisterOffset(1, rt, rn, rm, extend, amount)
StrRegisterOffset(rt, rn, rm, extend, amount) == RegisterOffset(0, rt, rn, rm, extend, amount)

(* SignExtend<9> leaves the nine bits the field takes.                     *)
LoadStoreRegisterUnscaledImmediate(size, opc, imm9, rn, rt) ==
  Opx1x0Instruction(3) \o
    << Field(23, 25, 0), Field(16, 22, 0), Field(10, 12, 0), Field(30, 32, size), Flag(26, 0),
       Field(22, 24, opc), Field(12, 21, imm9 % 512), Field(5, 10, rn.index), Field(0, 5, rt.index) >>
LdurUnscaledImmediate(rt, rn, imm) == LoadStoreRegisterUnscaledImmediate(GetSize(rt), 1, imm, rn, rt)
SturUnscaledImmediate(rt, rn, imm) == LoadStoreRegisterUnscaledImmediate(GetSize(rt), 0, imm, rn, rt)

(* The immediate counts registers, not bytes.                              *)
LoadStoreRegisterUnsignedImmediate(size, opc, imm12, rn, rt) ==
  Opx1x0Instruction(3) \o
    << Field(23, 25, 2), Field(30, 32, size), Flag(26, 0), Field(22, 24, opc),
       Field(10, 22, imm12), Field(5, 10, rn.index), Field(0, 5, rt.index) >>
LdrRegisterImmediate(rt, rn, imm) == LoadStoreRegisterUnsignedImmediate(GetSize(rt), 1, imm, rn, rt)
StrRegisterImmediate(rt, rn, imm) == LoadStoreRegisterUnsignedImmediate(GetSize(rt), 0, imm, rn, rt)

-----------------------------------------------------------------------------
(* Data processing between registers.                                      *)

Opx101Instruction(op0, op1, op2, op3) ==
  Instruction(5) \o << Flag(30, op0), Flag(28, op1), Field(20, 24, op2), Field(10, 15, op3) >>
LogicalShiftedRegister(sf, opc) ==
  Opx101Instruction(0, 0, 0, 0) \o << Flag(31, sf), Field(29, 31, opc) >>

ShiftType(shift) == CASE shift = "LSL" -> 0 [] shift = "LSR" -> 1 [] shift = "ASR" -> 2 [] shift = "ROR" -> 3
OrrShiftedRegister(rd, rn, rm, shift, amount) ==
  LogicalShiftedRegister(rd.is64, 1) \o
    << Field(22, 24, ShiftType(shift)), Flag(21, 0), Field(16, 21, rm.index), Field(10, 16, amount),
       Field(5, 10, rn.index), Field(0, 5, rd.index) >>
MovRegister(rd, rm) == OrrShiftedRegister(rd, None(rd), rm, "LSL", 0)

-----------------------------------------------------------------------------
(* An instruction asked for, <<name, operand, ...>>, and the constructor   *)
(* it is asked of.                                                         *)

Encoding(i) == Assemble(
  CASE i[1] = "adr"   -> Adr(i[2], i[3])
    [] i[1] = "adrp"  -> Adrp(i[2], i[3])
    [] i[1] = "add"   -> AddImmediate(i[2], i[3], i[4])
    [] i[1] = "adds"  -> AddsImmediate(i[2], i[3], i[4])
    [] i[1] = "sub"   -> SubImmediate(i[2], i[3], i[4])
    [] i[1] = "subs"  -> SubsImmediate(i[2], i[3], i[4])
    [] i[1] = "cmn"   -> CmnImmediate(i[2], i[3])
    [] i[1] = "cmp"   -> CmpImmediate(i[2], i[3])
    [] i[1] = "movk"  -> Movk(i[2], i[3])
    [] i[1] = "movn"  -> Movn(i[2], i[3])
    [] i[1] = "movz"  -> Movz(i[2], i[3])
    [] i[1] = "nop"   -> Nop
    [] i[1] = "b"     -> Branch(i[2])
    [] i[1] = "bl"    -> BranchLink(i[2])
    [] i[1] = "br"    -> BranchRegister(i[2])
    [] i[1] = "ret"   -> RetTo(i[2])
    [] i[1] = "ldr_register" -> LdrRegisterOffset(i[2], i[3], i[4], i[5], i[6])
    [] i[1] = "str_register" -> StrRegisterOffset(i[2], i[3], i[4], i[5], i[6])
    [] i[1] = "ldur"  -> LdurUnscaledImmediate(i[2], i[3], i[4])
    [] i[1] = "stur"  -> SturUnscaledImmediate(i[2], i[3], i[4])
    [] i[1] = "ldr"   -> LdrRegisterImmediate(i[2], i[3], i[4])
    [] i[1] = "str"   -> StrRegisterImmediate(i[2], i[3], i[4])
    [] i[1] = "orr"   -> OrrShiftedRegister(i[2], i[3], i[4], i[5], i[6])
    [] i[1] = "mov"   -> MovRegister(i[2], i[3]))

(* What the architecture makes of a word: the value each group of its bits *)
(* has to have for the word to be that instruction, with those operands.   *)
(* All 32 bits are named, a field in the units of its operand.             *)
Group(low, width, v) == [low |-> low, width |-> width, bits |-> {j \in Bits(v) : j < width}]
ZeroRegister(reg)    == [reg EXCEPT !.index = 31]

ArithmeticLayout(op, s, rd, rn, imm) ==
  LET sh == IF imm < 4096 THEN 0 ELSE 1
  IN { Group(0, 5, rd.index), Group(5, 5, rn.index), Group(10, 12, imm \div (4096^sh)),
       Group(22, 1, sh), Group(23, 6, 34), Group(29, 1, s), Group(30, 1, op), Group(31, 1, rd.is64) }
WideLayout(opc, rd, imm) ==
  { Group(0, 5, rd.index), Group(5, 16, imm), Group(21, 2, 0), Group(23, 6, 37),
    Group(29, 2, opc), Group(31, 1, rd.is64) }
PcRelLayout(op, rd, distance) ==
  { Group(0, 5, rd.index), Group(5, 19, distance \div 4), Group(24, 5, 16),
    Group(29, 2, distance % 4), Group(31, 1, op) }
BranchLayout(op, words) == { Group(0, 26, words), Group(26, 5, 5), Group(31, 1, op) }
BranchRegisterLayout(opc, rn) ==
  { Group(0, 5, 0), Group(5, 5, rn.index), Group(10, 6, 0), Group(16, 5, 31), Group(21, 4, opc),
    Group(25, 7, 107) }
IndexedLayout(load, rt, rn, rm, option, scaled) ==
  { Group(0, 5, rt.index), Group(5, 5, rn.index), Group(10, 2, 2), Group(12, 1, scaled),
    Group(13, 3, option), Group(16, 5, rm.index), Group(21, 1, 1), Group(22, 2, load),
    Group(24, 6, 56), Group(30, 2, 2 + rt.is64) }
UnscaledLayout(load, rt, rn, bytes) ==
  { Group(0, 5, rt.index), Group(5, 5, rn.index), Group(10, 2, 0), Group(12, 9, bytes), Group(21, 1, 0),
    Group(22, 2, load), Group(24, 6, 56), Group(30, 2, 2 + rt.is64) }
ScaledLayout(load, rt, rn, units) ==
  { Group(0, 5, rt.index), Group(5, 5, rn.index), Group(10, 12, units),
    Group(22, 2, load), Group(24, 6, 57), Group(30, 2, 2 + rt.is64) }
OrrLayout(rd, rn, rm, shift, amount) ==
  { Group(0, 5, rd.index), Group(5, 5, rn.index), Group(10, 6, amount), Group(16, 5, rm.index),
    Group(21, 1, 0), Group(22, 2, shift), Group(24, 5, 10), Group(29, 2, 1), Group(31, 1, rd.is64) }

ArchOption == [UXTW |-> 2, LSL |-> 3, SXTW |-> 6, SXTX |-> 7]
ArchShift  == [LSL |-> 0, LSR |-> 1, ASR |-> 2, ROR |-> 3]

Layout(i) ==
  CASE i[1] = "adr"   -> PcRelLayout(0, i[2], i[3])
    [] i[1] = "adrp"  -> PcRelLayout(1, i[2], i[3] \div 4096)
    [] i[1] = "add"   -> ArithmeticLayout(0, 0, i[2], i[3], i[4])
    [] i[1] = "adds"  -> ArithmeticLayout(0, 1, i[2], i[3], i[4])
    [] i[1] = "sub"   -> ArithmeticLayout(1, 0, i[2], i[3], i[4])
    [] i[1] = "subs"  -> ArithmeticLayout(1, 1, i[2], i[3], i[4])
    [] i[1] = "cmn"   -> ArithmeticLayout(0, 1, ZeroRegister(i[2]), i[2], i[3])
    [] i[1] = "cmp"   -> ArithmeticLayout(1, 1, ZeroRegister(i[2]), i[2], i[3])
    [] i[1] = "movk"  -> WideLayout(3, i[2], i[3])
    [] i[1] = "movn"  -> WideLayout(0, i[2], i[3])
    [] i[1] = "movz"  -> WideLayout(2, i[2], i[3])
    [] i[1] = "nop"   -> { Group(0, 12, 31), Group(12, 20, 872498) }
    [] i[1] = "b"     -> BranchLayout(0, i[2] \div 4)
    [] i[1] = "bl"    -> BranchLayout(1, i[2] \div 4)
    [] i[1] = "br"    -> BranchRegisterLayout(0, i[2])
    [] i[1] = "ret"   -> BranchRegisterLayout(2, i[2])
    [] i[1] = "ldr_register" -> IndexedLayout(1, i[2], i[3], i[4], ArchOption[i[5]], IF i[6] = 0 THEN 0 ELSE 1)
    [] i[1] = "str_register" -> IndexedLayout(0, i[2], i[3], i[4], ArchOption[i[5]], IF i[6] = 0 THEN 0 ELSE 1)
    [] i[1] = "ldur"  -> UnscaledLayout(1, i[2], i[3], i[4])
    [] i[1] = "stur"  -> UnscaledLayout(0, i[2], i[3], i[4])
    [] i[1] = "ldr"   -> ScaledLayout(1, i[2], i[3], i[4])
    [] i[1] = "str"   -> ScaledLayout(0, i[2], i[3], i[4])
    [] i[1] = "orr"   -> OrrLayout(i[2], i[3], i[4], ArchShift[i[5]], i[6])
    [] i[1] = "mov"   -> OrrLayout(i[2], ZeroRegister(i[2]), i[3], 0, 0)

(* The word is the instruction.                                            *)
IsInstruction(word, i) ==
  \A g \in Layout(i) : {b - g.low : b \in {b \in word : g.low <= b /\ b < g.low + g.width}} = g.bits
=============================================================================
