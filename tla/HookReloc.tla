----------------------------- MODULE HookReloc ------------------------------
(***************************************************************************)
(* The relocation of the first instructions of a hooked function into its  *)
(* trampoline: __fix_instructions of lib/hook/nx64/hook_impl.cpp and the   *)
(* fixers it tries on each instruction.                                    *)
(*                                                                         *)
(* An instruction that names an address relative to its own is rewritten,  *)
(* or replaced by a sequence that loads the address from a literal, so     *)
(* that it means at its new place what it meant at the old one.  A branch  *)
(* to an instruction that has not been moved yet is entered in a map and   *)
(* completed when that one is.  Then the processor runs the trampoline,    *)
(* and what it does is compared with the original code run by the same     *)
(* processor (module A64).                                                 *)
(*                                                                         *)
(* Next to some definitions stands a faulty variant that no action uses:   *)
(* TLC is given it in place of the definition, to see that a property      *)
(* fails then.                                                             *)
(***************************************************************************)
EXTENDS Integers, Sequences

CONSTANTS
  H26, H21, H19, H14, PageWords, Regs,
  Int32,             \* the addresses that 32 bits tell apart, in words
  MaxInstructions,   \* room of the context
  TrampolineSize,    \* words of a row of the pool
  Base,              \* inprx: where the function starts
  Windows,           \* the instructions it may start with, as sequences
  OutBases(_),       \* outprx: where the trampoline of each may be, executable
  RwShift            \* from there to its writable alias

ASSUME WidthAssumption ==
  /\ H26 \in Nat \ {0} /\ H21 \in Nat \ {0} /\ H19 \in Nat \ {0} /\ H14 \in Nat \ {0}
  /\ PageWords \in Nat \ {0} /\ Int32 = H21 * PageWords /\ H19 <= Int32
  /\ Base \in Nat /\ RwShift \in Nat

\* Lines 564 and 58: "please fix MaxInstructions!"
ASSUME RowAssumption ==
  MaxInstructions \in Nat /\ MaxInstructions >= 5 /\ TrampolineSize = 10 * MaxInstructions

\* Wherever two words of a row are, each field reaches from one to the other.
ASSUME ReachAssumption ==
  TrampolineSize <= H14 /\ TrampolineSize <= H19 /\ TrampolineSize <= H26

\* What a window holds: words of the processor whose fields fit.
InOps == {"b", "bl", "bc", "tbz", "ldr", "ldrv", "ldrsw", "prfm", "adr", "adrp", "plain"}
InWords == [op : InOps, imm : Nat, rd : 0..31, lo : 0..3, n : {0, 1, 2, 4}]

VARIABLES
  code,     \* the instructions to move
  outBase,
  in,       \* instructions done with; one more when the way back is written
  out,      \* the words written
  org,      \* history: per word, the instruction that is due when it is reached
  dat,      \* per instruction, where it was moved to, or 0
  fmap,     \* words to complete, with the instruction each of them waits for
  pc, reg, flag,  \* the processor that runs the trampoline
  was       \* history: reg before its last step

CPU == INSTANCE A64 WITH text <- out, base <- outBase

fixing  == <<in, out, org, dat, fmap>>
vars    == <<code, outBase, fixing, pc, reg, flag, was>>

ASSUME WindowAssumption ==
  \A w \in Windows :
    /\ w \in Seq(InWords)
    /\ Len(w) \in 1..MaxInstructions
    /\ \A k \in 1..Len(w) :
         /\ w[k].imm < 2 * CPU!Half(w[k].op)
         /\ w[k].op \in {"ldr", "ldrv", "ldrsw"} => w[k].n # 0
         /\ w[k].op = "ldrsw" => w[k].n = 1
ASSUME PlaceAssumption == \A w \in Windows : OutBases(w) \subseteq Nat
ASSUME RegsAssumption == 17 \in Regs

Count   == Len(code)
Now     == code[in + 1]
InAddr  == Base + in
OutAddr == outBase + Len(out)

Distance(a, b) == IF a >= b THEN a - b ELSE b - a
FieldUnmasked(op, x) == x
Field(op, x) == x % (2 * CPU!Half(op))

InWindow(a) == a >= Base /\ a < Base + Count

\* The memory the fixers read: the function is not patched yet.
Memory(a) == IF InWindow(a) THEN code[a - Base + 1] ELSE CPU!Word("mem", a, 0, 0, 0)

\* Words of the sequences that replace an instruction.
Nop == CPU!Word("nop", 0, 0, 0, 0)
LdrX(r, imm) == CPU!Word("ldr", imm, r, 0, 2)
B(imm) == CPU!Word("b", imm, 0, 0, 0)
FarJump(a) == <<LdrX(17, 2), CPU!Word("br", 0, 17, 0, 0)>> \o CPU!Address(4 * a)
FarCall(a) == <<LdrX(17, 3), CPU!Word("adr", 4, 30, 0, 0), CPU!Word("br", 0, 17, 0, 0)>>
              \o CPU!Address(4 * a)
FarLoad(r, b) == <<LdrX(r, 2), B(3)>> \o CPU!Address(b)

\* NOPs so that what lies off words behind them is a multiple of n.
PaddingMissing(off, n) == 0
PaddingOfWords(off, n) == (-(OutAddr + off)) % (4 * n)
Padding(off, n) == (-(OutAddr + off)) % n
Nops(k) == [j \in 1..k |-> Nop]

\* process_fix_map: the words that wait for this instruction get its place.
Completed(o, at) ==
  [k \in 1..Len(o) |->
    IF [at |-> k, to |-> in] \in fmap
    THEN [o[k] EXCEPT !.imm = Field(o[k].op, at - (outBase + k - 1))]
    ELSE o[k]]

\* What ends each fixer: ws is written, of which the first due words belong to
\* this instruction, at is entered as its place, and waits join the map.
Move(ws, due, at, waits) ==
  /\ out'  = Completed(out \o ws, at)
  /\ org'  = org \o [k \in 1..Len(ws) |-> IF k <= due THEN in ELSE in + 1]
  /\ dat'  = [dat EXCEPT ![in + 1] = at]
  /\ fmap' = {f \in fmap : f.to # in} \cup waits
  /\ in' = in + 1
  /\ UNCHANGED <<code, outBase, pc, reg, flag, was>>

Fixing(ops) == in < Count /\ Now.op \in ops

\* A branch into the window names the moved instruction: at once if it has its
\* place already, and through the map if not.
MovedTo(a) == IF a = InAddr THEN OutAddr ELSE dat[a - Base + 1]
Awaited(a) == InWindow(a) /\ a > InAddr
Waits(a) == IF Awaited(a) THEN {[at |-> Len(out) + 1, to |-> a - Base]} ELSE {}
NearOffsetUnmoved(a) == IF Awaited(a) THEN 0 ELSE a - OutAddr
NearOffset(a) ==
  IF Awaited(a) THEN 0
  ELSE IF InWindow(a) THEN MovedTo(a) - OutAddr ELSE a - OutAddr

Near(to) == Move(<<[Now EXCEPT !.imm = Field(Now.op, NearOffset(to))]>>, 1, OutAddr, Waits(to))

\* Whether the trampoline is too far away for a field with h values a side.
TooFar(a, h) == ~InWindow(a) /\ Distance(a, OutAddr) >= h - 1

\* __fix_branch_imm.
BranchTarget == InAddr + CPU!Signed(Now.imm, H26)

FixBranch ==
  /\ Fixing({"b", "bl"})
  /\ IF TooFar(BranchTarget, H26)
     THEN IF Now.op = "b"
          THEN LET k == Padding(2, 2) IN
               Move(Nops(k) \o FarJump(BranchTarget), k + 4, OutAddr + k, {})
          ELSE LET k == Padding(3, 2) IN
               Move(Nops(k) \o FarCall(BranchTarget), k + 5, OutAddr + k, {})
     ELSE Near(BranchTarget)

\* __fix_cond_comp_test_branch: the field is not taken for a signed one.
CondTarget == InAddr + Now.imm

FixCond ==
  /\ Fixing({"bc", "tbz"})
  /\ IF TooFar(CondTarget, CPU!Half(Now.op))
     THEN LET k == Padding(4, 2) IN
          Move(Nops(k) \o <<[Now EXCEPT !.imm = 2], B(5)>> \o FarJump(CondTarget), k + 6, OutAddr, {})
     ELSE Near(CondTarget)

\* __fix_loadlit: a prefetch is dropped.
FixPrefetch ==
  /\ Fixing({"prfm"})
  /\ Move(<< >>, 0, OutAddr, {})

\* The displacement becomes unsigned before it is added to the address.
LiteralTarget == InAddr + (CPU!Signed(Now.imm, H19) % Int32)

\* faligned + 1, in words: ldrsw is given room for eight bytes.
LiteralWords == IF Now.op = "ldrsw" THEN 2 ELSE Now.n

\* A negative offset sets the bits that the mask does not clear: the size of an
\* ldr becomes eight bytes, and that of a vector load one that does not exist.
Masked(w, d) ==
  IF d >= 0 \/ w.op = "ldrsw" THEN w
  ELSE IF w.op = "ldr" THEN [w EXCEPT !.n = 2] ELSE [w EXCEPT !.op = "udf"]

FixLiteral ==
  /\ Fixing({"ldr", "ldrv", "ldrsw"})
  /\ LET to == LiteralTarget
         n  == LiteralWords
     IN IF InWindow(to) \/ Distance(to, OutAddr) + n - 1 >= H19 - 1
        THEN LET k == Padding(2, n) IN
             Move(Nops(k) \o <<[Now EXCEPT !.imm = 2], B(1 + n)>> \o [j \in 1..n |-> Memory(to + j - 1)],
                  k + 1, OutAddr + k, {})
        ELSE LET k == (to - OutAddr) % n
                 d == to - OutAddr - k
             IN Move(Nops(k) \o <<[Masked(Now, d) EXCEPT !.imm = Field(Now.op, d)]>>,
                     k + 1, OutAddr + k, {})

\* __fix_pcreladdr, adr.  The two low bits of the distance are or'ed into the
\* register's number.
AdrTarget == (4 * (InAddr + (CPU!Signed(Now.imm, H19) % Int32))) + Now.lo

OrBits(a, b) ==
  (IF a % 2 = 1 \/ b % 2 = 1 THEN 1 ELSE 0) + (IF a \div 2 = 1 \/ b \div 2 = 1 THEN 2 ELSE 0)
Smudged(r, low) == (r % 8) + 8 * OrBits(r \div 8, low)

FixAdr ==
  /\ Fixing({"adr"})
  /\ LET to == AdrTarget \div 4 IN
     IF ~InWindow(to) /\ Distance(AdrTarget, 4 * OutAddr) >= 4 * H19 - 1
     THEN LET k == Padding(2, 2) IN
          Move(Nops(k) \o FarLoad(Now.rd, AdrTarget), k + 1, OutAddr + k, {})
     ELSE LET low == IF InWindow(to) THEN 0 ELSE Now.lo IN
          Move(<<[Now EXCEPT !.imm = Field("adr", NearOffset(to)), !.rd = Smudged(@, low)]>>,
               1, OutAddr, Waits(to))

\* __fix_pcreladdr, adrp.  The instruction's place is entered as that of its
\* writable alias, unless a NOP in front corrects it.
AdrpTarget == InAddr - (InAddr % PageWords) + ((PageWords * CPU!Signed(Now.imm, H21)) % Int32)

FixAdrp ==
  /\ Fixing({"adrp"})
  /\ IF InWindow(AdrpTarget)
     THEN Move(<<Now>>, 1, OutAddr + RwShift, {})
     ELSE LET k == Padding(2, 2) IN
          Move(Nops(k) \o FarLoad(Now.rd, 4 * AdrpTarget), k + 1,
               IF k = 0 THEN OutAddr + RwShift ELSE OutAddr + k, {})

\* "without PC-relative offset"
FixPlain ==
  /\ Fixing({"plain"})
  /\ Move(<<Now>>, 1, OutAddr, {})

\* The way back to what is left of the function; then the trampoline is used.
Callback == Base + Count
WayBack ==
  IF Distance(Callback, OutAddr) >= H26 - 1
  THEN Nops(Padding(2, 2)) \o FarJump(Callback)
  ELSE <<B(Field("b", Callback - OutAddr))>>

Return ==
  /\ in = Count
  /\ out' = out \o WayBack
  /\ org' = org \o [k \in 1..Len(WayBack) |-> Count]
  /\ in'  = in + 1
  /\ pc'  = outBase
  /\ UNCHANGED <<code, outBase, dat, fmap, reg, flag, was>>

Run ==
  /\ in = Count + 1
  /\ CPU!Next
  /\ was' = reg
  /\ UNCHANGED <<code, fixing>>

Init ==
  /\ code \in Windows
  /\ outBase \in OutBases(code)
  /\ in = 0 /\ out = << >> /\ org = << >> /\ fmap = {}
  /\ dat = [k \in 1..MaxInstructions |-> 0]
  /\ pc = Base
  /\ reg = [r \in Regs |-> << >>] /\ was = reg
  /\ flag \in BOOLEAN

Fix == FixBranch \/ FixCond \/ FixPrefetch \/ FixLiteral \/ FixAdr \/ FixAdrp \/ FixPlain

Next == Fix \/ Return \/ Run

Spec == Init /\ [][Next]_vars /\ WF_vars(Fix \/ Return) /\ WF_vars(Run)

-----------------------------------------------------------------------------
(* What the trampoline stands for, and what it must keep.                  *)

\* The address of the original code that an address of the trampoline stands for.
Home(a) == IF CPU!Inside(a) THEN Base + org[a - outBase + 1] ELSE a

\* The processor on the original code, where the trampoline's is.
Old == INSTANCE A64 WITH text <- code, base <- Base

HomeValue(v) ==
  IF v # << >> /\ v[1].op = "lo"
  THEN CPU!Address(4 * Home(v[1].imm \div 4) + (v[1].imm % 4))
  ELSE v

\* A call that goes through X17 sets the link register one step before it leaves.
Seen == IF CPU!Inside(pc) /\ CPU!Ins.op = "br" THEN was ELSE reg

Original == INSTANCE A64 WITH
  text <- code, base <- Base, Regs <- Regs \ {17},
  pc <- Old!Past(Home(pc)), reg <- [r \in Regs \ {17} |-> HomeValue(Seen[r])]

\* The trampoline does what the first instructions of the function did, in all
\* registers but X17, until it goes back to the rest of it or elsewhere.
KeepsMeaning == Original!Spec

\* What the comments of the fixers promise of one class of instructions each:
\* a branch goes where its field of 26, 19 or 14 bits says (lines 142, 215-224),
Due == Home(pc)' # Home(pc)
TakesBranch ==
  [][Due /\ Original!Ins.op \in {"b", "bl", "bc", "tbz"}
     => Original!Branch \/ Original!BranchLink \/ Original!Conditional]_vars

\* a load reads its label (lines 301-306),
LiteralLoaded == [][Due /\ Original!Ins.op \in {"ldr", "ldrv", "ldrsw"} => Original!Load]_vars

\* and adr and adrp load an address into their register (line 371).
AddressLoaded == [][Due /\ Original!Ins.op \in {"adr", "adrp"} => Original!NameAddress]_vars

\* What the fixers take over rightly, of a window w whose trampoline has its row
\* at b.  The row is no part of the function nor of what the function names.
\* Branches on a condition, loads, adr and adrp name what is ahead: their fields
\* are not taken for signed ones, or are made unsigned.  Nothing in the window
\* names an adrp of it, whose place is entered wrongly unless a NOP happens to be
\* needed in front of it, and no adr a prefetch, which has no place.  The low bits
\* of an adr are lost unless it stays in the window or is loaded from afar; and a
\* literal in reach lies behind the row.
JumpOps == {"b", "bl", "bc", "tbz"}
LoadOps == {"ldr", "ldrv", "ldrsw"}
Row(b)  == b..b + TrampolineSize - 1
Among(w, a) == a \in Base..Base + Len(w) - 1
OutOfReach(a, b) == \A x \in Row(b) : Distance(a, x) > H19
Label(w, i) == Base + i + CPU!Signed(w[i + 1].imm, CPU!Half(w[i + 1].op))
PageOf(w, i) == Base + i - ((Base + i) % PageWords) + PageWords * CPU!Signed(w[i + 1].imm, H21)

Handled(w, b) ==
  /\ \A a \in Base..Base + Len(w) : a \notin Row(b)
  /\ \A i \in 0..Len(w) - 1 :
       LET ins == w[i + 1]
           to  == Label(w, i)
       IN /\ ins.op \in {"bc", "tbz", "adr", "adrp"} \cup LoadOps => ins.imm < CPU!Half(ins.op)
          /\ ins.op \in {"adr"} \cup JumpOps =>
               to \notin Row(b) /\ (Among(w, to) => w[to - Base + 1].op # "adrp")
          /\ ins.op = "adr" => IF Among(w, to) THEN w[to - Base + 1].op # "prfm"
                               ELSE ins.lo = 0 \/ OutOfReach(to, b)
          /\ ins.op \in LoadOps /\ ~Among(w, to) =>
               /\ \A j \in 0..ins.n - 1 : to + j \notin Row(b)
               /\ to > b \/ OutOfReach(to, b)
          /\ ins.op = "adrp" => ~Among(w, PageOf(w, i)) /\ PageOf(w, i) \notin Row(b)

\* Each field written has a value that its bits hold, and a branch waits only
\* for an instruction that is still to come.
FieldFits(w) == w.op \in {"lo", "hi", "mem"} \/ w.imm \in 0..2 * CPU!Half(w.op) - 1

TypeOK ==
  /\ in \in 0..Count + 1
  /\ Len(org) = Len(out)
  /\ \A k \in 1..Len(out) : FieldFits(out[k]) /\ org[k] \in 0..Count
  /\ dat \in [1..MaxInstructions -> Nat]
  /\ fmap \subseteq [at : 1..Len(out), to : in..Count - 1]

\* A trampoline stays in its row of the pool.
FitsRow == Len(out) <= TrampolineSize

\* However many words the fixers need for the window at hand, the trampoline is
\* in its row when the conversion ends, its fields hold what was put in them and
\* the fix map has no branch left to an instruction that has gone by.
RowSound == TypeOK /\ FitsRow

\* A literal that the processor loads from the trampoline lies at a multiple of
\* its size.
LiteralsAligned ==
  CPU!Inside(pc) /\ CPU!Ins.op \in {"ldr", "ldrv"} /\ CPU!Inside(CPU!Target)
    => CPU!Target % CPU!Ins.n = 0

=============================================================================
