-------------------------- MODULE HookRelocProofs ---------------------------
(***************************************************************************)
(* The moving of instructions of lib/hook/nx64/hook_impl.cpp.              *)
(*                                                                         *)
(* For every window, every place of the trampoline and every width of the  *)
(* fields, the words written have fields that fit, no branch waits for an  *)
(* instruction that has been passed, and the trampoline stays in its row.  *)
(*                                                                         *)
(* Then, for the windows that the fixers take over rightly (Handled), what *)
(* the processor does in the trampoline is what it did in the function.    *)
(* The words written are cut into sequences, one for each instruction of   *)
(* the window (ShapeInv); the processor is at the start of one, inside     *)
(* one, or has left the trampoline (Stands), and the processor of the      *)
(* function is then at the instruction that the sequence replaces.         *)
(***************************************************************************)
EXTENDS HookReloc, SequenceTheorems, FiniteSetTheorems, WellFoundedInduction, TLAPS

\* What a fixer may write.
OutOps   == InOps \cup {"nop", "br", "udf", "lo", "hi", "mem"}
OutWords == [op : OutOps, imm : Int, rd : Nat, lo : 0..3, n : 0..4]
Fitting  == {w \in OutWords : FieldFits(w)}

\* The five instructions of a window take nine words each, and the way back five.
Bound(done, count) == IF done <= count THEN 9 * done ELSE 9 * count + 5

IInv ==
  /\ code \in Windows /\ outBase \in Nat
  /\ in \in 0..Count + 1
  /\ out \in Seq(Fitting)
  /\ org \in Seq(Nat) /\ Len(org) = Len(out)
  /\ \A k \in 1..Len(org) : org[k] \in 0..Count
  /\ dat \in [1..MaxInstructions -> Nat]
  /\ fmap \subseteq [at : 1..Len(out), to : in..Count - 1]
  /\ Len(out) <= Bound(in, Count)

LEMMA WindowFacts ==
  ASSUME code \in Windows
  PROVE  /\ code \in Seq(InWords) /\ Count \in 1..MaxInstructions
         /\ \A k \in 1..Count : code[k] \in Fitting
         /\ \A k \in 1..Count : code[k].imm \in Nat
         /\ \A k \in 1..Count : code[k].op \in {"ldr", "ldrv", "ldrsw"} => code[k].n \in {1, 2, 4}
<1>1. code \in Seq(InWords) /\ Count \in 1..MaxInstructions
  BY WindowAssumption DEF Count
<1>2. ASSUME NEW k \in 1..Count
      PROVE  /\ code[k] \in InWords /\ code[k].imm < 2 * CPU!Half(code[k].op)
             /\ code[k].op \in {"ldr", "ldrv", "ldrsw"} => code[k].n # 0
  BY <1>1, WindowAssumption DEF Count
<1>3. ASSUME NEW k \in 1..Count
      PROVE  code[k] \in Fitting
  <2>1. code[k] \in OutWords
    BY <1>2 DEF InWords, OutWords, OutOps
  <2>2. CPU!Half(code[k].op) \in Nat
    BY WidthAssumption DEF CPU!Half
  <2>3. FieldFits(code[k])
    BY <1>2, <2>2 DEF InWords, FieldFits
  <2> QED BY <2>1, <2>3 DEF Fitting
<1> QED
  BY <1>1, <1>2, <1>3 DEF InWords

\* The modulus of a width: any number becomes one that fits.
LEMMA HalfPositive == \A op : CPU!Half(op) \in Nat \ {0}
  BY WidthAssumption DEF CPU!Half

LEMMA ModBound ==
  ASSUME NEW x \in Int, NEW m \in Nat \ {0}
  PROVE  x % m \in 0..m-1
OBVIOUS

LEMMA FieldBound ==
  ASSUME NEW op, NEW x \in Int
  PROVE  Field(op, x) \in 0..2 * CPU!Half(op) - 1
<1>1. 2 * CPU!Half(op) \in Nat \ {0}
  BY HalfPositive
<1> QED BY <1>1, ModBound DEF Field

LEMMA PatchedFits ==
  ASSUME NEW w \in Fitting, NEW x \in Int
  PROVE  [w EXCEPT !.imm = Field(w.op, x)] \in Fitting
<1> DEFINE v == [w EXCEPT !.imm = Field(w.op, x)]
<1>1. w \in OutWords
  BY DEF Fitting
<1>2. Field(w.op, x) \in 0..2 * CPU!Half(w.op) - 1
  BY FieldBound
<1>3. 2 * CPU!Half(w.op) - 1 \in Int
  BY HalfPositive
<1>4. Field(w.op, x) \in Int
  BY <1>2, <1>3
<1>5. v \in OutWords /\ v.op = w.op /\ v.imm = Field(w.op, x)
  BY <1>1, <1>4 DEF OutWords
<1> QED BY <1>2, <1>5 DEF Fitting, FieldFits

LEMMA CompletedFits ==
  ASSUME outBase \in Nat, NEW o \in Seq(Fitting), NEW spot \in Int
  PROVE  Completed(o, spot) \in Seq(Fitting) /\ Len(Completed(o, spot)) = Len(o)
<1> DEFINE c == Completed(o, spot)
<1>1. ASSUME NEW k \in 1..Len(o)
      PROVE  c[k] \in Fitting
  <2>1. o[k] \in Fitting
    BY <1>1
  <2>2. spot - (outBase + k - 1) \in Int
    OBVIOUS
  <2>3. [o[k] EXCEPT !.imm = Field(o[k].op, spot - (outBase + k - 1))] \in Fitting
    BY <2>1, <2>2, PatchedFits
  <2> QED BY <2>1, <2>3 DEF Completed
<1>2. DOMAIN c = 1..Len(o)
  BY DEF Completed
<1>3. c = [k \in 1..Len(o) |-> c[k]]
  BY DEF Completed
<1>4. c \in [1..Len(o) -> Fitting]
  BY <1>1, <1>3
<1>5. c \in Seq(Fitting)
  BY <1>4
<1> QED BY <1>2, <1>5

\* The step that every fixer ends with.
LEMMA MoveKeeps ==
  ASSUME IInv, in < Count,
         NEW ws \in Seq(Fitting), Len(ws) <= 9, NEW due, NEW spot \in Nat,
         NEW waits \in SUBSET [at : 1..Len(out) + Len(ws), to : in + 1..Count - 1],
         Move(ws, due, spot, waits)
  PROVE  IInv'
<1> DEFINE tail == [k \in 1..Len(ws) |-> IF k <= due THEN in ELSE in + 1]
<1>1. /\ code \in Windows /\ outBase \in Nat /\ in \in 0..Count + 1
      /\ out \in Seq(Fitting) /\ org \in Seq(Nat) /\ Len(org) = Len(out)
      /\ dat \in [1..MaxInstructions -> Nat]
      /\ \A k \in 1..Len(org) : org[k] \in 0..Count
      /\ fmap \subseteq [at : 1..Len(out), to : in..Count - 1]
      /\ Len(out) <= Bound(in, Count)
  BY DEF IInv
<1>2. Count \in 1..MaxInstructions
  BY <1>1, WindowFacts
<1>3. /\ out' = Completed(out \o ws, spot) /\ org' = org \o tail
      /\ dat' = [dat EXCEPT ![in + 1] = spot]
      /\ fmap' = {f \in fmap : f.to # in} \cup waits
      /\ in' = in + 1 /\ code' = code /\ outBase' = outBase
  BY DEF Move
<1>4. Count' = Count
  BY <1>3 DEF Count
<1>5. out \o ws \in Seq(Fitting) /\ Len(out \o ws) = Len(out) + Len(ws)
  BY <1>1
<1>6. out' \in Seq(Fitting) /\ Len(out') = Len(out) + Len(ws)
  <2>1. spot \in Int
    OBVIOUS
  <2>2. Completed(out \o ws, spot) \in Seq(Fitting) /\ Len(Completed(out \o ws, spot)) = Len(out \o ws)
    BY <1>1, <1>5, <2>1, CompletedFits
  <2> QED BY <1>3, <1>5, <2>2
<1>7. tail \in Seq(Nat) /\ Len(tail) = Len(ws) /\ \A k \in 1..Len(ws) : tail[k] \in 0..Count
  BY <1>1, <1>2
<1>8. org' \in Seq(Nat) /\ Len(org') = Len(out')
  BY <1>1, <1>3, <1>6, <1>7
<1>9. \A k \in 1..Len(org') : org'[k] \in 0..Count
  BY <1>1, <1>3, <1>7
<1>10. dat' \in [1..MaxInstructions -> Nat]
  BY <1>1, <1>3
<1>11. fmap' \subseteq [at : 1..Len(out'), to : in'..Count - 1]
  BY <1>1, <1>2, <1>3, <1>6, SMTT(60)
<1>12. Len(out') <= Bound(in', Count)
  BY <1>1, <1>2, <1>3, <1>6 DEF Bound
<1>13. in' \in 0..Count + 1
  BY <1>1, <1>2, <1>3
<1> QED
  BY <1>1, <1>3, <1>4, <1>6, <1>8, <1>9, <1>10, <1>11, <1>12, <1>13 DEF IInv

-----------------------------------------------------------------------------
(* What the fixers write.                                                  *)

LEMMA NopsFit ==
  ASSUME NEW k \in Nat
  PROVE  Nops(k) \in Seq(Fitting) /\ Len(Nops(k)) = k
<1>1. Nop \in OutWords
  BY DEF Nop, OutWords, OutOps, CPU!Word
<1>2. FieldFits(Nop)
  BY HalfPositive DEF Nop, FieldFits, CPU!Word
<1>3. Nop \in Fitting
  BY <1>1, <1>2 DEF Fitting
<1>4. Nops(k) \in [1..k -> Fitting]
  BY <1>3 DEF Nops
<1> QED BY <1>4

LEMMA WidthsReach == \A op : op # "adrp" => 50 <= CPU!Half(op)
  BY WidthAssumption, RowAssumption, ReachAssumption DEF CPU!Half

LEMMA AddressFits ==
  ASSUME NEW b \in Int
  PROVE  CPU!Address(b) \in Seq(Fitting) /\ Len(CPU!Address(b)) = 2
<1> DEFINE u == CPU!Word("lo", b, 0, 0, 0)
           v == CPU!Word("hi", b, 0, 0, 0)
<1>1. u \in Fitting /\ v \in Fitting
  BY DEF Fitting, OutWords, OutOps, FieldFits, CPU!Word
<1>2. CPU!Address(b) = <<u, v>>
  BY DEF CPU!Address
<1> QED BY ONLY <1>1, <1>2

LEMMA ShortFits ==
  ASSUME NEW imm \in 0..9
  PROVE  /\ B(imm) \in Fitting
         /\ \A r \in Nat : LdrX(r, imm) \in Fitting
         /\ \A r \in Nat : CPU!Word("adr", imm, r, 0, 0) \in Fitting
<1>1. \A op \in {"b", "ldr", "adr"} : imm \in 0..2 * CPU!Half(op) - 1
  BY WidthsReach, HalfPositive
<1> QED
  BY <1>1 DEF B, LdrX, Fitting, OutWords, OutOps, InOps, FieldFits, CPU!Word

LEMMA BrFits == CPU!Word("br", 0, 17, 0, 0) \in Fitting
  BY HalfPositive DEF Fitting, OutWords, OutOps, FieldFits, CPU!Word

LEMMA Join ==
  ASSUME NEW S, NEW a \in Seq(S), NEW b \in Seq(S)
  PROVE  a \o b \in Seq(S) /\ Len(a \o b) = Len(a) + Len(b)
OBVIOUS

LEMMA FarFits ==
  ASSUME NEW a \in Int
  PROVE  /\ FarJump(a) \in Seq(Fitting) /\ Len(FarJump(a)) = 4
         /\ FarCall(a) \in Seq(Fitting) /\ Len(FarCall(a)) = 5
         /\ \A r \in Nat : FarLoad(r, a) \in Seq(Fitting) /\ Len(FarLoad(r, a)) = 4
<1> DEFINE br == CPU!Word("br", 0, 17, 0, 0)
           ad == CPU!Word("adr", 4, 30, 0, 0)
<1>1. /\ LdrX(17, 2) \in Fitting /\ LdrX(17, 3) \in Fitting /\ B(3) \in Fitting
      /\ ad \in Fitting /\ br \in Fitting
      /\ \A r \in Nat : LdrX(r, 2) \in Fitting
  BY ShortFits, BrFits
<1>2. /\ CPU!Address(4 * a) \in Seq(Fitting) /\ Len(CPU!Address(4 * a)) = 2
      /\ CPU!Address(a) \in Seq(Fitting) /\ Len(CPU!Address(a)) = 2
  BY AddressFits
<1>3. /\ <<LdrX(17, 2), br>> \in Seq(Fitting) /\ Len(<<LdrX(17, 2), br>>) = 2
      /\ <<LdrX(17, 3), ad, br>> \in Seq(Fitting) /\ Len(<<LdrX(17, 3), ad, br>>) = 3
      /\ \A r \in Nat : <<LdrX(r, 2), B(3)>> \in Seq(Fitting) /\ Len(<<LdrX(r, 2), B(3)>>) = 2
  BY ONLY <1>1
<1>4. FarJump(a) \in Seq(Fitting) /\ Len(FarJump(a)) = 4
  <2> DEFINE x == <<LdrX(17, 2), br>>
             y == CPU!Address(4 * a)
  <2>1. x \in Seq(Fitting) /\ Len(x) = 2 /\ y \in Seq(Fitting) /\ Len(y) = 2
    BY <1>2, <1>3
  <2>2. FarJump(a) = x \o y
    BY DEF FarJump
  <2> HIDE DEF x, y
  <2>3. x \o y \in Seq(Fitting) /\ Len(x \o y) = Len(x) + Len(y)
    BY ONLY <2>1, Join
  <2> QED BY ONLY <2>1, <2>2, <2>3
<1>5. FarCall(a) \in Seq(Fitting) /\ Len(FarCall(a)) = 5
  <2> DEFINE x == <<LdrX(17, 3), ad, br>>
             y == CPU!Address(4 * a)
  <2>1. x \in Seq(Fitting) /\ Len(x) = 3 /\ y \in Seq(Fitting) /\ Len(y) = 2
    BY <1>2, <1>3
  <2>2. FarCall(a) = x \o y
    BY DEF FarCall
  <2> HIDE DEF x, y
  <2>3. x \o y \in Seq(Fitting) /\ Len(x \o y) = Len(x) + Len(y)
    BY ONLY <2>1, Join
  <2> QED BY ONLY <2>1, <2>2, <2>3
<1>6. ASSUME NEW r \in Nat
      PROVE  FarLoad(r, a) \in Seq(Fitting) /\ Len(FarLoad(r, a)) = 4
  <2> DEFINE x == <<LdrX(r, 2), B(3)>>
             y == CPU!Address(a)
  <2>1. x \in Seq(Fitting) /\ Len(x) = 2 /\ y \in Seq(Fitting) /\ Len(y) = 2
    BY <1>2, <1>3, <1>6
  <2>2. FarLoad(r, a) = x \o y
    BY DEF FarLoad
  <2> HIDE DEF x, y
  <2>3. x \o y \in Seq(Fitting) /\ Len(x \o y) = Len(x) + Len(y)
    BY ONLY <2>1, Join
  <2> QED BY ONLY <2>1, <2>2, <2>3
<1> QED BY <1>4, <1>5, <1>6

\* Padding and what follows it.
LEMMA PaddedFits ==
  ASSUME NEW k \in 0..3, NEW ws \in Seq(Fitting), NEW m \in Nat, Len(ws) = m
  PROVE  Nops(k) \o ws \in Seq(Fitting) /\ Len(Nops(k) \o ws) = k + m
<1>1. Nops(k) \in Seq(Fitting) /\ Len(Nops(k)) = k
  BY NopsFit
<1> QED BY ONLY <1>1, k \in 0..3, ws \in Seq(Fitting), m \in Nat, Len(ws) = m

LEMMA PaddingBound ==
  ASSUME IInv, NEW off \in Nat, NEW n \in Nat \ {0}
  PROVE  Padding(off, n) \in 0..n - 1
<1>1. OutAddr \in Nat
  BY DEF IInv, OutAddr
<1>2. -(OutAddr + off) \in Int
  BY <1>1
<1> QED BY <1>2, ModBound DEF Padding

LEMMA PaddingPair ==
  ASSUME IInv, NEW off \in Nat
  PROVE  Padding(off, 2) \in 0..1
<1>1. 2 \in Nat \ {0}
  OBVIOUS
<1> QED BY <1>1, PaddingBound

-----------------------------------------------------------------------------
(* Each fixer keeps the invariant.                                         *)

LEMMA NowFacts ==
  ASSUME IInv, in < Count
  PROVE  /\ Now \in Fitting /\ Now.imm \in Nat /\ Now.n \in 0..4 /\ Now.lo \in 0..3
         /\ Now.rd \in Nat
         /\ Now.op \in {"ldr", "ldrv", "ldrsw"} => Now.n \in {1, 2, 4}
         /\ in \in 0..Count - 1 /\ Count \in 1..MaxInstructions
         /\ InAddr \in Nat /\ OutAddr \in Nat /\ Base \in Nat
<1>1. /\ code \in Windows /\ in \in 0..Count - 1 /\ outBase \in Nat /\ out \in Seq(Fitting)
  BY WindowFacts DEF IInv
<1>2. in + 1 \in 1..Count
  BY <1>1, WindowFacts
<1>3. /\ Now \in Fitting /\ Now.imm \in Nat
      /\ Now.op \in {"ldr", "ldrv", "ldrsw"} => Now.n \in {1, 2, 4}
  BY <1>1, <1>2, WindowFacts DEF Now
<1>4. Now.n \in 0..4 /\ Now.lo \in 0..3 /\ Now.rd \in Nat
  BY <1>3 DEF Fitting, OutWords
<1>5. InAddr \in Nat /\ OutAddr \in Nat /\ Base \in Nat
  BY <1>1, WidthAssumption DEF InAddr, OutAddr
<1> QED BY <1>1, <1>3, <1>4, <1>5, WindowFacts

LEMMA SignedInt ==
  ASSUME NEW f \in Nat, NEW h \in Nat
  PROVE  CPU!Signed(f, h) \in Int
BY DEF CPU!Signed

LEMMA MemoryFits ==
  ASSUME IInv, NEW a \in Int
  PROVE  Memory(a) \in Fitting
<1>1. code \in Windows /\ Base \in Nat
  BY WidthAssumption DEF IInv
<1>2. CASE InWindow(a)
  <2>1. a - Base + 1 \in 1..Count
    BY <1>1, <1>2, WindowFacts DEF InWindow
  <2> QED BY <1>1, <1>2, <2>1, WindowFacts DEF Memory
<1>3. CASE ~InWindow(a)
  BY <1>3 DEF Memory, Fitting, OutWords, OutOps, FieldFits, CPU!Word
<1> QED BY <1>2, <1>3

LEMMA WaitsFact ==
  ASSUME IInv, in < Count, NEW a \in Int
  PROVE  Waits(a) \in SUBSET [at : 1..Len(out) + 1, to : in + 1..Count - 1]
<1>1. out \in Seq(Fitting) /\ in \in 0..Count - 1 /\ Count \in Nat /\ Base \in Nat
  BY NowFacts DEF IInv
<1> QED BY <1>1 DEF Waits, Awaited, InWindow, InAddr

LEMMA NearOffsetInt ==
  ASSUME IInv, in < Count, NEW a \in Int
  PROVE  NearOffset(a) \in Int
<1>1. /\ in \in 0..Count - 1 /\ Count \in 1..MaxInstructions /\ Base \in Nat
      /\ OutAddr \in Nat /\ InAddr = Base + in
  BY NowFacts DEF InAddr
<1>2. dat \in [1..MaxInstructions -> Nat] /\ MaxInstructions \in Nat
  BY RowAssumption DEF IInv
<1>3. ASSUME InWindow(a)
      PROVE  MovedTo(a) \in Nat
  <2>1. a - Base + 1 \in 1..MaxInstructions
    BY <1>1, <1>2, <1>3 DEF InWindow
  <2> QED BY <1>1, <1>2, <2>1 DEF MovedTo
<1> QED BY <1>1, <1>3 DEF NearOffset

LEMMA PairFits ==
  ASSUME NEW v \in Fitting, NEW w \in Fitting
  PROVE  <<v, w>> \in Seq(Fitting) /\ Len(<<v, w>>) = 2
OBVIOUS

\* A single word that keeps all of an instruction but its field.
LEMMA OneWord ==
  ASSUME NEW w \in Fitting
  PROVE  <<w>> \in Seq(Fitting) /\ Len(<<w>>) = 1
OBVIOUS

LEMMA Renewed ==
  ASSUME NEW w \in Fitting, NEW x, x \in 0..2 * CPU!Half(w.op) - 1
  PROVE  [w EXCEPT !.imm = x] \in Fitting
<1>1. 2 * CPU!Half(w.op) - 1 \in Int
  BY HalfPositive
<1>2. [w EXCEPT !.imm = x] \in OutWords
  BY <1>1 DEF Fitting, OutWords
<1>3. [w EXCEPT !.imm = x].op = w.op /\ [w EXCEPT !.imm = x].imm = x
  BY DEF Fitting, OutWords
<1> QED BY <1>2, <1>3 DEF Fitting, FieldFits

\* One word in place of the instruction.
LEMMA OneKeeps ==
  ASSUME IInv, in < Count, NEW w \in Fitting, NEW spot \in Nat,
         NEW waits \in SUBSET [at : 1..Len(out) + 1, to : in + 1..Count - 1],
         Move(<<w>>, 1, spot, waits)
  PROVE  IInv'
<1> DEFINE ws == <<w>>
<1>1. ws \in Seq(Fitting) /\ Len(ws) = 1
  BY OneWord
<1>2. Move(ws, 1, spot, waits)
  OBVIOUS
<1> HIDE DEF ws
<1>3. Len(ws) <= 9 /\ waits \in SUBSET [at : 1..Len(out) + Len(ws), to : in + 1..Count - 1]
  BY <1>1
<1> QED BY <1>1, <1>2, <1>3, MoveKeeps

LEMMA NearKeeps ==
  ASSUME IInv, in < Count, NEW to \in Int, Near(to)
  PROVE  IInv'
<1> DEFINE w == [Now EXCEPT !.imm = Field(Now.op, NearOffset(to))]
<1>1. w \in Fitting
  BY NowFacts, NearOffsetInt, PatchedFits
<1>2. OutAddr \in Nat
  BY NowFacts
<1>3. Waits(to) \in SUBSET [at : 1..Len(out) + 1, to : in + 1..Count - 1]
  BY WaitsFact
<1>4. Move(<<w>>, 1, OutAddr, Waits(to))
  BY DEF Near
<1> HIDE DEF w
<1> QED BY <1>1, <1>2, <1>3, <1>4, OneKeeps

\* A sequence that replaces an instruction, behind its padding.
LEMMA FarKeeps ==
  ASSUME IInv, in < Count, NEW k \in 0..3,
         NEW ws \in Seq(Fitting), NEW m \in 0..6, Len(ws) = m,
         NEW due, NEW spot \in Nat, Move(Nops(k) \o ws, due, spot, {})
  PROVE  IInv'
<1>1. m \in Nat /\ k + m <= 9
  OBVIOUS
<1>2. Nops(k) \o ws \in Seq(Fitting) /\ Len(Nops(k) \o ws) = k + m
  BY <1>1, PaddedFits
<1>3. Len(Nops(k) \o ws) <= 9
  BY <1>1, <1>2
<1>4. {} \in SUBSET [at : 1..Len(out) + Len(Nops(k) \o ws), to : in + 1..Count - 1]
  OBVIOUS
<1> QED BY <1>2, <1>3, <1>4, MoveKeeps

LEMMA BranchKeeps == IInv /\ FixBranch => IInv'
<1> SUFFICES ASSUME IInv, FixBranch PROVE IInv'
  OBVIOUS
<1>1. in < Count
  BY DEF FixBranch, Fixing
<1>2. BranchTarget \in Int
  BY <1>1, NowFacts, SignedInt, WidthAssumption DEF BranchTarget
<1>3. OutAddr \in Nat
  BY <1>1, NowFacts
<1>4. CASE TooFar(BranchTarget, H26) /\ Now.op = "b"
  <2> DEFINE k == Padding(2, 2)
  <2>1. k \in 0..1
    BY PaddingPair
  <2>2. FarJump(BranchTarget) \in Seq(Fitting) /\ Len(FarJump(BranchTarget)) = 4
    BY <1>2, FarFits
  <2>3. Move(Nops(k) \o FarJump(BranchTarget), k + 4, OutAddr + k, {})
    BY <1>4 DEF FixBranch
  <2> HIDE DEF k
  <2>4. OutAddr + k \in Nat /\ k \in 0..3
    BY <1>3, <2>1
  <2> QED BY <1>1, <2>2, <2>3, <2>4, FarKeeps
<1>5. CASE TooFar(BranchTarget, H26) /\ Now.op # "b"
  <2> DEFINE k == Padding(3, 2)
  <2>1. k \in 0..1
    BY PaddingPair
  <2>2. FarCall(BranchTarget) \in Seq(Fitting) /\ Len(FarCall(BranchTarget)) = 5
    BY <1>2, FarFits
  <2>3. Move(Nops(k) \o FarCall(BranchTarget), k + 5, OutAddr + k, {})
    BY <1>5 DEF FixBranch
  <2> HIDE DEF k
  <2>4. OutAddr + k \in Nat /\ k \in 0..3
    BY <1>3, <2>1
  <2> QED BY <1>1, <2>2, <2>3, <2>4, FarKeeps
<1>6. CASE ~TooFar(BranchTarget, H26)
  <2>1. Near(BranchTarget)
    BY <1>6 DEF FixBranch
  <2> QED BY <1>1, <1>2, <2>1, NearKeeps
<1> QED BY <1>4, <1>5, <1>6

LEMMA CondKeeps == IInv /\ FixCond => IInv'
<1> SUFFICES ASSUME IInv, FixCond PROVE IInv'
  OBVIOUS
<1>1. in < Count /\ Now.op \in {"bc", "tbz"}
  BY DEF FixCond, Fixing
<1>2. CondTarget \in Int /\ OutAddr \in Nat
  BY <1>1, NowFacts DEF CondTarget
<1>3. CASE TooFar(CondTarget, CPU!Half(Now.op))
  <2> DEFINE k == Padding(4, 2)
             v == [Now EXCEPT !.imm = 2]
             x == <<v, B(5)>>
             y == FarJump(CondTarget)
  <2>1. k \in 0..1
    BY PaddingPair
  <2>2. v \in Fitting
    <3>1. 2 \in 0..2 * CPU!Half(Now.op) - 1
      BY <1>1, WidthsReach, HalfPositive
    <3> QED BY <1>1, <3>1, NowFacts, Renewed
  <2>3. B(5) \in Fitting
    BY ShortFits
  <2>4. x \in Seq(Fitting) /\ Len(x) = 2
    BY <2>2, <2>3, PairFits
  <2>5. y \in Seq(Fitting) /\ Len(y) = 4
    BY <1>2, FarFits
  <2>6. Move(Nops(k) \o (x \o y), k + 6, OutAddr, {})
    <3>1. Move(Nops(k) \o x \o y, k + 6, OutAddr, {})
      BY <1>3 DEF FixCond
    <3>2. Nops(k) \in Seq(Fitting)
      BY <2>1, NopsFit
    <3> HIDE DEF x, y, k
    <3>3. Nops(k) \o x \o y = Nops(k) \o (x \o y)
      BY ONLY <2>4, <2>5, <3>2, ConcatAssociative, SMTT(60)
    <3> QED BY ONLY <3>1, <3>3
  <2> DEFINE z == x \o y
  <2> HIDE DEF k, x, y
  <2>7. z \in Seq(Fitting) /\ Len(z) = 6
    <3>1. z \in Seq(Fitting) /\ Len(z) = Len(x) + Len(y)
      BY ONLY <2>4, <2>5, Join
    <3> QED BY ONLY <2>4, <2>5, <3>1
  <2>8. k \in 0..3
    BY <2>1
  <2>9. Move(Nops(k) \o z, k + 6, OutAddr, {})
    BY <2>6
  <2> HIDE DEF z
  <2> QED BY <1>1, <1>2, <2>7, <2>8, <2>9, FarKeeps
<1>4. CASE ~TooFar(CondTarget, CPU!Half(Now.op))
  <2>1. Near(CondTarget)
    BY <1>4 DEF FixCond
  <2> QED BY <1>1, <1>2, <2>1, NearKeeps
<1> QED BY <1>3, <1>4

LEMMA PrefetchKeeps == IInv /\ FixPrefetch => IInv'
<1> SUFFICES ASSUME IInv, FixPrefetch PROVE IInv'
  OBVIOUS
<1>1. in < Count /\ Move(<< >>, 0, OutAddr, {})
  BY DEF FixPrefetch, Fixing
<1>2. << >> \in Seq(Fitting) /\ Len(<< >>) <= 9
  OBVIOUS
<1>3. {} \in SUBSET [at : 1..Len(out) + Len(<< >>), to : in + 1..Count - 1]
  OBVIOUS
<1> QED BY <1>1, <1>2, <1>3, NowFacts, MoveKeeps

LEMMA PlainKeeps == IInv /\ FixPlain => IInv'
<1> SUFFICES ASSUME IInv, FixPlain PROVE IInv'
  OBVIOUS
<1>1. in < Count /\ Move(<<Now>>, 1, OutAddr, {})
  BY DEF FixPlain, Fixing
<1>2. {} \in SUBSET [at : 1..Len(out) + 1, to : in + 1..Count - 1]
  OBVIOUS
<1> QED BY <1>1, <1>2, NowFacts, OneKeeps

LEMMA LiteralKeeps == IInv /\ FixLiteral => IInv'
<1> SUFFICES ASSUME IInv, FixLiteral PROVE IInv'
  OBVIOUS
<1> DEFINE to == LiteralTarget
           n  == LiteralWords
<1>1. in < Count /\ Now.op \in {"ldr", "ldrv", "ldrsw"}
  BY DEF FixLiteral, Fixing
<1>2. to \in Int
  <2>1. CPU!Signed(Now.imm, H19) \in Int
    BY <1>1, NowFacts, SignedInt, WidthAssumption
  <2>2. Int32 \in Nat \ {0}
    BY WidthAssumption
  <2>3. CPU!Signed(Now.imm, H19) % Int32 \in Int
    BY <2>1, <2>2, ModBound
  <2> QED BY <1>1, <2>3, NowFacts DEF LiteralTarget
<1>3. n \in {1, 2, 4}
  BY <1>1, NowFacts DEF LiteralWords
<1>4. OutAddr \in Nat
  BY <1>1, NowFacts
<1>5. n \in Nat \ {0} /\ n <= 4
  BY <1>3
<1>6. CASE InWindow(to) \/ Distance(to, OutAddr) + n - 1 >= H19 - 1
  <2> DEFINE k == Padding(2, n)
             v == [Now EXCEPT !.imm = 2]
             x == <<v, B(1 + n)>>
             y == [j \in 1..n |-> Memory(to + j - 1)]
             z == x \o y
  <2>1. k \in 0..n - 1
    <3>1. 2 \in Nat
      OBVIOUS
    <3> HIDE DEF n
    <3> QED BY <1>5, <3>1, PaddingBound
  <2>2. v \in Fitting
    <3>1. 2 \in 0..2 * CPU!Half(Now.op) - 1
      BY <1>1, WidthsReach, HalfPositive
    <3> QED BY <1>1, <3>1, NowFacts, Renewed
  <2>3. B(1 + n) \in Fitting
    <3>1. 1 + n \in 0..9
      BY <1>5
    <3> QED BY <3>1, ShortFits
  <2>4. x \in Seq(Fitting) /\ Len(x) = 2
    BY <2>2, <2>3, PairFits
  <2>5. y \in Seq(Fitting) /\ Len(y) = n
    <3>1. \A j \in 1..n : Memory(to + j - 1) \in Fitting
      <4> TAKE j \in 1..n
      <4>1. to + j - 1 \in Int
        BY <1>2, <1>5
      <4> QED BY <4>1, MemoryFits
    <3> HIDE DEF to, n
    <3>2. y \in [1..n -> Fitting]
      BY <3>1
    <3> QED BY <1>5, <3>2
  <2>6. Move(Nops(k) \o z, k + 1, OutAddr + k, {})
    <3>1. Move(Nops(k) \o x \o y, k + 1, OutAddr + k, {})
      BY <1>6 DEF FixLiteral
    <3>2. k \in Nat
      BY <1>5, <2>1
    <3>3. Nops(k) \in Seq(Fitting)
      BY <3>2, NopsFit
    <3> HIDE DEF x, y, k
    <3>4. Nops(k) \o x \o y = Nops(k) \o z
      BY ONLY <2>4, <2>5, <3>3, ConcatAssociative, SMTT(60)
    <3> QED BY ONLY <3>1, <3>4
  <2> HIDE DEF k, x, y, n
  <2>7. z \in Seq(Fitting) /\ Len(z) = 2 + n
    <3>1. z \in Seq(Fitting) /\ Len(z) = Len(x) + Len(y)
      BY ONLY <2>4, <2>5, Join
    <3> QED BY ONLY <2>4, <2>5, <3>1
  <2> HIDE DEF z
  <2>8. k \in 0..3 /\ 2 + n \in 0..6 /\ OutAddr + k \in Nat
    BY <1>4, <1>5, <2>1
  <2> QED BY <1>1, <2>6, <2>7, <2>8, FarKeeps
<1>7. CASE ~(InWindow(to) \/ Distance(to, OutAddr) + n - 1 >= H19 - 1)
  <2> DEFINE k == (to - OutAddr) % n
             d == to - OutAddr - k
             m == Masked(Now, d)
             v == [m EXCEPT !.imm = Field(Now.op, d)]
             w == <<v>>
  <2>1. k \in 0..n - 1
    <3>1. to - OutAddr \in Int
      BY <1>2, <1>4
    <3> HIDE DEF n, to
    <3> QED BY <1>5, <3>1, ModBound
  <2>2. d \in Int /\ k \in 0..3
    BY <1>2, <1>4, <1>5, <2>1
  <2>3. /\ m \in OutWords /\ m.op \in {Now.op, "udf"}
        /\ Now.op \in {"ldr", "ldrv", "ldrsw"}
    <3> HIDE DEF d
    <3> QED BY <1>1, NowFacts DEF Masked, Fitting, OutWords, OutOps
  <2>4. Field(Now.op, d) \in 0..2 * CPU!Half(m.op) - 1 /\ Field(Now.op, d) \in Int
    <3>1. CPU!Half(m.op) = CPU!Half(Now.op)
      BY <2>3 DEF CPU!Half
    <3>2. Field(Now.op, d) \in 0..2 * CPU!Half(Now.op) - 1
      BY <2>2, FieldBound
    <3>3. 2 * CPU!Half(Now.op) - 1 \in Int
      BY HalfPositive
    <3> HIDE DEF d, m
    <3> QED BY <3>1, <3>2, <3>3
  <2>5. v \in Fitting
    <3> HIDE DEF d, m
    <3>1. v \in OutWords /\ v.op = m.op /\ v.imm = Field(Now.op, d)
      BY <2>3, <2>4 DEF OutWords
    <3> QED BY <2>4, <3>1 DEF Fitting, FieldFits
  <2>6. Move(Nops(k) \o w, k + 1, OutAddr + k, {})
    BY <1>7 DEF FixLiteral
  <2>7. w \in Seq(Fitting) /\ Len(w) = 1
    BY <2>5, OneWord
  <2> HIDE DEF k, w
  <2>8. OutAddr + k \in Nat
    BY <1>4, <2>2
  <2> QED BY <1>1, <2>2, <2>6, <2>7, <2>8, FarKeeps
<1> QED BY <1>6, <1>7

LEMMA AdrKeeps == IInv /\ FixAdr => IInv'
<1> SUFFICES ASSUME IInv, FixAdr PROVE IInv'
  OBVIOUS
<1> DEFINE to == AdrTarget \div 4
<1>1. in < Count /\ Now.op = "adr"
  BY DEF FixAdr, Fixing
<1>2. AdrTarget \in Int
  <2>1. CPU!Signed(Now.imm, H19) \in Int
    BY <1>1, NowFacts, SignedInt, WidthAssumption
  <2>2. Int32 \in Nat \ {0}
    BY WidthAssumption
  <2>3. CPU!Signed(Now.imm, H19) % Int32 \in Int
    BY <2>1, <2>2, ModBound
  <2> QED BY <1>1, <2>3, NowFacts DEF AdrTarget
<1>3. to \in Int /\ OutAddr \in Nat
  BY <1>1, <1>2, NowFacts
<1>4. CASE ~InWindow(to) /\ Distance(AdrTarget, 4 * OutAddr) >= 4 * H19 - 1
  <2> DEFINE k == Padding(2, 2)
             z == FarLoad(Now.rd, AdrTarget)
  <2>1. k \in 0..1
    BY PaddingPair
  <2>2. z \in Seq(Fitting) /\ Len(z) = 4
    BY <1>1, <1>2, NowFacts, FarFits
  <2>3. Move(Nops(k) \o z, k + 1, OutAddr + k, {})
    BY <1>4 DEF FixAdr
  <2> HIDE DEF k, z
  <2>4. OutAddr + k \in Nat /\ k \in 0..3
    BY <1>3, <2>1
  <2> QED BY <1>1, <2>2, <2>3, <2>4, FarKeeps
<1>5. CASE ~(~InWindow(to) /\ Distance(AdrTarget, 4 * OutAddr) >= 4 * H19 - 1)
  <2> DEFINE low == IF InWindow(to) THEN 0 ELSE Now.lo
             f == Field("adr", NearOffset(to))
             r == Smudged(Now.rd, low)
             v == [Now EXCEPT !.imm = f, !.rd = r]
  <2>1. f \in 0..2 * CPU!Half("adr") - 1 /\ f \in Int
    <3>1. f \in 0..2 * CPU!Half("adr") - 1
      BY <1>1, <1>3, NearOffsetInt, FieldBound
    <3>2. 2 * CPU!Half("adr") - 1 \in Int
      BY HalfPositive
    <3> QED BY <3>1, <3>2
  <2>2. r \in Nat
    <3>1. Now.rd \in Nat
      BY <1>1, NowFacts
    <3>2. Now.rd % 8 \in Nat
      BY <3>1
    <3>3. OrBits(Now.rd \div 8, low) \in Nat
      BY DEF OrBits
    <3> QED BY <3>2, <3>3 DEF Smudged
  <2>3. v \in Fitting
    <3>1. Now \in Fitting
      BY <1>1, NowFacts
    <3> HIDE DEF f, r
    <3>2. v \in OutWords /\ v.op = "adr" /\ v.imm = f
      BY <1>1, <2>1, <2>2, <3>1 DEF Fitting, OutWords
    <3> QED BY <2>1, <3>2 DEF Fitting, FieldFits
  <2>4. Waits(to) \in SUBSET [at : 1..Len(out) + 1, to : in + 1..Count - 1]
    BY <1>1, <1>3, WaitsFact
  <2>5. Move(<<v>>, 1, OutAddr, Waits(to))
    BY <1>5 DEF FixAdr
  <2> HIDE DEF v, to
  <2> QED BY <1>1, <1>3, <2>3, <2>4, <2>5, OneKeeps
<1> QED BY <1>4, <1>5

LEMMA AdrpKeeps == IInv /\ FixAdrp => IInv'
<1> SUFFICES ASSUME IInv, FixAdrp PROVE IInv'
  OBVIOUS
<1>1. in < Count /\ Now.op = "adrp"
  BY DEF FixAdrp, Fixing
<1>2. OutAddr \in Nat /\ OutAddr + RwShift \in Nat
  BY <1>1, NowFacts, WidthAssumption
<1>3. AdrpTarget \in Int
  <2>1. PageWords \in Nat \ {0} /\ Int32 \in Nat \ {0} /\ InAddr \in Nat
    BY <1>1, NowFacts, WidthAssumption
  <2>2. CPU!Signed(Now.imm, H21) \in Int
    BY <1>1, NowFacts, SignedInt, WidthAssumption
  <2>3. PageWords * CPU!Signed(Now.imm, H21) \in Int
    BY <2>1, <2>2
  <2>4. (PageWords * CPU!Signed(Now.imm, H21)) % Int32 \in Int
    BY <2>1, <2>3, ModBound
  <2>5. InAddr % PageWords \in Int
    BY <2>1, ModBound
  <2> QED BY <2>1, <2>4, <2>5 DEF AdrpTarget
<1>4. CASE InWindow(AdrpTarget)
  <2>1. Move(<<Now>>, 1, OutAddr + RwShift, {})
    BY <1>4 DEF FixAdrp
  <2>2. {} \in SUBSET [at : 1..Len(out) + 1, to : in + 1..Count - 1]
    OBVIOUS
  <2>3. Now \in Fitting
    BY <1>1, NowFacts
  <2> QED BY <1>1, <1>2, <2>1, <2>2, <2>3, OneKeeps
<1>5. CASE ~InWindow(AdrpTarget)
  <2> DEFINE k == Padding(2, 2)
             z == FarLoad(Now.rd, 4 * AdrpTarget)
             spot == IF k = 0 THEN OutAddr + RwShift ELSE OutAddr + k
  <2>1. k \in 0..1
    BY PaddingPair
  <2>2. z \in Seq(Fitting) /\ Len(z) = 4
    BY <1>1, <1>3, NowFacts, FarFits, SMTT(60)
  <2>3. Move(Nops(k) \o z, k + 1, spot, {})
    BY <1>5 DEF FixAdrp
  <2> HIDE DEF k, z
  <2>4. spot \in Nat /\ k \in 0..3
    BY <1>2, <2>1
  <2> HIDE DEF spot
  <2> QED BY <1>1, <2>2, <2>3, <2>4, FarKeeps
<1> QED BY <1>4, <1>5

\* The way back takes five words at most.
LEMMA ReturnKeeps == IInv /\ Return => IInv'
<1> SUFFICES ASSUME IInv, Return PROVE IInv'
  OBVIOUS
<1>1. /\ code \in Windows /\ outBase \in Nat /\ in = Count /\ Count \in 1..MaxInstructions
      /\ out \in Seq(Fitting) /\ org \in Seq(Nat) /\ Len(org) = Len(out)
      /\ dat \in [1..MaxInstructions -> Nat]
      /\ \A k \in 1..Len(org) : org[k] \in 0..Count
      /\ fmap \subseteq [at : 1..Len(out), to : in..Count - 1]
      /\ Len(out) <= 9 * Count
  BY WindowFacts DEF IInv, Return, Bound
<1>2. OutAddr \in Nat /\ Callback \in Nat
  BY <1>1, WidthAssumption DEF OutAddr, Callback
<1> DEFINE w == WayBack
<1>3. w \in Seq(Fitting) /\ Len(w) \in 0..5
  <2>1. CASE Distance(Callback, OutAddr) >= H26 - 1
    <3> DEFINE k == Padding(2, 2)
               z == FarJump(Callback)
    <3>1. k \in 0..1
      BY PaddingPair
    <3>2. z \in Seq(Fitting) /\ Len(z) = 4
      BY <1>2, FarFits
    <3>3. w = Nops(k) \o z
      BY <2>1 DEF WayBack
    <3> HIDE DEF k, z, w
    <3>4. k \in 0..3 /\ 4 \in Nat
      BY <3>1
    <3>5. w \in Seq(Fitting) /\ Len(w) = k + 4
      BY <3>2, <3>3, <3>4, PaddedFits
    <3> QED BY <3>1, <3>5
  <2>2. CASE ~(Distance(Callback, OutAddr) >= H26 - 1)
    <3> DEFINE f == Field("b", Callback - OutAddr)
    <3>1. f \in 0..2 * CPU!Half("b") - 1
      BY <1>2, FieldBound
    <3>2. 2 * CPU!Half("b") - 1 \in Int
      BY HalfPositive
    <3> HIDE DEF f
    <3>3. B(f) \in Fitting
      BY <3>1, <3>2 DEF B, Fitting, OutWords, OutOps, InOps, FieldFits, CPU!Word
    <3>4. w = <<B(f)>>
      BY <2>2 DEF WayBack, f
    <3> QED BY <3>3, <3>4, OneWord
  <2> QED BY <2>1, <2>2
<1> DEFINE tail == [k \in 1..Len(w) |-> Count]
<1>4. /\ out' = out \o w /\ org' = org \o tail /\ in' = in + 1 /\ code' = code
      /\ outBase' = outBase /\ dat' = dat /\ fmap' = fmap
  BY DEF Return
<1> HIDE DEF w
<1>5. Count' = Count
  BY <1>4 DEF Count
<1>6. out' \in Seq(Fitting) /\ Len(out') = Len(out) + Len(w)
  BY <1>1, <1>3, <1>4
<1>7. tail \in Seq(Nat) /\ Len(tail) = Len(w) /\ \A k \in 1..Len(w) : tail[k] \in 0..Count
  BY <1>1, <1>3
<1> HIDE DEF tail
<1>8. org' \in Seq(Nat) /\ Len(org') = Len(out')
  <2>1. org \o tail \in Seq(Nat) /\ Len(org \o tail) = Len(org) + Len(tail)
    BY ONLY <1>1, <1>7, Join
  <2> QED BY ONLY <1>1, <1>4, <1>6, <1>7, <2>1
<1>9. \A k \in 1..Len(org') : org'[k] \in 0..Count
  BY <1>1, <1>4, <1>7
<1>10. fmap' \subseteq [at : 1..Len(out'), to : in'..Count - 1]
  <2>1. fmap = {}
    BY <1>1
  <2> QED BY <1>4, <2>1
<1>11. Len(out') <= Bound(in', Count)
  <2>1. Len(out') <= 9 * Count + 5
    <3> DEFINE a == Len(out)
               b == Len(w)
               c == Len(out')
    <3>1. a \in Nat /\ a <= 9 * Count /\ b \in 0..5 /\ Count \in Nat /\ c = a + b
      BY <1>1, <1>3, <1>6
    <3> HIDE DEF a, b, c
    <3>2. c <= 9 * Count + 5
      BY ONLY <3>1
    <3> QED BY <3>2 DEF c
  <2>2. in' = Count + 1 /\ Count \in Nat
    BY <1>1, <1>4
  <2>3. ~(in' <= Count)
    BY <2>2
  <2>4. Bound(in', Count) = 9 * Count + 5
    BY <2>3 DEF Bound
  <2> QED BY <2>1, <2>4
<1>12. in' \in 0..Count + 1
  BY <1>1, <1>4
<1> QED
  BY <1>1, <1>4, <1>5, <1>6, <1>8, <1>9, <1>10, <1>11, <1>12 DEF IInv

\* The processor writes no word.
LEMMA RunKeeps == IInv /\ Run => IInv'
<1> SUFFICES ASSUME IInv, Run PROVE IInv'
  OBVIOUS
<1>1. code' = code /\ in' = in /\ org' = org /\ dat' = dat /\ fmap' = fmap /\ out' = out
  BY DEF Run, fixing
<1>2. outBase' = outBase
  BY DEF Run, CPU!Next, CPU!Straight, CPU!Branch, CPU!BranchLink, CPU!Conditional, CPU!Load,
         CPU!NameAddress, CPU!BranchRegister, CPU!Running
<1> QED BY <1>1, <1>2 DEF IInv, Count

LEMMA InitIInv == Init => IInv
<1> SUFFICES ASSUME Init PROVE IInv
  OBVIOUS
<1>1. /\ code \in Windows /\ outBase \in Nat /\ in = 0 /\ out = << >> /\ org = << >> /\ fmap = {}
      /\ dat = [k \in 1..MaxInstructions |-> 0]
  BY PlaceAssumption DEF Init
<1>2. Count \in 1..MaxInstructions
  BY <1>1, WindowFacts
<1> QED BY <1>1, <1>2 DEF IInv, Bound

LEMMA StepIInv == IInv /\ [Next]_vars => IInv'
<1> SUFFICES ASSUME IInv, [Next]_vars PROVE IInv'
  OBVIOUS
<1>1. CASE Fix
  BY <1>1, BranchKeeps, CondKeeps, PrefetchKeeps, LiteralKeeps, AdrKeeps, AdrpKeeps, PlainKeeps DEF Fix
<1>2. CASE Return
  BY <1>2, ReturnKeeps
<1>3. CASE Run
  BY <1>3, RunKeeps
<1>4. CASE UNCHANGED vars
  BY <1>4 DEF vars, fixing, IInv, Count
<1> QED BY <1>1, <1>2, <1>3, <1>4 DEF Next

THEOREM Invariance == Spec => []IInv
BY InitIInv, StepIInv, PTL DEF Spec

\* The fields that the fixers write fit their widths, each word of the trampoline
\* belongs to an instruction, and no branch waits for one that has been passed:
\* process_fix_map has completed them all when the conversion ends.
THEOREM TypeCorrect == Spec => []TypeOK
<1>1. IInv => TypeOK
  <2> SUFFICES ASSUME IInv PROVE TypeOK
    OBVIOUS
  <2>1. \A k \in 1..Len(out) : out[k] \in Fitting
    BY DEF IInv
  <2>2. \A k \in 1..Len(out) : FieldFits(out[k])
    BY <2>1 DEF Fitting
  <2> QED BY <2>2 DEF IInv, TypeOK
<1> QED BY <1>1, Invariance, PTL

\* A trampoline stays in its row of the pool, whatever the window holds and
\* wherever the row starts: nine words at most for each instruction and five for
\* the way back.  It needs MaxInstructions >= 5, which line 564 asserts.
THEOREM RowIsEnough == Spec => []RowSound
<1>1. IInv => FitsRow
  <2> SUFFICES ASSUME IInv PROVE FitsRow
    OBVIOUS
  <2>1. /\ in \in 0..Count + 1 /\ Count \in 1..MaxInstructions /\ Len(out) \in Nat
        /\ Len(out) <= Bound(in, Count)
    BY WindowFacts DEF IInv
  <2>2. Bound(in, Count) <= 9 * Count + 5
    BY <2>1 DEF Bound
  <2>3. 9 * Count + 5 <= 10 * MaxInstructions
    BY <2>1, RowAssumption
  <2> QED BY <2>1, <2>2, <2>3, RowAssumption DEF FitsRow, Bound
<1>2. TypeOK /\ FitsRow => RowSound
  BY DEF RowSound
<1> QED BY <1>1, <1>2, Invariance, TypeCorrect, PTL

-----------------------------------------------------------------------------
(* A set of numbers that is bounded and not empty has a greatest one.      *)
LEMMA GreatestNumber ==
  ASSUME NEW n \in Nat, NEW T, T \subseteq 1..n, T # {}
  PROVE  \E m \in T : \A k \in T : k <= m
<1> DEFINE R == StrictSubsetOrdering(Nat)
<1> DEFINE U == {1..n-m : m \in T}
<1>1. IsWellFoundedOn(R, FiniteSubsetsOf(Nat))
  BY FS_StrictSubsetOrderingWellFounded
<1>2. U \subseteq FiniteSubsetsOf(Nat) /\ U # {}
  <2>1. ASSUME NEW m \in T PROVE 1..n-m \in FiniteSubsetsOf(Nat)
    <3>1. IsFiniteSet(1..n-m)
      BY FS_Interval
    <3>2. 1..n-m \subseteq Nat
      OBVIOUS
    <3> QED BY <3>1, <3>2 DEF FiniteSubsetsOf
  <2> QED BY <2>1
<1>3. \E x \in U : \A y \in U : ~ (<<y, x>> \in R)
  <2> HIDE DEF R, U
  <2> QED BY <1>1, <1>2, WFMin, Zenon
<1>4. PICK m \in T : \A k \in T : ~ (<<1..n-k, 1..n-m>> \in R)
  BY <1>3
<1>5. ASSUME NEW k \in T, m < k PROVE FALSE
  <2>0. k \in 1..n /\ m \in 1..n
    OBVIOUS
  <2>1. n - m \in 1..n-m /\ n - m \notin 1..n-k
    BY <1>5, <2>0
  <2>2. 1..n-k \subseteq 1..n-m
    BY <1>5, <2>0
  <2>3. <<1..n-k, 1..n-m>> \in R
    BY <2>1, <2>2 DEF StrictSubsetOrdering
  <2> QED BY <1>4, <2>3
<1>6. ASSUME NEW k \in T PROVE k <= m
  <2> k \in 1..n /\ m \in 1..n
    OBVIOUS
  <2> QED BY <1>5, <1>6
<1> QED BY <1>6

LEMMA LeastNumber ==
  ASSUME NEW n \in Nat, NEW T, T \subseteq 0..n, T # {}
  PROVE  \E m \in T : \A k \in T : m <= k
<1> DEFINE U == {n + 1 - k : k \in T}
<1>1. U \subseteq 1..n+1 /\ U # {} /\ n + 1 \in Nat
  <2>1. ASSUME NEW k \in T PROVE n + 1 - k \in 1..n+1
    <3>1. k \in 0..n
      OBVIOUS
    <3> QED BY <3>1
  <2>2. n + 1 \in Nat
    OBVIOUS
  <2> QED BY ONLY <2>1, <2>2, T # {} DEF U
<1> HIDE DEF U
<1>2. PICK u \in U : \A x \in U : x <= u
  BY <1>1, GreatestNumber
<1>3. PICK m \in T : u = n + 1 - m
  BY DEF U
<1>4. ASSUME NEW k \in T PROVE m <= k
  <2>1. n + 1 - k \in U
    BY DEF U
  <2>2. n + 1 - k <= u
    BY <1>2, <2>1
  <2> QED BY <1>3, <2>2
<1> QED BY <1>4

-----------------------------------------------------------------------------
(* Prefetches are passed over.                                             *)
OpAt(i) == IF i < Count THEN code[i + 1].op ELSE "mem"
Same(i, j) == Old!Past(Base + i) = Old!Past(Base + j)

LEMMA FetchIs ==
  ASSUME code \in Windows, NEW i \in 0..Count
  PROVE  /\ Old!Fetch(Base + i).op = OpAt(i)
         /\ i < Count => Old!Fetch(Base + i) = code[i + 1] /\ Old!Inside(Base + i)
<1>1. Count \in 1..MaxInstructions /\ Base \in Nat
  BY WindowFacts, WidthAssumption
<1> QED BY <1>1, RowAssumption DEF Old!Fetch, Old!Inside, OpAt, Count, Old!Word

LEMMA PastStays ==
  ASSUME NEW a, Old!Fetch(a).op # "prfm"
  PROVE  Old!Past(a) = a
  BY DEF Old!Past

LEMMA PastOutside ==
  ASSUME NEW a, ~InWindow(a), code \in Windows, a \in Int
  PROVE  Old!Past(a) = a /\ \A b : Old!Fetch(a) = CPU!Word("mem", a, 0, 0, 0)
<1>1. Count \in 1..MaxInstructions /\ Base \in Nat
  BY WindowFacts, WidthAssumption
<1>2. ~Old!Inside(a)
  BY <1>1 DEF Old!Inside, InWindow, Count
<1>3. Old!Fetch(a) = CPU!Word("mem", a, 0, 0, 0)
  BY <1>2 DEF Old!Fetch, Old!Word, CPU!Word
<1> QED BY <1>3, PastStays DEF CPU!Word

LEMMA PastIsLeast ==
  ASSUME code \in Windows, NEW i \in 0..Count
  PROVE  \E b \in i..Count : /\ Old!Past(Base + i) = Base + b /\ OpAt(b) # "prfm"
                             /\ \A c \in i..b - 1 : OpAt(c) = "prfm"
<1>1. Count \in 1..MaxInstructions /\ Base \in Nat /\ MaxInstructions \in Nat
  BY WindowFacts, WidthAssumption, RowAssumption
<1> DEFINE T == {b \in i..Count : OpAt(b) # "prfm"}
<1>2. Count \in T /\ T \subseteq 0..Count /\ Count \in Nat
  BY <1>1 DEF OpAt
<1>3. PICK m \in T : \A k \in T : m <= k
  BY <1>2, LeastNumber
<1>4. m \in i..Count /\ OpAt(m) # "prfm" /\ \A c \in i..m - 1 : OpAt(c) = "prfm"
  BY <1>1, <1>3
<1>5. Old!Past(Base + i) = Base + m
  <2>1. CASE OpAt(i) # "prfm"
    <3>1. m = i
      BY <1>1, <1>4, <2>1
    <3> QED BY <2>1, <3>1, FetchIs, PastStays
  <2>2. CASE OpAt(i) = "prfm"
    <3> DEFINE P(b) == b \in Base + i..Base + Len(code) /\ Old!Fetch(b).op # "prfm"
                       /\ \A c \in Base + i..b - 1 : Old!Fetch(c).op = "prfm"
    <3>1. P(Base + m)
      <4>1. Base + m \in Base + i..Base + Len(code)
        BY <1>1, <1>4 DEF Count
      <4>2. Old!Fetch(Base + m).op # "prfm"
        BY <1>1, <1>4, FetchIs
      <4>3. ASSUME NEW c \in Base + i..(Base + m) - 1 PROVE Old!Fetch(c).op = "prfm"
        <5>1. c - Base \in i..m - 1 /\ c - Base \in 0..Count /\ Base + (c - Base) = c
          BY <1>1, <1>4
        <5>2. Old!Fetch(Base + (c - Base)).op = OpAt(c - Base)
          BY <5>1, FetchIs
        <5>3. OpAt(c - Base) = "prfm"
          BY <1>4, <5>1
        <5> QED BY <5>1, <5>2, <5>3
      <4> QED BY <4>1, <4>2, <4>3
    <3>2. Old!Past(Base + i) = CHOOSE b \in Base + i..Base + Len(code) :
             Old!Fetch(b).op # "prfm" /\ \A c \in Base + i..b - 1 : Old!Fetch(c).op = "prfm"
      BY <2>2, FetchIs DEF Old!Past
    <3>3. P(Old!Past(Base + i))
      BY <3>1, <3>2
    <3>4. ASSUME NEW b, P(b) PROVE b = Base + m
      <4>1. b \in Base + i..Base + Count /\ b - Base \in i..Count /\ b - Base \in 0..Count /\ Base + (b - Base) = b
        BY <1>1, <3>4 DEF Count
      <4>2. ~(b < Base + m)
        <5> SUFFICES ASSUME b < Base + m PROVE FALSE
          OBVIOUS
        <5>1. b - Base \in i..m - 1
          BY <1>1, <1>4, <4>1
        <5>2. OpAt(b - Base) = Old!Fetch(b).op
          BY <4>1, FetchIs
        <5> QED BY <1>4, <3>4, <5>1, <5>2
      <4>3. ~(Base + m < b)
        <5> SUFFICES ASSUME Base + m < b PROVE FALSE
          OBVIOUS
        <5>1. Base + m \in Base + i..b - 1
          BY <1>1, <1>4, <4>1
        <5>2. Old!Fetch(Base + m).op # "prfm"
          BY <3>1
        <5> QED BY <3>4, <5>1, <5>2
      <4> QED BY <1>1, <1>4, <4>1, <4>2, <4>3
    <3> QED BY <3>3, <3>4
  <2> QED BY <2>1, <2>2
<1> QED BY <1>4, <1>5

LEMMA SamePast ==
  ASSUME code \in Windows, NEW i \in 0..Count - 1, code[i + 1].op = "prfm"
  PROVE  Same(i, i + 1)
<1>1. Count \in 1..MaxInstructions /\ Base \in Nat /\ MaxInstructions \in Nat
  BY WindowFacts, WidthAssumption, RowAssumption
<1>2. i \in 0..Count /\ i + 1 \in 0..Count /\ OpAt(i) = "prfm"
  BY <1>1 DEF OpAt
<1>3. PICK b \in i..Count : /\ Old!Past(Base + i) = Base + b /\ OpAt(b) # "prfm"
                            /\ \A c \in i..b - 1 : OpAt(c) = "prfm"
  BY <1>2, PastIsLeast
<1>4. PICK d \in i + 1..Count : /\ Old!Past(Base + (i + 1)) = Base + d /\ OpAt(d) # "prfm"
                                /\ \A c \in i + 1..d - 1 : OpAt(c) = "prfm"
  BY <1>2, PastIsLeast
<1>5. b # i
  BY <1>2, <1>3
<1>6. b = d
  BY <1>1, <1>2, <1>3, <1>4, <1>5
<1> QED BY <1>3, <1>4, <1>6 DEF Same

-----------------------------------------------------------------------------
(* The shape of a trampoline.                                              *)
Index(m) == IF m <= Len(out) THEN org[m] ELSE in
Leads(m, j, S) == m \in S /\ Same(Index(m), j)
AddrOf(k) == outBase + k - 1
Aim(k) == AddrOf(k) + CPU!Signed(out[k].imm, CPU!Half(out[k].op))
Reaches(a, to, S) == IF InWindow(to) THEN Leads(a - outBase + 1, to - Base, S) ELSE a = to
Awaits(k, to) == [at |-> k, to |-> to - Base] \in fmap

NamedBy(i) == IF code[i + 1].op = "adrp" THEN 4 * PageOf(code, i)
              ELSE 4 * Label(code, i) + code[i + 1].lo
Room(w) == IF w.op = "ldrsw" THEN 2 ELSE w.n
Copy(a, n) == [j \in 1..n |-> Memory(a + j - 1)]
Replaceable == {"adr", "adrp"} \cup JumpOps \cup LoadOps
Sequel(i) ==
  LET w  == code[i + 1]
      to == Label(code, i)
  IN CASE w.op = "b" -> FarJump(to)
       [] w.op = "bl" -> FarCall(to)
       [] w.op \in {"bc", "tbz"} -> <<[w EXCEPT !.imm = 2], B(5)>> \o FarJump(to)
       [] w.op \in LoadOps -> <<[w EXCEPT !.imm = 2], B(1 + Room(w))>> \o Copy(to, Room(w))
       [] w.op \in {"adr", "adrp"} -> FarLoad(w.rd, NamedBy(i))
DueOf(i) == IF code[i + 1].op \in JumpOps THEN Len(Sequel(i)) ELSE 1

Holds(k, ws, due, S) ==
  /\ k + Len(ws) - 1 <= Len(out)
  /\ \A x \in 1..Len(ws) : out[k + x - 1] = ws[x]
  /\ \A x \in 1..Len(ws) : org[k + x - 1] = IF x <= due THEN org[k] ELSE org[k] + 1
  /\ \A x \in 1..Len(ws) - 1 : k + x \notin S

\* The literal of the sequence for i: so many words behind its first, at a
\* multiple of so many words.
LiteralAt(i)   == CASE code[i + 1].op = "bl" -> 3
                    [] code[i + 1].op \in {"bc", "tbz"} -> 4
                    [] OTHER -> 2
LiteralSize(i) == IF code[i + 1].op \in LoadOps THEN code[i + 1].n ELSE 2
Lies(k, off, n) == (AddrOf(k) + off) % n = 0

FarCore(k, S) ==
  /\ org[k] < Count /\ code[org[k] + 1].op \in Replaceable
  /\ Holds(k, Sequel(org[k]), DueOf(org[k]), S)
  /\ Leads(k + Len(Sequel(org[k])), org[k] + 1, S)
  /\ Lies(k, LiteralAt(org[k]), LiteralSize(org[k]))

Targeted(k, i, S) ==
  \/ InWindow(Label(code, i)) /\ Awaits(k, Label(code, i))
  \/ Reaches(Aim(k), Label(code, i), S)
NearWord(k, i, S) ==
  LET w == code[i + 1]
  IN /\ out[k].op = w.op
     /\ w.op \in {"plain", "adr"} \cup JumpOps \cup LoadOps
     /\ w.op \in {"adr"} \cup JumpOps => Targeted(k, i, S)
     /\ w.op = "adr" => out[k].rd = w.rd /\ out[k].lo = w.lo
     /\ w.op \in LoadOps => /\ out[k].rd = w.rd /\ out[k].n = w.n
                            /\ Aim(k) = Label(code, i) /\ ~InWindow(Label(code, i))
NearCore(k, S) == org[k] < Count /\ NearWord(k, org[k], S) /\ Leads(k + 1, org[k] + 1, S)

BackCore(k, S) ==
  /\ org[k] = Count
  /\ \/ out[k].op = "b" /\ Aim(k) = Callback
     \/ Holds(k, FarJump(Callback), 4, S) /\ Lies(k, 2, 2)

PadCore(k, S) == out[k] = Nop /\ k < Len(out) /\ k + 1 \in S /\ org[k + 1] = org[k]

Opens(k, S) == PadCore(k, S) \/ NearCore(k, S) \/ FarCore(k, S) \/ BackCore(k, S)

Waiting(f, S) ==
  /\ f.at \in S /\ f.at + 1 \in S
  /\ org[f.at] < Count
  /\ code[org[f.at] + 1].op \in {"adr"} \cup JumpOps
  /\ out[f.at].op = code[org[f.at] + 1].op
  /\ Label(code, org[f.at]) = Base + f.to
  /\ code[f.to + 1].op # "adrp"

ShapeInv(S) ==
  /\ S \subseteq 1..Len(out) + 1
  /\ (Len(out) + 1 \in S) <=> in <= Count
  /\ Leads(1, 0, S)
  /\ \A k \in S : k <= Len(out) => Opens(k, S) /\ OpAt(org[k]) # "prfm"
  /\ \A j \in 0..Count - 1 : j < in /\ code[j + 1].op # "adrp" => Leads(dat[j + 1] - outBase + 1, j, S)
  /\ \A f \in fmap : Waiting(f, S)

-----------------------------------------------------------------------------
(* What a fixer's words are, and what it leaves of those before.           *)
Moved(ws, due, spot, waits) ==
  /\ in' = in + 1 /\ code' = code /\ outBase' = outBase /\ Count' = Count
  /\ Len(ws) \in Nat /\ Len(out) \in Nat
  /\ Len(out') = Len(out) + Len(ws)
  /\ dat' = [dat EXCEPT ![in + 1] = spot]
  /\ fmap' = {f \in fmap : f.to # in} \cup waits
  /\ \A k \in 1..Len(out) :
       /\ org'[k] = org[k]
       /\ out'[k] = IF [at |-> k, to |-> in] \in fmap
                    THEN [out[k] EXCEPT !.imm = Field(out[k].op, spot - AddrOf(k))]
                    ELSE out[k]
  /\ \A x \in 1..Len(ws) :
       /\ org'[Len(out) + x] = IF x <= due THEN in ELSE in + 1
       /\ out'[Len(out) + x] = ws[x]

LEMMA MoveIs ==
  ASSUME IInv, in < Count, NEW ws \in Seq(Fitting), NEW due, NEW spot \in Nat, NEW waits,
         Move(ws, due, spot, waits)
  PROVE  Moved(ws, due, spot, waits)
<1> DEFINE tail == [k \in 1..Len(ws) |-> IF k <= due THEN in ELSE in + 1]
<1>1. /\ out \in Seq(Fitting) /\ org \in Seq(Nat) /\ Len(org) = Len(out) /\ outBase \in Nat
      /\ fmap \subseteq [at : 1..Len(out), to : in..Count - 1] /\ in \in Nat /\ Count \in Nat
  BY WindowFacts DEF IInv
<1>2. /\ out' = Completed(out \o ws, spot) /\ org' = org \o tail
      /\ dat' = [dat EXCEPT ![in + 1] = spot]
      /\ fmap' = {f \in fmap : f.to # in} \cup waits
      /\ in' = in + 1 /\ code' = code /\ outBase' = outBase
  BY DEF Move
<1>3. Count' = Count
  BY <1>2 DEF Count
<1>4. out \o ws \in Seq(Fitting) /\ Len(out \o ws) = Len(out) + Len(ws) /\ Len(ws) \in Nat /\ Len(out) \in Nat
  BY <1>1
<1>5. /\ \A k \in 1..Len(out) : (out \o ws)[k] = out[k]
      /\ \A x \in 1..Len(ws) : (out \o ws)[Len(out) + x] = ws[x]
  BY <1>1
<1>6. /\ Len(out') = Len(out) + Len(ws)
      /\ \A k \in 1..Len(out) + Len(ws) :
           out'[k] = IF [at |-> k, to |-> in] \in fmap
                     THEN [(out \o ws)[k] EXCEPT !.imm = Field((out \o ws)[k].op, spot - (outBase + k - 1))]
                     ELSE (out \o ws)[k]
  <2> DEFINE o == out \o ws
  <2>1. o \in Seq(Fitting) /\ Len(o) = Len(out) + Len(ws)
    BY <1>4
  <2> HIDE DEF o
  <2>2. out' = Completed(o, spot)
    BY <1>2 DEF o
  <2>3. Len(out') = Len(o)
    BY <1>1, <2>1, <2>2, CompletedFits
  <2>4. \A k \in 1..Len(o) :
           out'[k] = IF [at |-> k, to |-> in] \in fmap
                     THEN [o[k] EXCEPT !.imm = Field(o[k].op, spot - (outBase + k - 1))]
                     ELSE o[k]
    BY <2>2 DEF Completed
  <2> QED BY <2>1, <2>3, <2>4 DEF o
<1>7. tail \in Seq(Nat) /\ Len(tail) = Len(ws) /\ \A x \in 1..Len(ws) : tail[x] = IF x <= due THEN in ELSE in + 1
  BY <1>1, <1>4
<1> HIDE DEF tail
<1>8. /\ \A k \in 1..Len(out) : org'[k] = org[k]
      /\ \A x \in 1..Len(ws) : org'[Len(out) + x] = tail[x]
  BY <1>1, <1>2, <1>7, SMTT(30)
<1>9. ASSUME NEW k \in 1..Len(out)
      PROVE  out'[k] = IF [at |-> k, to |-> in] \in fmap
                       THEN [out[k] EXCEPT !.imm = Field(out[k].op, spot - AddrOf(k))]
                       ELSE out[k]
  <2>1. k \in 1..Len(out) + Len(ws)
    BY <1>4
  <2> QED BY <1>5, <1>6, <2>1 DEF AddrOf
<1>10. ASSUME NEW x \in 1..Len(ws)
       PROVE  out'[Len(out) + x] = ws[x]
  <2>1. Len(out) + x \in 1..Len(out) + Len(ws) /\ [at |-> Len(out) + x, to |-> in] \notin fmap
    BY <1>1, <1>4
  <2> QED BY <1>5, <1>6, <2>1
<1> QED BY <1>2, <1>3, <1>4, <1>6, <1>7, <1>8, <1>9, <1>10 DEF Moved

(* The words up to Len(out) are those before, but for the branches that    *)
(* waited for this instruction, which is now at spot.                      *)
Extends(S, T, spot) ==
  /\ in' = in + 1 /\ code' = code /\ outBase' = outBase /\ Len(out') \in Nat /\ Len(out) <= Len(out')
  /\ \A k \in 1..Len(out) :
       /\ org'[k] = org[k]
       /\ out'[k] = IF [at |-> k, to |-> in] \in fmap
                    THEN [out[k] EXCEPT !.imm = Field(out[k].op, spot - AddrOf(k))]
                    ELSE out[k]
  /\ S \subseteq T /\ T \cap 1..Len(out) \subseteq S
  /\ \A m \in {Len(out) + 1} : Same(Index(m)', in)
  /\ \A f \in fmap : f.to # in => f \in fmap'
  /\ \A f \in fmap : f.to = in => spot \in Row(outBase) /\ \A j \in {in} : Leads(spot - outBase + 1, j, T)'

LEMMA SameStays ==
  ASSUME code' = code, NEW i, NEW j
  PROVE  Same(i, j)' <=> Same(i, j)
  BY DEF Same, Old!Past, Old!Fetch, Old!Inside, Old!Word

LEMMA LeadsStays ==
  ASSUME IInv, in \in 0..Count, NEW S, NEW T, NEW spot, Extends(S, T, spot), S \subseteq 1..Len(out) + 1,
         NEW m, NEW j, Leads(m, j, S)
  PROVE  Leads(m, j, T)'
<1>1. m \in T /\ m \in 1..Len(out) + 1 /\ Len(out) \in Nat /\ Same(Index(m), j)
  BY DEF Leads, Extends, IInv
<1>2. CASE m <= Len(out)
  <2>0. m \in 1..Len(out) /\ m <= Len(out') /\ org'[m] = org[m]
    <3>1. m \in 1..Len(out)
      BY <1>1, <1>2
    <3>2. org'[m] = org[m]
      BY <3>1 DEF Extends
    <3>3. Len(out') \in Nat /\ Len(out) <= Len(out')
      BY DEF Extends
    <3>4. m <= Len(out')
      BY <1>1, <3>1, <3>3
    <3> QED BY <3>1, <3>2, <3>4
  <2>1. Index(m)' = Index(m)
    BY <2>0 DEF Index
  <2>2. Same(Index(m), j)'
    BY <1>1, <2>1 DEF Same, Extends, Old!Past, Old!Fetch, Old!Inside, Old!Word
  <2> QED BY <1>1, <2>2 DEF Leads
<1>3. CASE m = Len(out) + 1
  <2>1. Index(m) = in
    BY <1>1, <1>3 DEF Index
  <2>2. Same(Index(m)', in) /\ Same(in, j)
    BY <1>1, <1>3, <2>1 DEF Extends
  <2>3. Same(Index(m)', j)
    BY <2>2 DEF Same
  <2>4. Same(Index(m), j)'
    BY <2>3 DEF Same, Extends, Old!Past, Old!Fetch, Old!Inside, Old!Word
  <2> QED BY <1>1, <2>4 DEF Leads
<1> QED BY <1>1, <1>2, <1>3

\* Nothing but what waits is changed.
LEMMA Unchanged ==
  ASSUME NEW S, NEW T, NEW spot, Extends(S, T, spot), ShapeInv(S), NEW k \in 1..Len(out),
         k \notin S \/ k + 1 \notin S \/ org[k] >= Count \/ out[k].op = "nop", IInv
  PROVE  out'[k] = out[k] /\ org'[k] = org[k]
<1>1. ASSUME [at |-> k, to |-> in] \in fmap PROVE FALSE
  <2>1. Waiting([at |-> k, to |-> in], S)
    BY <1>1 DEF ShapeInv
  <2>2. org[k] \in Nat /\ Count \in Nat
    BY WindowFacts DEF IInv
  <2>3. k \in S /\ k + 1 \in S /\ org[k] < Count /\ out[k].op \in {"adr"} \cup JumpOps
    BY <2>1 DEF Waiting
  <2> QED BY <2>2, <2>3 DEF JumpOps
<1> QED BY <1>1 DEF Extends

LEMMA HoldsStays ==
  ASSUME IInv, NEW S, NEW T, NEW spot, Extends(S, T, spot), ShapeInv(S), NEW k \in S, k \in 1..Len(out),
         NEW ws, NEW due \in Nat, Len(ws) \in Nat, Len(ws) > 1, Holds(k, ws, due, S)
  PROVE  Holds(k, ws, due, T)'
<1>0. Len(out) \in Nat
  BY DEF IInv
<1>1. /\ k + Len(ws) - 1 <= Len(out)
      /\ \A x \in 1..Len(ws) : out[k + x - 1] = ws[x]
      /\ \A x \in 1..Len(ws) : org[k + x - 1] = IF x <= due THEN org[k] ELSE org[k] + 1
      /\ \A x \in 1..Len(ws) - 1 : k + x \notin S
  BY DEF Holds
<1>2. ASSUME NEW x \in 1..Len(ws)
      PROVE  out'[k + x - 1] = out[k + x - 1] /\ org'[k + x - 1] = org[k + x - 1]
  <2>1. k + x - 1 \in 1..Len(out)
    BY <1>0, <1>1
  <2>2. k + x - 1 \notin S \/ (k + x - 1) + 1 \notin S
    <3>1. CASE x = 1
      <4>1. 1 \in 1..Len(ws) - 1
        OBVIOUS
      <4>2. k + 1 \notin S
        BY <1>1, <4>1
      <4> QED BY <3>1, <4>2
    <3>2. CASE x # 1
      <4>1. x - 1 \in 1..Len(ws) - 1 /\ k + (x - 1) = k + x - 1
        BY <3>2
      <4> QED BY <1>1, <4>1
    <3> QED BY <3>1, <3>2
  <2> DEFINE y == k + x - 1
  <2>3. y \in 1..Len(out) /\ (y \notin S \/ y + 1 \notin S)
    BY <2>1, <2>2
  <2> HIDE DEF y
  <2>4. out'[y] = out[y] /\ org'[y] = org[y]
    BY <2>3, Unchanged
  <2> QED BY <2>4 DEF y
<1>3. k + Len(ws) - 1 <= Len(out')
  BY <1>0, <1>1 DEF Extends
<1>4. \A x \in 1..Len(ws) - 1 : k + x \notin T
  <2> SUFFICES ASSUME NEW x \in 1..Len(ws) - 1 PROVE k + x \notin T
    OBVIOUS
  <2>1. k + x \in 1..Len(out) /\ k + x \notin S
    BY <1>0, <1>1
  <2> QED BY <2>1 DEF Extends
<1>5. org'[k] = org[k]
  BY DEF Extends
<1> QED BY <1>1, <1>2, <1>3, <1>4, <1>5 DEF Holds

-----------------------------------------------------------------------------
(* Sequences that replace an instruction.                                  *)
LEMMA NamesAre ==
  ASSUME code \in Windows, NEW i \in 0..Count - 1
  PROVE  /\ Label(code, i) \in Int /\ NamedBy(i) \in Int
         /\ code[i + 1] \in Fitting /\ code[i + 1].imm \in Nat /\ code[i + 1].rd \in Nat /\ code[i + 1].lo \in 0..3
         /\ code[i + 1].op \in LoadOps =>
              Room(code[i + 1]) \in {1, 2, 4} /\ code[i + 1].n \in 1..Room(code[i + 1])
<1>1. /\ i + 1 \in 1..Count /\ Count \in Nat /\ i + 1 \in 1..Len(code) /\ i \in Nat
      /\ PageWords \in Nat \ {0} /\ H21 \in Nat /\ Base \in Nat
  BY WindowFacts, RowAssumption, WidthAssumption DEF Count
<1> DEFINE w == code[i + 1]
<1>2. /\ w \in Fitting /\ w.imm \in Nat
      /\ w.op \in {"ldr", "ldrv", "ldrsw"} => w.n \in {1, 2, 4}
      /\ w \in InWords
  BY <1>1, WindowFacts
<1>3. w.rd \in Nat /\ w.lo \in 0..3
  BY <1>2 DEF InWords
<1> HIDE DEF w
<1>4. CPU!Signed(w.imm, CPU!Half(w.op)) \in Int /\ CPU!Signed(w.imm, H21) \in Int
  BY <1>1, <1>2, HalfPositive, SignedInt
<1>5. Label(code, i) \in Int
  BY <1>1, <1>4 DEF Label, w
<1>6. PageOf(code, i) \in Int
  <2>1. (Base + i) % PageWords \in Int
    BY <1>1, ModBound
  <2>2. PageWords * CPU!Signed(w.imm, H21) \in Int
    BY <1>1, <1>4
  <2> QED BY <1>1, <2>1, <2>2 DEF PageOf, w
<1>7. NamedBy(i) \in Int
  BY <1>3, <1>5, <1>6 DEF NamedBy, w
<1>8. w.op \in LoadOps => Room(w) \in {1, 2, 4} /\ w.n \in 1..Room(w)
  <2>2. ASSUME w.op = "ldrsw" PROVE w.n = 1
    BY <1>1, <2>2, WindowAssumption DEF w
  <2> QED BY <1>2, <2>2 DEF LoadOps, Room
<1> QED BY <1>2, <1>3, <1>5, <1>7, <1>8 DEF w

LEMMA SequelIs ==
  ASSUME IInv, NEW i \in 0..Count - 1, code[i + 1].op \in Replaceable
  PROVE  /\ Sequel(i) \in Seq(Fitting) /\ Len(Sequel(i)) \in 3..6
         /\ DueOf(i) \in 1..Len(Sequel(i))
         /\ code[i + 1].op \in {"bc", "tbz"} => DueOf(i) = 6
<1> DEFINE w  == code[i + 1]
           to == Label(code, i)
<1>1. /\ code \in Windows /\ to \in Int /\ NamedBy(i) \in Int /\ w \in Fitting /\ w.rd \in Nat
      /\ w.op \in LoadOps => Room(w) \in {1, 2, 4}
  BY NamesAre DEF IInv
<1> HIDE DEF to
<1>2. CASE w.op = "b"
  <2>1. Sequel(i) = FarJump(to)
    BY <1>2 DEF Sequel, to, LoadOps
  <2>2. FarJump(to) \in Seq(Fitting) /\ Len(FarJump(to)) = 4
    BY <1>1, FarFits
  <2>3. DueOf(i) = Len(Sequel(i))
    BY <1>2 DEF DueOf, JumpOps
  <2> QED BY <1>2, <2>1, <2>2, <2>3
<1>3. CASE w.op = "bl"
  <2>1. Sequel(i) = FarCall(to)
    BY <1>3 DEF Sequel, to, LoadOps
  <2>2. FarCall(to) \in Seq(Fitting) /\ Len(FarCall(to)) = 5
    BY <1>1, FarFits
  <2>3. DueOf(i) = Len(Sequel(i))
    BY <1>3 DEF DueOf, JumpOps
  <2> QED BY <1>3, <2>1, <2>2, <2>3
<1>4. CASE w.op \in {"bc", "tbz"} \cup LoadOps
  <2>1. [w EXCEPT !.imm = 2] \in Fitting
    <3>1. 2 \in 0..2 * CPU!Half(w.op) - 1
      BY <1>4, WidthsReach, HalfPositive DEF LoadOps
    <3> QED BY <1>1, <3>1, Renewed
  <2>2. ASSUME NEW n \in 0..5, B(n) \in Fitting, NEW y \in Seq(Fitting), Len(y) \in 1..4
        PROVE  LET z == <<[w EXCEPT !.imm = 2], B(n)>> \o y IN z \in Seq(Fitting) /\ Len(z) = 2 + Len(y)
    <3> DEFINE v == [w EXCEPT !.imm = 2]
    <3> HIDE DEF v, w
    <3>1. <<v, B(n)>> \in Seq(Fitting) /\ Len(<<v, B(n)>>) = 2
      BY <2>1, <2>2, PairFits DEF v
    <3>2. <<v, B(n)>> \o y \in Seq(Fitting) /\ Len(<<v, B(n)>> \o y) = Len(<<v, B(n)>>) + Len(y)
      BY ONLY <2>2, <3>1, Join
    <3> QED BY <3>1, <3>2 DEF v, w
  <2>3. CASE w.op \in {"bc", "tbz"}
    <3>1. FarJump(to) \in Seq(Fitting) /\ Len(FarJump(to)) = 4 /\ B(5) \in Fitting
      <4>1. 5 \in 0..9
        OBVIOUS
      <4> QED BY <1>1, <4>1, FarFits, ShortFits
    <3>2. Sequel(i) = <<[w EXCEPT !.imm = 2], B(5)>> \o FarJump(to)
      BY <2>3 DEF Sequel, to, LoadOps
    <3> DEFINE y == FarJump(to)
               c == 5
    <3>3. y \in Seq(Fitting) /\ Len(y) = 4 /\ Len(y) \in 1..4 /\ c \in 0..5 /\ B(c) \in Fitting
      BY <3>1
    <3>6. Sequel(i) = <<[w EXCEPT !.imm = 2], B(c)>> \o y
      BY <3>2
    <3> HIDE DEF y, c, w
    <3>4. Sequel(i) \in Seq(Fitting) /\ Len(Sequel(i)) = 2 + Len(y)
      BY <2>2, <3>3, <3>6
    <3>5. DueOf(i) = Len(Sequel(i))
      BY <2>3 DEF DueOf, JumpOps, w
    <3>7. Len(Sequel(i)) = 6
      BY <3>3, <3>4
    <3> HIDE DEF Sequel
    <3>8. 6 \in 3..6 /\ 6 \in 1..6
      OBVIOUS
    <3> QED BY <3>4, <3>5, <3>7, <3>8
  <2>4. CASE w.op \in LoadOps
    <3> DEFINE n == Room(w)
               y == Copy(to, n)
    <3>1. n \in {1, 2, 4}
      BY <1>1, <2>4
    <3> HIDE DEF n
    <3>2. y \in Seq(Fitting) /\ Len(y) = n
      <4>1. \A j \in 1..n : to + j - 1 \in Int
        BY <1>1, <3>1
      <4>2. \A j \in 1..n : Memory(to + j - 1) \in Fitting
        BY <4>1, MemoryFits
      <4>3. y \in [1..n -> Fitting]
        BY <4>2 DEF Copy
      <4> QED BY <3>1, <4>3
    <3>3. B(1 + n) \in Fitting /\ 1 + n \in 0..5
      <4>1. 1 + n \in 0..9 /\ 1 + n \in 0..5
        BY <3>1
      <4> QED BY <4>1, ShortFits
    <3>4. Sequel(i) = <<[w EXCEPT !.imm = 2], B(1 + n)>> \o y
      BY <2>4 DEF Sequel, to, n, LoadOps
    <3> HIDE DEF y
    <3>5. Sequel(i) \in Seq(Fitting) /\ Len(Sequel(i)) = 2 + n
      <4>1. Len(y) \in 1..4
        BY <3>1, <3>2
      <4> DEFINE c == 1 + n
      <4>2. c \in 0..5 /\ B(c) \in Fitting
        BY <3>3
      <4>3. Sequel(i) = <<[w EXCEPT !.imm = 2], B(c)>> \o y
        BY <3>4
      <4> HIDE DEF c, w
      <4>4. LET z == <<[w EXCEPT !.imm = 2], B(c)>> \o y IN z \in Seq(Fitting) /\ Len(z) = 2 + Len(y)
        BY <2>2, <3>2, <4>1, <4>2
      <4> QED BY <3>2, <4>3, <4>4
    <3>6. Len(Sequel(i)) \in 3..6
      BY <3>1, <3>5
    <3>7. DueOf(i) = 1
      BY <2>4 DEF DueOf, JumpOps, LoadOps
    <3> QED BY <2>4, <3>5, <3>6, <3>7 DEF LoadOps
  <2> QED BY <1>4, <2>3, <2>4
<1>5. CASE w.op \in {"adr", "adrp"}
  <2>1. Sequel(i) = FarLoad(w.rd, NamedBy(i))
    BY <1>5 DEF Sequel, LoadOps
  <2>2. Sequel(i) \in Seq(Fitting) /\ Len(Sequel(i)) = 4
    BY <1>1, <2>1, FarFits
  <2> QED BY <1>5, <2>2 DEF DueOf, JumpOps
<1> QED BY <1>2, <1>3, <1>4, <1>5 DEF Replaceable, JumpOps, LoadOps

LEMMA SequelStays ==
  ASSUME code' = code, NEW i
  PROVE  /\ Sequel(i)' = Sequel(i) /\ DueOf(i)' = DueOf(i)
         /\ Label(code, i)' = Label(code, i) /\ Count' = Count
         /\ \A a : InWindow(a)' <=> InWindow(a)
<1>1. Count' = Count /\ \A a : (InWindow(a)' <=> InWindow(a)) /\ Memory(a)' = Memory(a)
  BY DEF Count, InWindow, Memory
<1>2. Label(code, i)' = Label(code, i) /\ NamedBy(i)' = NamedBy(i)
  BY DEF Label, NamedBy, PageOf
<1>3. \A a, n : Copy(a, n)' = Copy(a, n)
  BY <1>1 DEF Copy
<1>4. Sequel(i)' = Sequel(i)
  BY <1>2, <1>3 DEF Sequel
<1>5. DueOf(i)' = DueOf(i)
  BY <1>4 DEF DueOf
<1> QED BY <1>1, <1>2, <1>4, <1>5

-----------------------------------------------------------------------------
(* Words that have been written stay what they are.                        *)
LEMMA FarStays ==
  ASSUME IInv, in \in 0..Count, NEW S, NEW T, NEW spot, Extends(S, T, spot), ShapeInv(S),
         NEW k \in S, k \in 1..Len(out), FarCore(k, S)
  PROVE  FarCore(k, T)'
<1> DEFINE i == org[k]
           ws == Sequel(i)
<1>1. i \in 0..Count - 1 /\ code[i + 1].op \in Replaceable
  BY WindowFacts, SMTT(30) DEF FarCore, IInv
<1>2. ws \in Seq(Fitting) /\ Len(ws) \in 3..6 /\ DueOf(i) \in 1..Len(ws)
  BY <1>1, SequelIs
<1>8. DueOf(i) \in Nat /\ Len(ws) \in Nat /\ Len(ws) > 1
  <2> DEFINE n == Len(ws)
             d == DueOf(i)
  <2>1. n \in 3..6 /\ d \in 1..n
    BY <1>2
  <2> HIDE DEF n, d
  <2>2. n \in Nat /\ n > 1 /\ d \in Nat
    BY <2>1
  <2> QED BY <2>2 DEF n, d
<1>3. /\ org'[k] = i /\ code' = code
  BY DEF Extends
<1>4. \A j : Sequel(j)' = Sequel(j) /\ DueOf(j)' = DueOf(j) /\ Count' = Count
  BY <1>3, SequelStays
<1>5. Holds(k, ws, DueOf(i), S) /\ Leads(k + Len(ws), i + 1, S)
  BY DEF FarCore
<1> HIDE DEF ws
<1>6. \A v, d : v = ws /\ d = DueOf(i) => Holds(k, v, d, T)'
  BY <1>5, <1>8, HoldsStays
<1>7. \A m, j : m = k + Len(ws) /\ j = i + 1 => Leads(m, j, T)'
  <2>1. S \subseteq 1..Len(out) + 1
    BY DEF ShapeInv
  <2> QED BY <1>5, <2>1, LeadsStays
<1>9. Lies(k, LiteralAt(org[k]), LiteralSize(org[k]))'
  <2>1. Lies(k, LiteralAt(i), LiteralSize(i)) /\ outBase' = outBase
    BY DEF FarCore, Extends
  <2> QED BY <1>3, <2>1 DEF Lies, LiteralAt, LiteralSize, AddrOf
<1> QED BY <1>1, <1>3, <1>4, <1>6, <1>7, <1>9 DEF FarCore, ws

LEMMA BackStays ==
  ASSUME IInv, in \in 0..Count, NEW S, NEW T, NEW spot, Extends(S, T, spot), ShapeInv(S),
         NEW k \in S, k \in 1..Len(out), BackCore(k, S)
  PROVE  BackCore(k, T)'
<1>1. /\ org'[k] = org[k] /\ code' = code /\ outBase' = outBase /\ Count' = Count /\ Count \in Nat
  <2>1. org'[k] = org[k] /\ code' = code /\ outBase' = outBase
    BY DEF Extends
  <2>2. Count \in Nat
    BY WindowFacts DEF IInv
  <2> QED BY <2>1, <2>2 DEF Count
<1>2. out'[k] = out[k]
  BY <1>1, Unchanged DEF BackCore
<1>3. Callback' = Callback /\ FarJump(Callback)' = FarJump(Callback) /\ Aim(k)' = Aim(k)
  BY <1>1, <1>2 DEF Callback, FarJump, Aim, AddrOf
<1>4. CASE Holds(k, FarJump(Callback), 4, S) /\ Lies(k, 2, 2)
  <2>1. Len(FarJump(Callback)) = 4 /\ 4 \in Nat
    BY <1>1, FarFits, WidthAssumption DEF Callback
  <2> DEFINE v == FarJump(Callback)
             d == 4
  <2>2. Len(v) \in Nat /\ Len(v) > 1 /\ Holds(k, v, d, S) /\ d \in Nat
    BY <1>4, <2>1
  <2> HIDE DEF v, d
  <2>3. \A x, y : x = v /\ y = d => Holds(k, x, y, T)'
    BY <2>2, HoldsStays
  <2>4. FarJump(Callback)' = v /\ d = 4
    BY <1>3 DEF v, d
  <2>5. Holds(k, FarJump(Callback), 4, T)'
    BY <2>3, <2>4
  <2>6. Lies(k, 2, 2)'
    BY <1>1, <1>4 DEF Lies, AddrOf
  <2> QED BY <1>1, <2>5, <2>6 DEF BackCore
<1>5. CASE out[k].op = "b" /\ Aim(k) = Callback
  BY <1>1, <1>2, <1>3, <1>5 DEF BackCore
<1> QED BY <1>4, <1>5 DEF BackCore

LEMMA PadStays ==
  ASSUME IInv, in \in 0..Count, NEW S, NEW T, NEW spot, Extends(S, T, spot), ShapeInv(S),
         NEW k \in S, k \in 1..Len(out), PadCore(k, S)
  PROVE  PadCore(k, T)'
<1>0. Len(out) \in Nat
  BY DEF IInv
<1>1. out[k] = Nop /\ k < Len(out) /\ k + 1 \in S /\ org[k + 1] = org[k] /\ Len(out) \in Nat
  BY <1>0 DEF PadCore
<1>2. out[k].op = "nop"
  BY <1>1 DEF Nop, CPU!Word
<1>3. out'[k] = out[k] /\ org'[k] = org[k]
  BY <1>2, Unchanged
<1>4. k + 1 \in 1..Len(out)
  BY <1>1
<1>5. org'[k + 1] = org[k + 1] /\ k + 1 \in T
  BY <1>1, <1>4 DEF Extends
<1>6. Len(out') \in Nat /\ Len(out) <= Len(out')
  BY DEF Extends
<1>7. k < Len(out')
  BY <1>1, <1>6
<1>8. Nop' = Nop
  BY DEF Nop
<1> QED BY <1>1, <1>3, <1>5, <1>7, <1>8 DEF PadCore

\* What a field means is what was put in it, if its bits hold that.
LEMMA FieldMeans ==
  ASSUME NEW op, NEW x \in Int, -CPU!Half(op) <= x, x < CPU!Half(op)
  PROVE  CPU!Signed(Field(op, x), CPU!Half(op)) = x
<1> DEFINE h == CPU!Half(op)
           m == 2 * h
<1>1. h \in Nat \ {0} /\ m \in Nat \ {0} /\ x < m /\ -h <= x /\ x < h
  BY HalfPositive
<1> HIDE DEF h
<1>2. x % m = IF x >= 0 THEN x ELSE x + m
  <2> DEFINE q == m
  <2>1. q \in Nat \ {0} /\ -q <= x /\ x < q
    BY <1>1
  <2> HIDE DEF q
  <2>2. x % q = IF x >= 0 THEN x ELSE x + q
    BY <2>1
  <2> QED BY <2>2 DEF q
<1>3. Field(op, x) = IF x >= 0 THEN x ELSE x + m
  BY <1>2 DEF Field, h
<1> QED BY <1>1, <1>3 DEF CPU!Signed, h

\* The row is long enough for what is written, and short enough for each field.
LEMMA RowFacts ==
  ASSUME IInv
  PROVE  /\ Len(out) \in Nat /\ Len(out) <= TrampolineSize /\ TrampolineSize \in Nat /\ outBase \in Nat
         /\ \A op : op # "adrp" => TrampolineSize <= CPU!Half(op)
<1>1. Count \in 1..MaxInstructions /\ in \in 0..Count + 1 /\ Len(out) <= Bound(in, Count) /\ Len(out) \in Nat /\ outBase \in Nat
  BY WindowFacts DEF IInv
<1>2. Len(out) <= TrampolineSize /\ TrampolineSize \in Nat
  BY <1>1, RowAssumption DEF Bound
<1>3. \A op : op # "adrp" => TrampolineSize <= CPU!Half(op)
  BY ReachAssumption DEF CPU!Half
<1> QED BY <1>1, <1>2, <1>3

LEMMA NearStays ==
  ASSUME IInv, in \in 0..Count, NEW S, NEW T, NEW spot, Extends(S, T, spot), ShapeInv(S),
         NEW k \in S, k \in 1..Len(out), NearCore(k, S)
  PROVE  NearCore(k, T)'
<1> DEFINE i == org[k]
           w == code[i + 1]
           to == Label(code, i)
<1>1. /\ i \in 0..Count - 1 /\ in \in Nat /\ Count \in Nat /\ Base \in Nat /\ in \in 0..Count
      /\ code \in Windows /\ S \subseteq 1..Len(out) + 1
  <2>1. code \in Windows /\ Count \in Nat /\ org[k] \in 0..Count /\ Base \in Nat
    BY WindowFacts, WidthAssumption DEF IInv
  <2>2. org[k] < Count
    BY DEF NearCore
  <2>3. S \subseteq 1..Len(out) + 1
    BY DEF ShapeInv
  <2> QED BY <2>1, <2>2, <2>3
<1>2. /\ org'[k] = i /\ code' = code /\ outBase' = outBase
      /\ out'[k] = IF [at |-> k, to |-> in] \in fmap
                    THEN [out[k] EXCEPT !.imm = Field(out[k].op, spot - AddrOf(k))]
                    ELSE out[k]
  BY DEF Extends
<1>3. \A j : Label(code, j)' = Label(code, j) /\ Count' = Count /\ \A a : InWindow(a)' <=> InWindow(a)
  BY <1>2, SequelStays
<1>4. to \in Int /\ out[k] \in Fitting
  BY <1>1, NamesAre DEF IInv
<1>5. out'[k].op = out[k].op /\ out'[k].rd = out[k].rd /\ out'[k].lo = out[k].lo /\ out'[k].n = out[k].n
  BY <1>2, <1>4 DEF Fitting, OutWords
<1>6. \A m, j : m = k + 1 /\ j = i + 1 => Leads(m, j, T)'
  BY <1>1, LeadsStays DEF NearCore
<1>7. NearWord(k, i, S)
  BY DEF NearCore
<1>8. CASE [at |-> k, to |-> in] \in fmap
  <2>0. in < Count
    BY <1>1, <1>8 DEF IInv
  <2>1. Waiting([at |-> k, to |-> in], S)
    BY <1>8 DEF ShapeInv
  <2>2. to = Base + in /\ w.op \in {"adr"} \cup JumpOps /\ out[k].op = w.op
    BY <2>1 DEF Waiting
  <2>3. spot \in Row(outBase) /\ \A j \in {in} : Leads(spot - outBase + 1, j, T)'
    BY <1>8 DEF Extends
  <2>4. Aim(k)' = spot
    <3>1. /\ Len(out) \in Nat /\ Len(out) <= TrampolineSize /\ TrampolineSize \in Nat /\ outBase \in Nat
          /\ TrampolineSize <= CPU!Half(w.op) /\ CPU!Half(w.op) \in Nat
      BY <2>2, RowFacts, HalfPositive DEF JumpOps
    <3> DEFINE x == spot - AddrOf(k)
               h == CPU!Half(w.op)
    <3> HIDE DEF h
    <3>2. x \in Int /\ -h <= x /\ x < h /\ spot = AddrOf(k) + x
      BY <2>3, <3>1 DEF Row, AddrOf, h
    <3> HIDE DEF x
    <3>3. CPU!Signed(Field(w.op, x), CPU!Half(w.op)) = x
      BY <3>2, FieldMeans DEF h
    <3>4. out'[k].imm = Field(w.op, x)
      BY <1>2, <1>4, <1>8, <2>2 DEF x, Fitting, OutWords
    <3>5. AddrOf(k)' = AddrOf(k)
      BY <1>2 DEF AddrOf
    <3>6. Aim(k)' = AddrOf(k) + CPU!Signed(out'[k].imm, CPU!Half(out'[k].op))
      BY <3>5 DEF Aim, CPU!Signed, CPU!Half
    <3> QED BY <1>5, <2>2, <3>2, <3>3, <3>4, <3>6
  <2>5. InWindow(to) /\ to - Base = in
    BY <1>1, <2>0, <2>2 DEF InWindow
  <2>6. \A a, b : a = spot /\ b = to => Reaches(a, b, T)'
    BY <1>2, <1>3, <2>3, <2>5 DEF Reaches
  <2>7. \A j : j = i => Targeted(k, j, T)'
    BY <1>3, <2>4, <2>6 DEF Targeted
  <2>8. \A j : j = i => NearWord(k, j, T)'
    BY <1>2, <1>5, <1>7, <2>2, <2>7 DEF NearWord, JumpOps, LoadOps
  <2> QED BY <1>1, <1>2, <1>3, <1>6, <2>8 DEF NearCore
<1>9. CASE [at |-> k, to |-> in] \notin fmap
  <2>1. out'[k] = out[k]
    BY <1>2, <1>9
  <2>2. Aim(k)' = Aim(k)
    BY <1>2, <2>1 DEF Aim, AddrOf, CPU!Signed, CPU!Half
  <2>3. ASSUME w.op \in {"adr"} \cup JumpOps PROVE \A j : j = i => Targeted(k, j, T)'
    <3>1. CASE InWindow(to) /\ Awaits(k, to)
      <4>1. [at |-> k, to |-> to - Base] \in fmap'
        BY <1>9, <3>1 DEF Awaits, Extends
      <4> QED BY <1>3, <3>1, <4>1 DEF Targeted, Awaits
    <3>2. CASE Reaches(Aim(k), to, S)
      <4>1. \A a, b : a = Aim(k) /\ b = to => Reaches(a, b, T)'
        <5>1. CASE InWindow(to)
          <6>1. \A m, j : m = Aim(k) - outBase + 1 /\ j = to - Base => Leads(m, j, T)'
            BY <1>1, <3>2, <5>1, LeadsStays DEF Reaches
          <6> QED BY <1>2, <1>3, <5>1, <6>1 DEF Reaches
        <5>2. CASE ~InWindow(to)
          BY <1>3, <3>2, <5>2 DEF Reaches
        <5> QED BY <5>1, <5>2
      <4> QED BY <1>3, <2>2, <4>1 DEF Targeted
    <3> QED BY <1>7, <2>3, <3>1, <3>2 DEF NearWord, Targeted
  <2>4. \A j : j = i => NearWord(k, j, T)'
    BY <1>2, <1>3, <1>7, <2>1, <2>2, <2>3 DEF NearWord
  <2> QED BY <1>1, <1>2, <1>3, <1>6, <2>4 DEF NearCore
<1> QED BY <1>8, <1>9

LEMMA WaitingStays ==
  ASSUME IInv, in < Count, NEW S, NEW T, NEW spot, Extends(S, T, spot), ShapeInv(S),
         NEW f \in fmap, f.to # in
  PROVE  Waiting(f, T)'
<1>1. Waiting(f, S) /\ f.at \in 1..Len(out)
  BY DEF ShapeInv, IInv
<1> DEFINE k == f.at
           i == org[k]
<1>2. /\ k \in S /\ k + 1 \in S /\ i < Count /\ k \in 1..Len(out)
      /\ code[i + 1].op \in {"adr"} \cup JumpOps /\ out[k].op = code[i + 1].op
      /\ Label(code, i) = Base + f.to /\ code[f.to + 1].op # "adrp"
  BY <1>1 DEF Waiting
<1>3. /\ code' = code /\ org'[k] = i /\ k \in T /\ k + 1 \in T
      /\ out'[k] = IF [at |-> k, to |-> in] \in fmap
                    THEN [out[k] EXCEPT !.imm = Field(out[k].op, spot - AddrOf(k))]
                    ELSE out[k]
  BY <1>2 DEF Extends
<1>4. out[k] \in Fitting
  BY <1>2 DEF IInv
<1>5. out'[k].op = out[k].op
  BY <1>3, <1>4 DEF Fitting, OutWords
<1>6. \A j : j = i => Label(code, j)' = Label(code, i) /\ Count' = Count
  BY <1>3, SequelStays
<1> QED BY <1>2, <1>3, <1>5, <1>6 DEF Waiting

Grown(ws, k, n, due, spot, waits) ==
  /\ in' = in + 1 /\ code' = code /\ outBase' = outBase /\ Count' = Count
  /\ Len(out) \in Nat /\ Len(out') = Len(out) + k + n
  /\ dat' = [dat EXCEPT ![in + 1] = spot]
  /\ fmap' = {f \in fmap : f.to # in} \cup waits
  /\ \A m \in 1..Len(out) :
       /\ org'[m] = org[m]
       /\ out'[m] = IF [at |-> m, to |-> in] \in fmap
                    THEN [out[m] EXCEPT !.imm = Field(out[m].op, spot - AddrOf(m))]
                    ELSE out[m]
  /\ \A x \in 1..k : org'[Len(out) + x] = in /\ out'[Len(out) + x] = Nop
  /\ \A x \in 1..n : /\ org'[Len(out) + k + x] = IF k + x <= due THEN in ELSE in + 1
                     /\ out'[Len(out) + k + x] = ws[x]

LEMMA GrownIs ==
  ASSUME IInv, in < Count, NEW k \in 0..3, NEW ws \in Seq(Fitting), NEW n \in 1..6, Len(ws) = n,
         NEW due \in Nat, due >= k, NEW spot \in Nat, NEW waits,
         Move(Nops(k) \o ws, due, spot, waits)
  PROVE  Grown(ws, k, n, due, spot, waits)
<1> DEFINE v == Nops(k) \o ws
<1>0. k \in Nat /\ n \in Nat
  OBVIOUS
<1>1. v \in Seq(Fitting) /\ Len(v) = k + n /\ k \in Nat /\ n \in Nat
  BY <1>0, PaddedFits
<1>2. (\A x \in 1..k : v[x] = Nop) /\ (\A x \in 1..n : v[k + x] = ws[x])
  <2>1. Nops(k) \in Seq(Fitting) /\ Len(Nops(k)) = k
    BY <1>1, NopsFit
  <2>2. \A x \in 1..k : Nops(k)[x] = Nop
    BY DEF Nops
  <2> DEFINE u == Nops(k)
  <2> HIDE DEF u
  <2>3. u \in Seq(Fitting) /\ Len(u) = k /\ \A x \in 1..k : u[x] = Nop
    BY <2>1, <2>2 DEF u
  <2>4. /\ \A x \in 1..k : (u \o ws)[x] = u[x]
        /\ \A x \in 1..n : (u \o ws)[k + x] = ws[x]
    BY <1>1, <2>3
  <2> QED BY <2>3, <2>4 DEF u
<1> HIDE DEF v
<1>3. Move(v, due, spot, waits)
  BY DEF v
<1>4. Moved(v, due, spot, waits)
  BY <1>1, <1>3, MoveIs
<1>5. Len(out') = Len(out) + k + n /\ Len(out) \in Nat
  BY <1>1, <1>4 DEF Moved
<1>6. ASSUME NEW x \in 1..k PROVE org'[Len(out) + x] = in /\ out'[Len(out) + x] = Nop
  <2>1. x \in 1..Len(v) /\ x <= due
    BY <1>1
  <2> QED BY <1>2, <1>4, <2>1 DEF Moved
<1>7. ASSUME NEW x \in 1..n
      PROVE  /\ org'[Len(out) + k + x] = IF k + x <= due THEN in ELSE in + 1
             /\ out'[Len(out) + k + x] = ws[x]
  <2>1. k + x \in 1..Len(v) /\ Len(out) + (k + x) = Len(out) + k + x
    BY <1>1, <1>5
  <2>2. org'[Len(out) + (k + x)] = IF k + x <= due THEN in ELSE in + 1
    BY <1>4, <2>1 DEF Moved
  <2>3. out'[Len(out) + (k + x)] = v[k + x]
    BY <1>4, <2>1 DEF Moved
  <2> QED BY <1>2, <2>1, <2>2, <2>3
<1> QED BY <1>4, <1>5, <1>6, <1>7 DEF Moved, Grown

Grows(S, T, k, n) ==
  T = S \cup (Len(out) + 1..Len(out) + k + 1) \cup {Len(out) + k + n + 1}

Extended(S, T, k, spot) ==
  /\ Extends(S, T, spot)
  /\ Now.op # "adrp" => \A j \in {in} : Leads(spot - outBase + 1, j, T)'
  /\ \A m \in T : m > Len(out) => m \in Len(out) + 1..Len(out) + k + 1 \/ m = Len(out') + 1
  /\ \A m \in Len(out) + 1..Len(out) + k + 1 : org'[m] = in
  /\ T \subseteq 1..Len(out') + 1
  /\ \A m, j : m = Len(out') + 1 /\ j = in + 1 => Leads(m, j, T)'

LEMMA GrownExtends ==
  ASSUME IInv, in < Count, NEW S, ShapeInv(S),
         NEW k \in 0..3, NEW ws \in Seq(Fitting), NEW n \in 1..6, Len(ws) = n,
         NEW due \in Nat, due > k, NEW spot \in Nat, NEW waits,
         Move(Nops(k) \o ws, due, spot, waits),
         Now.op # "adrp" => spot \in OutAddr..OutAddr + k,
         NEW T, Grows(S, T, k, n)
  PROVE  Extended(S, T, k, spot)
<1> DEFINE o == Len(out)
<1>0. k \in Nat /\ n \in Nat /\ n >= 1 /\ k <= 3 /\ k + 1 <= due /\ due >= k
  OBVIOUS
<1>1. Grown(ws, k, n, due, spot, waits)
  BY <1>0, GrownIs
<1>14. o \in Nat /\ Len(out') = o + k + n /\ in' = in + 1 /\ outBase' = outBase
  BY <1>1 DEF Grown
<1>16. /\ \A x \in 1..k : org'[o + x] = in
       /\ \A x \in 1..n : org'[o + k + x] = IF k + x <= due THEN in ELSE in + 1
  BY <1>1 DEF Grown
<1>2. /\ S \subseteq 1..o + 1 /\ T = S \cup (o + 1..o + k + 1) \cup {o + k + n + 1}
      /\ in \in Nat /\ Count \in 1..MaxInstructions /\ outBase \in Nat /\ o <= 9 * in /\ MaxInstructions \in Nat
      /\ TrampolineSize = 10 * MaxInstructions
  <2>1. Count \in 1..MaxInstructions /\ in \in Nat /\ outBase \in Nat
    BY WindowFacts DEF IInv
  <2>2. o <= 9 * in
    BY <2>1 DEF IInv, Bound
  <2> QED BY <2>1, <2>2, RowAssumption DEF ShapeInv, Grows
<1>15. /\ in \in Nat /\ Count \in 1..MaxInstructions /\ outBase \in Nat /\ o <= 9 * in /\ MaxInstructions \in Nat
       /\ TrampolineSize = 10 * MaxInstructions
  BY <1>2
<1>17. S \subseteq 1..o + 1 /\ T = S \cup (o + 1..o + k + 1) \cup {o + k + n + 1}
  BY <1>2
<1>3. \A f \in fmap : Waiting(f, S)
  BY DEF ShapeInv
<1> HIDE DEF o
<1>4. ASSUME NEW m \in o + 1..o + k + 1 PROVE org'[m] = in /\ m \in T /\ m <= Len(out')
  <2>1. CASE m = o + k + 1
    <3>1. 1 \in 1..n /\ k + 1 <= due /\ o + k + 1 <= Len(out')
      BY <1>0, <1>14
    <3>2. org'[o + k + 1] = in
      BY <1>16, <3>1
    <3> QED BY <1>14, <1>17, <2>1, <3>1, <3>2
  <2>2. CASE m # o + k + 1
    <3>1. m - o \in 1..k /\ o + (m - o) = m /\ m <= Len(out')
      BY <1>0, <1>14, <2>2
    <3>2. org'[o + (m - o)] = in
      BY <1>16, <3>1
    <3> QED BY <1>17, <3>1, <3>2
  <2> QED BY <2>1, <2>2
<1>5. \A m \in o + 1..o + k + 1 : Index(m)' = in
  BY <1>4 DEF Index
<1>6. ASSUME Now.op # "adrp"
      PROVE  spot \in Row(outBase) /\ \A j \in {in} : Leads(spot - outBase + 1, j, T)'
  <2>1. spot \in (outBase + o)..(outBase + o) + k
    BY <1>6 DEF OutAddr, o
  <2>2. spot - outBase + 1 \in o + 1..o + k + 1
    BY <1>0, <1>14, <1>15, <2>1
  <2>3. spot \in Row(outBase)
    <3>1. in + 1 <= MaxInstructions
      BY <1>15
    <3> HIDE DEF o
    <3>2. o + k < TrampolineSize
      BY <1>0, <1>14, <1>15, <3>1
    <3> QED BY <1>0, <1>14, <1>15, <2>1, <3>2 DEF Row
  <2>4. \A m, j : m \in o + 1..o + k + 1 /\ j = in => Leads(m, j, T)'
    BY <1>4, <1>5 DEF Leads, Same
  <2>5. \A j \in {in} : Leads(spot - outBase + 1, j, T)'
    BY <1>14, <2>2, <2>4
  <2> QED BY <2>3, <2>5
<1>7. \A f \in fmap : f.to = in => Now.op # "adrp"
  BY <1>3 DEF Waiting, Now
<1>8. S \subseteq T /\ T \cap 1..o \subseteq S
  <2>1. \A m : m \in T /\ m \in 1..o => m \in S
    BY <1>0, <1>14, <1>17
  <2> QED BY <1>17, <2>1
<1>9. Extends(S, T, spot)
  <2>1. o \in Nat /\ Len(out') \in Nat /\ o <= Len(out')
    BY <1>0, <1>14
  <2>2. \A m \in {o + 1} : Same(Index(m)', in)
    <3>1. o + 1 \in o + 1..o + k + 1
      BY <1>0, <1>14
    <3> QED BY <1>5, <3>1 DEF Same
  <2>3. \A f \in fmap : f.to # in => f \in fmap'
    BY <1>1 DEF Grown
  <2> QED BY <1>1, <1>6, <1>7, <1>8, <2>1, <2>2, <2>3 DEF Extends, o, Grown
<1>10. ASSUME NEW m \in T, m > o PROVE m \in o + 1..o + k + 1 \/ m = Len(out') + 1
  <2>1. m \notin S \/ m = o + 1
    BY <1>10, <1>14, <1>17
  <2> QED BY <1>0, <1>10, <1>14, <1>17, <2>1
<1>11. T \subseteq 1..Len(out') + 1
  <2> SUFFICES ASSUME NEW m \in T PROVE m \in 1..Len(out') + 1
    OBVIOUS
  <2> QED BY <1>0, <1>14, <1>17
<1>12. ASSUME NEW m, NEW j, m = Len(out') + 1, j = in + 1 PROVE Leads(m, j, T)'
  <2>1. m \in T /\ ~(m <= Len(out'))
    BY <1>0, <1>14, <1>17, <1>12
  <2>2. Index(m)' = j
    BY <1>14, <1>12, <2>1 DEF Index
  <2> QED BY <2>1, <2>2 DEF Leads, Same
<1> QED BY <1>4, <1>6, <1>9, <1>10, <1>11, <1>12 DEF o, Extended

LEMMA OpensStay ==
  ASSUME IInv, in \in 0..Count, NEW S, ShapeInv(S), NEW T, NEW spot, Extends(S, T, spot),
         T \subseteq 1..Len(out') + 1, NEW m \in T, m <= Len(out)
  PROVE  (Opens(m, T) /\ OpAt(org[m]) # "prfm")'
<1>a. /\ S \subseteq 1..Len(out) + 1 /\ Len(out) \in Nat
      /\ \A k \in S : k <= Len(out) => Opens(k, S) /\ OpAt(org[k]) # "prfm"
  BY DEF ShapeInv, IInv
<1>b. in' = in + 1 /\ code' = code /\ outBase' = outBase /\ Count' = Count
  BY DEF Extends, Count
<1>1. m \in S /\ m \in 1..Len(out)
  <2>1. Len(out') \in Nat
    BY DEF Extends
  <2>2. m \in 1..Len(out)
    BY <1>a, <2>1
  <2> QED BY <2>2 DEF Extends
<1>2. Opens(m, S) /\ OpAt(org[m]) # "prfm"
  BY <1>a, <1>1
<1>3. Opens(m, T)'
  <2>1. CASE PadCore(m, S)
    BY <1>a, <1>1, <2>1, PadStays DEF Opens
  <2>2. CASE NearCore(m, S)
    BY <1>a, <1>1, <2>2, NearStays DEF Opens
  <2>3. CASE FarCore(m, S)
    BY <1>a, <1>1, <2>3, FarStays DEF Opens
  <2>4. CASE BackCore(m, S)
    BY <1>a, <1>1, <2>4, BackStays DEF Opens
  <2> QED BY <1>2, <2>1, <2>2, <2>3, <2>4 DEF Opens
<1>4. org'[m] = org[m]
  BY <1>1 DEF Extends
<1>5. OpAt(org[m])' = OpAt(org[m])
  BY <1>b, <1>4 DEF OpAt
<1> QED BY <1>2, <1>3, <1>5

\* The shape of what a fixer leaves, but for its own words.
LEMMA RestStays ==
  ASSUME IInv, in < Count, NEW S, ShapeInv(S), NEW T, NEW spot \in Nat, Extends(S, T, spot),
         T \subseteq 1..Len(out') + 1, dat' = [dat EXCEPT ![in + 1] = spot],
         Now.op # "adrp" => \A j \in {in} : Leads(spot - outBase + 1, j, T)'
  PROVE  /\ Leads(1, 0, T)'
         /\ \A m \in T : m <= Len(out) => (Opens(m, T) /\ OpAt(org[m]) # "prfm")'
         /\ \A j \in 0..Count - 1 : j < in' /\ code[j + 1].op # "adrp" => Leads(dat[j + 1] - outBase + 1, j, T)'
<1>1. /\ S \subseteq 1..Len(out) + 1 /\ Leads(1, 0, S) /\ in \in 0..Count /\ in \in Nat /\ Len(out) \in Nat
      /\ \A k \in S : k <= Len(out) => Opens(k, S) /\ OpAt(org[k]) # "prfm"
      /\ \A j \in 0..Count - 1 : j < in /\ code[j + 1].op # "adrp" => Leads(dat[j + 1] - outBase + 1, j, S)
      /\ Count \in 1..MaxInstructions /\ MaxInstructions \in Nat /\ dat \in [1..MaxInstructions -> Nat]
  BY WindowFacts, RowAssumption DEF ShapeInv, IInv
<1>2. in' = in + 1 /\ code' = code /\ outBase' = outBase /\ Count' = Count
  BY DEF Extends, Count
<1>3. Leads(1, 0, T)'
  BY <1>1, LeadsStays
<1>4. \A m \in T : m <= Len(out) => (Opens(m, T) /\ OpAt(org[m]) # "prfm")'
  BY <1>1, OpensStay
<1>5. ASSUME NEW j \in 0..Count - 1, j < in', code[j + 1].op # "adrp"
      PROVE  Leads(dat[j + 1] - outBase + 1, j, T)'
  <2>1. j + 1 \in 1..MaxInstructions /\ in + 1 \in 1..MaxInstructions
    BY <1>1
  <2>2. CASE j < in
    <3>1. dat'[j + 1] = dat[j + 1]
      BY <1>1, <2>1, <2>2
    <3>2. Leads(dat[j + 1] - outBase + 1, j, S)
      BY <1>1, <1>5, <2>2
    <3>3. \A m : m = dat[j + 1] - outBase + 1 => Leads(m, j, T)'
      BY <1>1, <3>2, LeadsStays
    <3> QED BY <1>2, <3>1, <3>3
  <2>3. CASE j = in
    <3>1. dat'[j + 1] = spot
      BY <1>1, <2>1, <2>3
    <3>2. Now.op # "adrp"
      BY <1>5, <2>3 DEF Now
    <3>3. \A m : m = spot - outBase + 1 => Leads(m, j, T)'
      BY <1>2, <2>3, <3>2
    <3> QED BY <1>2, <3>1, <3>3
  <2> QED BY <1>1, <1>2, <1>5, <2>2, <2>3
<1> QED BY <1>3, <1>4, <1>5

LEMMA GrownShape ==
  ASSUME IInv, in < Count, NEW S, ShapeInv(S), Now.op # "prfm",
         NEW k \in 0..3, NEW ws \in Seq(Fitting), NEW n \in 1..6, Len(ws) = n,
         NEW due \in Nat, due > k, NEW spot \in Nat, NEW waits,
         Move(Nops(k) \o ws, due, spot, waits),
         Now.op # "adrp" => spot \in OutAddr..OutAddr + k,
         NEW T, Grows(S, T, k, n),
         \A m : m = Len(out) + k + 1 => Opens(m, T)',
         \A f \in waits : Waiting(f, T)'
  PROVE  ShapeInv(T)'
<1>1. /\ Extends(S, T, spot)
      /\ Now.op # "adrp" => \A j \in {in} : Leads(spot - outBase + 1, j, T)'
      /\ \A m \in T : m > Len(out) => m \in Len(out) + 1..Len(out) + k + 1 \/ m = Len(out') + 1
      /\ \A m \in Len(out) + 1..Len(out) + k + 1 : org'[m] = in
      /\ T \subseteq 1..Len(out') + 1
      /\ \A m, j : m = Len(out') + 1 /\ j = in + 1 => Leads(m, j, T)'
  BY GrownExtends DEF Extended
<1>0. k \in Nat /\ n \in Nat /\ n >= 1 /\ k <= 3 /\ due >= k
  OBVIOUS
<1>2. Grown(ws, k, n, due, spot, waits)
  BY <1>0, GrownIs
<1>3. /\ in' = in + 1 /\ code' = code /\ outBase' = outBase /\ Count' = Count
      /\ Len(out) \in Nat /\ Len(out') = Len(out) + k + n
      /\ dat' = [dat EXCEPT ![in + 1] = spot]
      /\ fmap' = {f \in fmap : f.to # in} \cup waits
      /\ \A x \in 1..k : out'[Len(out) + x] = Nop
  BY <1>2 DEF Grown
<1>4. in \in Nat /\ Count \in Nat
  BY WindowFacts DEF IInv
<1>5. /\ Leads(1, 0, T)'
      /\ \A m \in T : m <= Len(out) => (Opens(m, T) /\ OpAt(org[m]) # "prfm")'
      /\ \A j \in 0..Count - 1 : j < in' /\ code[j + 1].op # "adrp" => Leads(dat[j + 1] - outBase + 1, j, T)'
  BY <1>1, <1>3, RestStays
<1>6. (Len(out') + 1 \in T) /\ in' <= Count'
  <2>1. \A m, j : m = Len(out') + 1 /\ j = in + 1 => m \in T
    BY <1>1 DEF Leads
  <2> QED BY <1>3, <1>4, <2>1
<1>7. ASSUME NEW m \in T, m <= Len(out') PROVE (Opens(m, T) /\ OpAt(org[m]) # "prfm")'
  <2>0. m \in Nat
    BY <1>0, <1>1, <1>3
  <2>1. CASE m <= Len(out)
    BY <1>5, <2>1
  <2>2. CASE m > Len(out)
    <3>1. m \in Len(out) + 1..Len(out) + k + 1
      BY <1>0, <1>1, <1>3, <1>7, <2>0, <2>2
    <3>2. org'[m] = in
      BY <1>1, <3>1
    <3>3. OpAt(org[m])' # "prfm"
      BY <1>3, <3>2 DEF OpAt, Now
    <3>4. CASE m = Len(out) + k + 1
      BY <3>3, <3>4
    <3>5. CASE m # Len(out) + k + 1
      <4>1. m - Len(out) \in 1..k /\ Len(out) + (m - Len(out)) = m /\ m + 1 \in Len(out) + 1..Len(out) + k + 1 /\ m < Len(out')
        BY <1>0, <1>3, <3>1, <3>5
      <4>2. out'[Len(out) + (m - Len(out))] = Nop
        BY <1>3, <4>1
      <4>3. org'[m + 1] = in
        BY <1>1, <4>1
      <4>4. m + 1 \in T
        BY <4>1 DEF Grows
      <4>5. Nop' = Nop
        BY DEF Nop
      <4>6. PadCore(m, T)'
        BY <3>2, <4>1, <4>2, <4>3, <4>4, <4>5 DEF PadCore
      <4> QED BY <3>3, <4>6 DEF Opens
    <3> QED BY <3>4, <3>5
  <2> QED BY <1>3, <2>0, <2>1, <2>2
<1>8. ASSUME NEW f \in fmap' PROVE Waiting(f, T)'
  <2>1. CASE f \in waits
    BY <2>1
  <2>2. CASE f \in fmap /\ f.to # in
    BY <1>1, <2>2, WaitingStays
  <2> QED BY <1>3, <2>1, <2>2
<1> QED BY <1>1, <1>3, <1>5, <1>6, <1>7, <1>8 DEF ShapeInv

ShapedNext == \E T : ShapeInv(T)'

LEMMA PadLies ==
  ASSUME IInv, NEW off \in Nat, NEW n \in {1, 2, 4}, NEW k \in 0..3, k = Padding(off, n)
  PROVE  (OutAddr + k + off) % n = 0
<1>1. PICK x \in Nat : x = OutAddr
  BY DEF IInv, OutAddr
<1>2. k = (-(x + off)) % n
  BY <1>1 DEF Padding
<1>3. CASE n = 1
  BY <1>1, <1>2, <1>3
<1>4. CASE n = 2
  BY <1>1, <1>2, <1>4
<1>5. CASE n = 4
  BY <1>1, <1>2, <1>5
<1> QED BY <1>3, <1>4, <1>5

LEMMA FarShape ==
  ASSUME IInv, in < Count, NEW S, ShapeInv(S), Now.op \in Replaceable,
         NEW k \in 0..3, NEW spot \in Nat,
         (OutAddr + k + LiteralAt(in)) % LiteralSize(in) = 0,
         Move(Nops(k) \o Sequel(in), k + DueOf(in), spot, {}),
         Now.op # "adrp" => spot \in OutAddr..OutAddr + k
  PROVE  ShapedNext
<1> DEFINE ws == Sequel(in)
           n  == Len(ws)
           d  == DueOf(in)
           p  == Len(out) + k + 1
<1>1. in \in 0..Count - 1 /\ in \in Nat /\ Count \in Nat /\ code[in + 1].op \in Replaceable
  BY WindowFacts DEF IInv, Now
<1>2. ws \in Seq(Fitting) /\ n \in 3..6 /\ d \in 1..n
  BY <1>1, SequelIs
<1> DEFINE due == k + d
           none == {}
<1>3. Move(Nops(k) \o ws, due, spot, none)
  OBVIOUS
<1> HIDE DEF n, d, none
<1>4. n \in Nat /\ d \in Nat /\ n \in 1..6 /\ k \in Nat /\ due \in Nat /\ due > k /\ due >= k /\ n > 1 /\ d >= 1 /\ d <= n
  BY <1>2
<1>5. Len(ws) = n
  BY DEF n
<1> HIDE DEF ws, due
<1>6. Grown(ws, k, n, due, spot, none)
  BY <1>2, <1>3, <1>4, <1>5, GrownIs
<1>7. PICK T : Grows(S, T, k, n)
  BY DEF Grows
<1>8. S \subseteq 1..Len(out) + 1
  BY DEF ShapeInv
<1>9. Now.op # "prfm"
  BY DEF Replaceable, JumpOps, LoadOps
<1>10. Extended(S, T, k, spot)
  BY <1>2, <1>3, <1>4, <1>5, <1>7, GrownExtends
<1>11. Len(out) \in Nat /\ Len(out') = Len(out) + k + n /\ in' = in + 1 /\ code' = code /\ Count' = Count
  BY <1>6 DEF Grown
<1>12. org'[p] = in /\ p \in Nat
  <2>1. p \in Len(out) + 1..Len(out) + k + 1
    BY <1>4, <1>11
  <2> QED BY <1>4, <1>10, <1>11, <2>1 DEF Extended
<1>13. \A q, v, e : q = p /\ v = ws /\ e = d => Holds(q, v, e, T)'
  <2>1. p + n - 1 <= Len(out')
    BY <1>4, <1>11
  <2>2. ASSUME NEW x \in 1..n PROVE out'[p + x - 1] = ws[x] /\ org'[p + x - 1] = IF x <= d THEN in ELSE in + 1
    <3>1. p + x - 1 = Len(out) + k + x /\ (k + x <= due <=> x <= d)
      BY <1>4, <1>11 DEF due
    <3> QED BY <1>6, <3>1 DEF Grown
  <2>3. ASSUME NEW x \in 1..n - 1, p + x \in T PROVE FALSE
    <3>1. p + x \in Nat /\ p + x > Len(out) + k + 1 /\ p + x < Len(out) + k + n + 1 /\ p + x > Len(out) + 1
      BY <1>4, <1>11
    <3> DEFINE y == p + x
    <3>2. y \in Nat /\ y > Len(out) + k + 1 /\ y < Len(out) + k + n + 1 /\ y > Len(out) + 1 /\ y \in T
      BY <2>3, <3>1
    <3> HIDE DEF y
    <3> QED BY <1>4, <1>7, <1>8, <1>11, <3>2 DEF Grows
  <2> HIDE DEF p
  <2> SUFFICES ASSUME NEW q, NEW v, NEW e, q = p, v = ws, e = d PROVE Holds(q, v, e, T)'
    OBVIOUS
  <2>4. Len(v) = n /\ org'[q] = in
    BY <1>5, <1>12
  <2>5. \A x \in 1..Len(v) : out'[q + x - 1] = v[x] /\ org'[q + x - 1] = IF x <= e THEN org'[q] ELSE org'[q] + 1
    BY <2>2, <2>4
  <2>6. \A x \in 1..Len(v) - 1 : q + x \notin T
    BY <2>3, <2>4
  <2> QED BY <2>1, <2>4, <2>5, <2>6 DEF Holds
<1>14. \A m, j : m = p + n /\ j = in + 1 => Leads(m, j, T)'
  <2>1. p + n = Len(out') + 1
    BY <1>4, <1>11
  <2> QED BY <1>10, <2>1 DEF Extended
<1>15. \A q : q = p => FarCore(q, T)'
  <2>1. \A j : Sequel(j)' = Sequel(j) /\ DueOf(j)' = DueOf(j)
    BY <1>11, SequelStays
  <2> HIDE DEF p
  <2> SUFFICES ASSUME NEW q, q = p PROVE FarCore(q, T)'
    OBVIOUS
  <2>2. org'[q] = in
    BY <1>12
  <2>3. Sequel(org[q])' = ws /\ DueOf(org[q])' = d
    BY <2>1, <2>2 DEF ws, d
  <2>4. Holds(q, Sequel(org[q]), DueOf(org[q]), T)'
    BY <1>13, <2>3
  <2>5. Leads(q + Len(Sequel(org[q])), org[q] + 1, T)'
    BY <1>5, <1>14, <2>2, <2>3
  <2>6. (org[q] < Count /\ code[org[q] + 1].op \in Replaceable)'
    BY <1>1, <1>11, <2>2
  <2>7. Lies(q, LiteralAt(org[q]), LiteralSize(org[q]))'
    <3>1. outBase' = outBase /\ outBase \in Nat
      BY <1>6 DEF Grown, IInv
    <3>2. AddrOf(q)' = OutAddr + k
      BY <1>4, <1>11, <3>1 DEF AddrOf, OutAddr, p
    <3>3. LiteralAt(org[q])' = LiteralAt(in) /\ LiteralSize(org[q])' = LiteralSize(in)
      BY <1>11, <2>2 DEF LiteralAt, LiteralSize
    <3> QED BY <3>2, <3>3 DEF Lies
  <2> QED BY <2>4, <2>5, <2>6, <2>7 DEF FarCore
<1>16. \A m : m = Len(out) + k + 1 => Opens(m, T)'
  BY <1>15 DEF Opens
<1>17. ShapeInv(T)'
  <2>1. \A f \in none : Waiting(f, T)'
    BY DEF none
  <2> QED BY <1>2, <1>3, <1>4, <1>5, <1>7, <1>9, <1>16, <2>1, GrownShape
<1> QED BY <1>17 DEF ShapedNext

LEMMA NearShape ==
  ASSUME IInv, in < Count, NEW S, ShapeInv(S), Now.op \notin {"prfm", "adrp"},
         NEW k \in 0..3, NEW w \in Fitting, NEW spot \in Nat, NEW waits,
         Move(Nops(k) \o <<w>>, k + 1, spot, waits),
         spot \in OutAddr..OutAddr + k,
         NEW T, Grows(S, T, k, 1),
         \A m, j : m = Len(out) + k + 1 /\ j = in => NearWord(m, j, T)',
         \A f \in waits : Waiting(f, T)'
  PROVE  ShapedNext
<1> DEFINE ws == <<w>>
           n  == 1
<1>1. ws \in Seq(Fitting) /\ Len(ws) = n /\ n \in 1..6 /\ n \in Nat
  BY OneWord
<1>2. k + 1 \in Nat /\ k + 1 > k /\ k + 1 >= k /\ k \in Nat
  OBVIOUS
<1>3. Move(Nops(k) \o ws, k + 1, spot, waits) /\ Grows(S, T, k, n)
  OBVIOUS
<1> HIDE DEF ws, n
<1>4. Grown(ws, k, n, k + 1, spot, waits)
  BY <1>1, <1>2, <1>3, GrownIs
<1>5. Extended(S, T, k, spot)
  BY <1>1, <1>2, <1>3, GrownExtends
<1>6. Len(out) \in Nat /\ Len(out') = Len(out) + k + n /\ Count' = Count
  BY <1>4 DEF Grown
<1>7. \A m : m = Len(out) + k + 1 => Opens(m, T)'
  <2> SUFFICES ASSUME NEW m, m = Len(out) + k + 1 PROVE NearCore(m, T)'
    BY DEF Opens
  <2>1. m \in Len(out) + 1..Len(out) + k + 1 /\ m + 1 = Len(out') + 1
    BY <1>2, <1>6 DEF n
  <2>2. org'[m] = in
    BY <1>5, <2>1 DEF Extended
  <2>3. NearWord(m, org[m], T)' /\ Leads(m + 1, org[m] + 1, T)'
    BY <1>5, <2>1, <2>2 DEF Extended
  <2> QED BY <1>6, <2>2, <2>3 DEF NearCore
<1>8. ShapeInv(T)'
  BY <1>1, <1>2, <1>3, <1>7, GrownShape
<1> QED BY <1>8 DEF ShapedNext

LEMMA Regroup ==
  ASSUME NEW a \in Seq(Fitting), NEW b \in Seq(Fitting), NEW c \in Seq(Fitting)
  PROVE  (a \o b) \o c = a \o (b \o c)
OBVIOUS

LEMMA NoPad ==
  ASSUME NEW ws \in Seq(Fitting)
  PROVE  Nops(0) \o ws = ws
<1>1. Nops(0) = << >>
  BY DEF Nops
<1> QED BY <1>1

LEMMA PrefetchShape ==
  ASSUME IInv, NEW S, ShapeInv(S), FixPrefetch
  PROVE  ShapedNext
<1> DEFINE ws == << >>
<1>1. in < Count /\ Now.op = "prfm" /\ Move(ws, 0, OutAddr, {}) /\ ws \in Seq(Fitting) /\ Len(ws) = 0
  BY DEF FixPrefetch, Fixing
<1>2. OutAddr \in Nat /\ in \in Nat /\ Count \in 1..MaxInstructions /\ in \in 0..Count - 1 /\ MaxInstructions \in Nat
      /\ outBase \in Nat /\ Len(out) \in Nat /\ Len(out) <= 9 * in /\ TrampolineSize = 10 * MaxInstructions
  <2>1. Count \in 1..MaxInstructions /\ in \in Nat /\ outBase \in Nat /\ Len(out) \in Nat
    BY WindowFacts DEF IInv
  <2>2. Len(out) <= 9 * in
    BY <1>1, <2>1 DEF IInv, Bound
  <2> QED BY <1>1, <2>1, <2>2, RowAssumption DEF OutAddr
<1> HIDE DEF ws
<1>10. PICK spot \in Nat : spot = OutAddr
  BY <1>2
<1> DEFINE none == {}
<1>3. Moved(ws, 0, spot, none)
  BY <1>1, <1>2, <1>10, MoveIs
<1> HIDE DEF none
<1>4. /\ in' = in + 1 /\ code' = code /\ outBase' = outBase /\ Count' = Count
      /\ Len(out') = Len(out) /\ Len(out') \in Nat
      /\ dat' = [dat EXCEPT ![in + 1] = spot]
      /\ fmap' = {f \in fmap : f.to # in} \cup none
      /\ \A k \in 1..Len(out) :
           /\ org'[k] = org[k]
           /\ out'[k] = IF [at |-> k, to |-> in] \in fmap
                        THEN [out[k] EXCEPT !.imm = Field(out[k].op, spot - AddrOf(k))]
                        ELSE out[k]
  BY <1>1, <1>2, <1>3 DEF Moved
<1>5. Same(in + 1, in)
  BY <1>1, <1>2, SamePast DEF IInv, Same, Now
<1>6. S \subseteq 1..Len(out) + 1 /\ Len(out) + 1 \in S /\ \A f \in fmap : Waiting(f, S)
  BY <1>1, <1>2 DEF ShapeInv
<1>7. \A m, j : m = Len(out) + 1 /\ (j = in \/ j = in + 1) => Leads(m, j, S)'
  <2> SUFFICES ASSUME NEW m, NEW j, m = Len(out) + 1, j = in \/ j = in + 1 PROVE Leads(m, j, S)'
    OBVIOUS
  <2>1. Index(m)' = in + 1
    BY <1>2, <1>4 DEF Index
  <2>2. Same(in + 1, j)
    BY <1>5 DEF Same
  <2>3. \A e : e = in + 1 => Same(e, j)'
    BY <1>4, <2>2, SameStays
  <2> QED BY <1>6, <2>1, <2>3 DEF Leads
<1>8. spot - outBase + 1 = Len(out) + 1 /\ spot \in Row(outBase)
  <2>1. in + 1 <= MaxInstructions
    BY <1>2
  <2>2. Len(out) < TrampolineSize
    BY <1>2, <2>1
  <2> QED BY <1>2, <1>10, <2>2 DEF OutAddr, Row
<1>9. \A j \in {in} : Leads(spot - outBase + 1, j, S)'
  BY <1>4, <1>7, <1>8
<1>11. Extends(S, S, spot)
  <2>1. \A m \in {Len(out) + 1} : Same(Index(m)', in)
    BY <1>2, <1>4, <1>5 DEF Index
  <2>2. S \subseteq S /\ S \cap 1..Len(out) \subseteq S
    OBVIOUS
  <2>3. Len(out) <= Len(out')
    BY <1>4
  <2> QED BY <1>4, <1>8, <1>9, <2>1, <2>2, <2>3 DEF Extends
<1>12. /\ Leads(1, 0, S)'
       /\ \A m \in S : m <= Len(out) => (Opens(m, S) /\ OpAt(org[m]) # "prfm")'
       /\ \A j \in 0..Count - 1 : j < in' /\ code[j + 1].op # "adrp" => Leads(dat[j + 1] - outBase + 1, j, S)'
  <2>2. S \subseteq 1..Len(out') + 1
    BY <1>4, <1>6
  <2> QED BY <1>1, <1>4, <1>9, <1>11, <2>2, RestStays
<1>13. \A f \in fmap' : Waiting(f, S)'
  <2>1. \A f \in fmap' : f \in fmap /\ f.to # in
    BY <1>4 DEF none
  <2> QED BY <1>1, <1>11, <2>1, WaitingStays
<1>14. ShapeInv(S)'
  <2>1. in' <= Count' /\ Len(out') + 1 \in S /\ S \subseteq 1..Len(out') + 1
    BY <1>2, <1>4, <1>6
  <2> QED BY <1>4, <1>12, <1>13, <2>1 DEF ShapeInv
<1> QED BY <1>14 DEF ShapedNext

\* A branch or an adr that keeps its form names what its instruction named.
LEMMA BranchShape ==
  ASSUME IInv, in < Count, NEW S, ShapeInv(S), Now.op \in {"adr"} \cup JumpOps,
         NEW to, to = Label(code, in), NEW w \in Fitting, w.op = Now.op,
         w.imm = Field(Now.op, NearOffset(to)),
         Now.op = "adr" => w.rd = Now.rd /\ w.lo = Now.lo,
         Move(<<w>>, 1, OutAddr, Waits(to)),
         InWindow(to) => code[to - Base + 1].op # "adrp",
         ~InWindow(to) => -CPU!Half(Now.op) <= to - OutAddr /\ to - OutAddr < CPU!Half(Now.op)
  PROVE  ShapedNext
<1> DEFINE k == 0
           n == 1
           p == Len(out) + 1
           h == CPU!Half(Now.op)
           x == NearOffset(to)
           due == 1
<1>1. /\ in \in 0..Count - 1 /\ in \in Nat /\ Count \in 1..MaxInstructions /\ Base \in Nat /\ outBase \in Nat
      /\ Len(out) \in Nat /\ Len(out) < TrampolineSize /\ TrampolineSize <= h /\ h \in Nat /\ OutAddr \in Nat
      /\ TrampolineSize \in Nat /\ OutAddr = outBase + Len(out) /\ InAddr = Base + in
  <2>1. Count \in 1..MaxInstructions /\ in \in 0..Count - 1 /\ in \in Nat /\ outBase \in Nat /\ Len(out) \in Nat
    BY WindowFacts DEF IInv
  <2>2. Len(out) <= 9 * in
    BY <2>1 DEF IInv, Bound
  <2>3. TrampolineSize = 10 * MaxInstructions /\ MaxInstructions \in Nat /\ in + 1 <= MaxInstructions
    BY <2>1, RowAssumption
  <2>4. TrampolineSize <= CPU!Half(Now.op) /\ CPU!Half(Now.op) \in Nat
    BY RowFacts, HalfPositive DEF JumpOps
  <2>5. Len(out) < TrampolineSize /\ TrampolineSize \in Nat
    BY <2>1, <2>2, <2>3
  <2>6. Base \in Nat
    BY WidthAssumption
  <2> QED BY <2>1, <2>4, <2>5, <2>6 DEF OutAddr, InAddr
<1>2. to \in Int
  BY <1>1, NamesAre DEF IInv
<1>3. <<w>> \in Seq(Fitting) /\ Len(<<w>>) = n
  BY OneWord
<1>4. Move(Nops(k) \o <<w>>, k + 1, OutAddr, Waits(to))
  <2>1. Nops(k) \o <<w>> = <<w>>
    BY <1>3, NoPad
  <2>2. k + 1 = 1
    OBVIOUS
  <2> QED BY <2>1, <2>2
<1>5. PICK T : Grows(S, T, k, n)
  BY DEF Grows
<1>6. k \in 0..3 /\ n \in 1..6 /\ due \in Nat /\ due >= k /\ due > k /\ k + 1 = due
  OBVIOUS
<1> DEFINE ws == <<w>>
           waits == Waits(to)
<1>28. PICK spot \in Nat : spot = OutAddr
  BY <1>1
<1>7. ws \in Seq(Fitting) /\ Len(ws) = n /\ Move(Nops(k) \o ws, due, spot, waits) /\ spot \in Nat
  BY <1>3, <1>4, <1>28
<1>27. spot \in OutAddr..OutAddr + k /\ ws[1] = w
  BY <1>1, <1>28
<1> HIDE DEF k, n, due, ws, waits
<1>8. Grown(ws, k, n, due, spot, waits)
  BY <1>6, <1>7, GrownIs
<1>9. Extended(S, T, k, spot)
  BY <1>5, <1>6, <1>7, <1>27, GrownExtends
<1>10. /\ code' = code /\ outBase' = outBase /\ Count' = Count /\ Len(out') = Len(out) + 1
       /\ fmap' = {f \in fmap : f.to # in} \cup waits
       /\ out'[p] = w /\ org'[p] = in /\ p \in T /\ p + 1 \in T
  <2>1. p \in Len(out) + 1..Len(out) + k + 1
    BY <1>1 DEF k
  <2>2. org'[p] = in
    BY <1>9, <2>1 DEF Extended
  <2>3. 1 \in 1..n /\ Len(out) + k + 1 = p
    BY <1>1 DEF k, n
  <2>4. out'[p] = w
    BY <1>8, <1>27, <2>3 DEF Grown
  <2>5. p \in T
    BY <1>5, <2>1 DEF Grows
  <2>6. p + 1 \in T
    <3>1. p + 1 = Len(out) + k + n + 1
      BY <1>1 DEF k, n
    <3> QED BY <1>5, <3>1 DEF Grows
  <2>7. Len(out') = Len(out) + 1
    BY <1>1, <1>8 DEF Grown, k, n
  <2> QED BY <1>8, <2>2, <2>4, <2>5, <2>6, <2>7 DEF Grown
<1>11. \A j : Label(code, j)' = Label(code, j) /\ \A a : (InWindow(a)' <=> InWindow(a))
  BY <1>10, SequelStays
<1>12. ASSUME ~Awaited(to) PROVE \A m, j : m = p /\ j = in => Targeted(m, j, T)'
  <2>1. InWindow(to) => \/ to = InAddr
                        \/ to - Base \in 0..in - 1
    BY <1>1, <1>2, <1>12, SMTT(30) DEF InWindow, Awaited
  <2>2. \A y : y = OutAddr + x => Reaches(y, to, T)'
    <3>1. CASE InWindow(to) /\ to = InAddr
      <4>1. x = 0
        BY <1>1, <1>12, <3>1 DEF NearOffset, MovedTo
      <4>2. \A y : y = OutAddr => Leads(y - outBase + 1, to - Base, T)'
        <5>1. to - Base = in /\ Now.op # "adrp"
          BY <1>1, <3>1 DEF JumpOps
        <5> QED BY <1>9, <1>10, <1>28, <5>1 DEF Extended
      <4> QED BY <1>1, <1>11, <3>1, <4>1, <4>2 DEF Reaches
    <3>2. CASE InWindow(to) /\ to - Base \in 0..in - 1
      <4>1. to # InAddr
        BY <1>1, <1>2, <3>2
      <4>2. x = dat[to - Base + 1] - OutAddr
        BY <1>12, <3>2, <4>1 DEF NearOffset, MovedTo
      <4>3. dat[to - Base + 1] \in Nat
        BY <1>1, <3>2, RowAssumption, SMTT(30) DEF IInv
      <4>4. OutAddr + x = dat[to - Base + 1]
        BY <1>1, <4>2, <4>3
      <4>5. Leads(dat[to - Base + 1] - outBase + 1, to - Base, S)
        <5>1. to - Base \in 0..Count - 1 /\ to - Base < in
          BY <1>1, <3>2, SMTT(30)
        <5> QED BY <3>2, <5>1 DEF ShapeInv
      <4>6. \A m : m = dat[to - Base + 1] - outBase + 1 => Leads(m, to - Base, T)'
        <5>1. \A m, j : m = dat[to - Base + 1] - outBase + 1 /\ j = to - Base => Leads(m, j, T)'
          <6>1. in \in 0..Count /\ S \subseteq 1..Len(out) + 1
            BY <1>1 DEF ShapeInv
          <6> QED BY <1>9, <4>5, <6>1, LeadsStays DEF Extended
        <5> QED BY <5>1
      <4> QED BY <1>10, <1>11, <3>2, <4>4, <4>6 DEF Reaches
    <3>3. CASE ~InWindow(to)
      <4>1. x = to - OutAddr
        BY <1>12, <3>3 DEF NearOffset
      <4>2. OutAddr + x = to
        BY <1>1, <1>2, <4>1
      <4> QED BY <1>11, <3>3, <4>2 DEF Reaches
    <3> QED BY <2>1, <3>1, <3>2, <3>3
  <2>3. x \in Int /\ -h <= x /\ x < h
    <3>1. CASE InWindow(to) /\ to = InAddr
      <4>1. x = 0
        BY <1>1, <1>12, <3>1 DEF NearOffset, MovedTo
      <4> HIDE DEF h, x
      <4> QED BY <1>1, <4>1
    <3>2. CASE InWindow(to) /\ to - Base \in 0..in - 1
      <4>1. to # InAddr
        BY <1>1, <1>2, <3>2
      <4>2. x = dat[to - Base + 1] - OutAddr
        BY <1>12, <3>2, <4>1 DEF NearOffset, MovedTo
      <4>3. dat[to - Base + 1] \in Nat
        BY <1>1, <3>2, RowAssumption, SMTT(30) DEF IInv
      <4>5. Leads(dat[to - Base + 1] - outBase + 1, to - Base, S)
        <5>1. to - Base \in 0..Count - 1 /\ to - Base < in
          BY <1>1, <3>2, SMTT(30)
        <5> QED BY <3>2, <5>1 DEF ShapeInv
      <4>6. dat[to - Base + 1] - outBase + 1 \in 1..Len(out) + 1
        BY <4>5 DEF Leads, ShapeInv
      <4> DEFINE y == dat[to - Base + 1]
      <4>7. y \in Nat /\ y - outBase + 1 \in 1..Len(out) + 1 /\ x = y - OutAddr
        BY <4>2, <4>3, <4>6
      <4> HIDE DEF y, x, h
      <4> QED BY <1>1, <4>7
    <3>3. CASE ~InWindow(to)
      <4>1. x = to - OutAddr
        BY <1>12, <3>3 DEF NearOffset
      <4> HIDE DEF x
      <4> QED BY <1>1, <1>2, <3>3, <4>1
    <3> QED BY <2>1, <3>1, <3>2, <3>3
  <2>4. CPU!Signed(w.imm, CPU!Half(w.op)) = x
    <3> DEFINE z == x
    <3>1. z \in Int /\ -CPU!Half(Now.op) <= z /\ z < CPU!Half(Now.op)
      BY <2>3
    <3> HIDE DEF z
    <3>2. CPU!Signed(Field(Now.op, z), CPU!Half(Now.op)) = z
      BY <3>1, FieldMeans
    <3> QED BY <3>2 DEF z
  <2> SUFFICES ASSUME NEW m, NEW j, m = p, j = in PROVE Targeted(m, j, T)'
    OBVIOUS
  <2>5. Aim(m)' = OutAddr + x
    <3>1. Aim(m)' = outBase + m - 1 + CPU!Signed(w.imm, CPU!Half(w.op))
      BY <1>10 DEF Aim, AddrOf, CPU!Signed, CPU!Half
    <3> HIDE DEF x
    <3> QED BY <1>1, <2>3, <2>4, <3>1
  <2> QED BY <1>11, <2>2, <2>5 DEF Targeted
<1>13. ASSUME Awaited(to) PROVE \A m, j : m = p /\ j = in => Targeted(m, j, T)'
  <2>1. waits = {[at |-> p, to |-> to - Base]} /\ InWindow(to)
    BY <1>13 DEF waits, Waits, Awaited
  <2> SUFFICES ASSUME NEW m, NEW j, m = p, j = in PROVE Targeted(m, j, T)'
    OBVIOUS
  <2>2. [at |-> m, to |-> to - Base] \in fmap'
    BY <1>10, <2>1
  <2> QED BY <1>11, <2>1, <2>2 DEF Targeted, Awaits
<1>14. \A m, j : m = Len(out) + k + 1 /\ j = in => NearWord(m, j, T)'
  <2>1. Len(out) + k + 1 = p
    BY <1>1 DEF k
  <2> SUFFICES ASSUME NEW m, NEW j, m = p, j = in PROVE NearWord(m, j, T)'
    BY <2>1
  <2>2. Targeted(m, j, T)'
    BY <1>12, <1>13
  <2>3. out'[m] = w /\ code'[j + 1] = Now
    BY <1>10 DEF Now
  <2> QED BY <2>2, <2>3 DEF NearWord, JumpOps, LoadOps
<1>15. ASSUME NEW f \in waits PROVE Waiting(f, T)'
  <2>1. f = [at |-> p, to |-> to - Base] /\ InWindow(to)
    BY <1>15 DEF waits, Waits, Awaited
  <2>2. f.at = p /\ f.to = to - Base /\ Base + f.to = to
    BY <1>1, <1>2, <2>1
  <2>3. org'[f.at] = in /\ in < Count' /\ f.at \in T /\ f.at + 1 \in T /\ out'[f.at] = w
    BY <1>10, <2>2
  <2>4. \A j : j = in => Label(code, j)' = Base + f.to
    BY <1>11, <2>2
  <2> QED BY <1>10, <2>1, <2>2, <2>3, <2>4 DEF Waiting, Now
<1> DEFINE one == 1
<1>16. Grows(S, T, k, 1) /\ Move(Nops(k) \o <<w>>, k + 1, spot, waits)
  BY <1>5, <1>6, <1>7 DEF n, ws
<1>17. Now.op \notin {"prfm", "adrp"}
  BY DEF JumpOps
<1> QED BY <1>6, <1>7, <1>14, <1>15, <1>16, <1>17, <1>27, NearShape

-----------------------------------------------------------------------------
(* Each fixer keeps the shape.                                             *)
AllHandled == Handled(code, outBase)

LEMMA HandledNow ==
  ASSUME IInv, AllHandled, in < Count, NEW to, to = Label(code, in)
  PROVE  /\ to \in Int /\ in \in 0..Count - 1 /\ in \in Nat /\ Now = code[in + 1]
         /\ Now.op \in {"bc", "tbz", "adr", "adrp"} \cup LoadOps => Now.imm < CPU!Half(Now.op)
         /\ Now.op \in {"adr"} \cup JumpOps =>
               to \notin Row(outBase) /\ (InWindow(to) => code[to - Base + 1].op # "adrp")
         /\ Now.op = "adr" /\ ~InWindow(to) => Now.lo = 0 \/ OutOfReach(to, outBase)
         /\ Now.op \in LoadOps /\ ~InWindow(to) =>
               /\ \A j \in 0..Now.n - 1 : to + j \notin Row(outBase)
               /\ to > outBase \/ OutOfReach(to, outBase)
         /\ Now.op = "adrp" => ~InWindow(PageOf(code, in))
<1>1. in \in 0..Count - 1 /\ in \in Nat /\ Count \in Nat /\ Base \in Nat /\ code \in Windows /\ Now = code[in + 1]
  BY WindowFacts, WidthAssumption DEF IInv, Now
<1>2. to \in Int /\ (Now.op = "adrp" => PageOf(code, in) \in Int)
  <2>1. Label(code, in) \in Int /\ NamedBy(in) \in Int
    BY <1>1, NamesAre
  <2>2. PageOf(code, in) \in Int
    <3>1. PageWords \in Nat \ {0} /\ H21 \in Nat /\ code[in + 1].imm \in Nat
      BY <1>1, WidthAssumption, NamesAre
    <3>2. (Base + in) % PageWords \in Int
      <4> DEFINE y == Base + in
      <4>1. y \in Int
        BY <1>1
      <4> HIDE DEF y
      <4>2. y % PageWords \in Int
        BY <3>1, <4>1, ModBound
      <4> QED BY <4>2 DEF y
    <3>3. CPU!Signed(code[in + 1].imm, H21) \in Int
      BY <3>1, SignedInt
    <3>4. PageWords * CPU!Signed(code[in + 1].imm, H21) \in Int
      BY <3>1, <3>3
    <3> QED BY <1>1, <3>2, <3>4 DEF PageOf
  <2> QED BY <2>1, <2>2
<1>3. \A a \in Int : Among(code, a) <=> InWindow(a)
  BY <1>1 DEF Among, InWindow, Count
<1>4. in \in 0..Len(code) - 1
  BY <1>1 DEF Count
<1> QED BY <1>1, <1>2, <1>3, <1>4 DEF AllHandled, Handled

LEMMA BranchKeepsShape ==
  ASSUME IInv, AllHandled, NEW S, ShapeInv(S), FixBranch
  PROVE  ShapedNext
<1>1. in < Count /\ Now.op \in {"b", "bl"}
  BY DEF FixBranch, Fixing
<1>2. PICK to : to = Label(code, in)
  OBVIOUS
<1>3. /\ to \in Int /\ in \in 0..Count - 1 /\ in \in Nat /\ Now = code[in + 1]
      /\ InWindow(to) => code[to - Base + 1].op # "adrp"
  BY <1>1, <1>2, HandledNow DEF JumpOps
<1>4. BranchTarget = to
  BY <1>1, <1>2, <1>3 DEF BranchTarget, Label, InAddr, CPU!Half
<1>5. Now \in Fitting /\ OutAddr \in Nat
  BY <1>1, NowFacts
<1>6. ASSUME NEW k \in 0..3, Move(Nops(k) \o Sequel(in), k + DueOf(in), OutAddr + k, {}),
             k = Padding(LiteralAt(in), 2)
      PROVE  ShapedNext
  <2>1. PICK spot \in Nat : spot = OutAddr + k
    BY <1>5
  <2>2. spot \in OutAddr..OutAddr + k /\ Now.op \in Replaceable
    BY <1>1, <1>5, <2>1 DEF Replaceable, JumpOps
  <2>3. LiteralSize(in) = 2 /\ LiteralAt(in) \in Nat
    BY <1>1, <1>3 DEF LiteralSize, LiteralAt, LoadOps
  <2>4. (OutAddr + k + LiteralAt(in)) % LiteralSize(in) = 0
    BY <1>6, <2>3, PadLies
  <2> QED BY <1>1, <1>6, <2>1, <2>2, <2>4, FarShape
<1>7. CASE TooFar(to, H26) /\ Now.op = "b"
  <2>1. Sequel(in) = FarJump(to)
    BY <1>2, <1>3, <1>7 DEF Sequel, LoadOps
  <2>2. Len(FarJump(to)) = 4
    BY <1>3, FarFits
  <2>3. DueOf(in) = 4
    BY <1>3, <1>7, <2>1, <2>2 DEF DueOf, JumpOps
  <2>4. Padding(2, 2) \in 0..1
    BY PaddingPair
  <2>5. PICK k \in 0..3 : k = Padding(2, 2)
    BY <2>4
  <2>6. Move(Nops(k) \o FarJump(to), k + 4, OutAddr + k, {})
    BY <1>1, <1>4, <1>7, <2>5 DEF FixBranch
  <2>7. LiteralAt(in) = 2
    BY <1>3, <1>7 DEF LiteralAt
  <2> QED BY <1>6, <2>1, <2>3, <2>5, <2>6, <2>7
<1>8. CASE TooFar(to, H26) /\ Now.op = "bl"
  <2>1. Sequel(in) = FarCall(to)
    BY <1>2, <1>3, <1>8 DEF Sequel, LoadOps
  <2>2. Len(FarCall(to)) = 5
    BY <1>3, FarFits
  <2>3. DueOf(in) = 5
    BY <1>3, <1>8, <2>1, <2>2 DEF DueOf, JumpOps
  <2>4. Padding(3, 2) \in 0..1
    BY PaddingPair
  <2>5. PICK k \in 0..3 : k = Padding(3, 2)
    BY <2>4
  <2>6. Move(Nops(k) \o FarCall(to), k + 5, OutAddr + k, {})
    BY <1>1, <1>4, <1>8, <2>5 DEF FixBranch
  <2>7. LiteralAt(in) = 3
    BY <1>3, <1>8 DEF LiteralAt
  <2> QED BY <1>6, <2>1, <2>3, <2>5, <2>6, <2>7
<1>9. CASE ~TooFar(to, H26)
  <2>1. PICK w : w = [Now EXCEPT !.imm = Field(Now.op, NearOffset(to))]
    OBVIOUS
  <2>2. w \in Fitting /\ w.op = Now.op /\ w.imm = Field(Now.op, NearOffset(to))
    <3>1. NearOffset(to) \in Int
      BY <1>1, <1>3, NearOffsetInt
    <3>2. w \in Fitting
      BY <1>5, <2>1, <3>1, PatchedFits
    <3> QED BY <1>5, <2>1, <3>2 DEF Fitting, OutWords
  <2>3. Move(<<w>>, 1, OutAddr, Waits(to))
    BY <1>4, <1>9, <2>1 DEF FixBranch, Near
  <2>4. ~InWindow(to) => -CPU!Half(Now.op) <= to - OutAddr /\ to - OutAddr < CPU!Half(Now.op)
    <3>1. CPU!Half(Now.op) = H26 /\ H26 \in Nat
      BY <1>1, WidthAssumption DEF CPU!Half
    <3> QED BY <1>3, <1>5, <1>9, <3>1 DEF TooFar, Distance
  <2> QED BY <1>1, <1>2, <1>3, <2>2, <2>3, <2>4, BranchShape DEF JumpOps
<1> QED BY <1>1, <1>7, <1>8, <1>9

LEMMA CondKeepsShape ==
  ASSUME IInv, AllHandled, NEW S, ShapeInv(S), FixCond
  PROVE  ShapedNext
<1>1. in < Count /\ Now.op \in {"bc", "tbz"}
  BY DEF FixCond, Fixing
<1>2. PICK to : to = Label(code, in)
  OBVIOUS
<1>3. /\ to \in Int /\ in \in 0..Count - 1 /\ in \in Nat /\ Now = code[in + 1]
      /\ InWindow(to) => code[to - Base + 1].op # "adrp"
      /\ Now.imm < CPU!Half(Now.op)
  BY <1>1, <1>2, HandledNow DEF JumpOps
<1>5. Now \in Fitting /\ OutAddr \in Nat /\ Now.imm \in Nat
  BY <1>1, NowFacts
<1>4. CondTarget = to
  <2>1. CPU!Signed(Now.imm, CPU!Half(Now.op)) = Now.imm
    BY <1>3, <1>5, HalfPositive DEF CPU!Signed
  <2> QED BY <1>2, <1>3, <2>1 DEF CondTarget, Label, InAddr
<1>7. CASE TooFar(to, CPU!Half(Now.op))
  <2>1. Sequel(in) = <<[Now EXCEPT !.imm = 2], B(5)>> \o FarJump(to)
    BY <1>1, <1>2, <1>3 DEF Sequel, LoadOps
  <2>2. DueOf(in) = 6
    BY <1>1, <1>3, SequelIs DEF Replaceable, JumpOps
  <2>3. Padding(4, 2) \in 0..1
    BY PaddingPair
  <2>4. PICK k \in 0..3 : k = Padding(4, 2)
    BY <2>3
  <2>5. PICK spot \in Nat : spot = OutAddr
    BY <1>5
  <2>6. Move(Nops(k) \o Sequel(in), k + DueOf(in), spot, {})
    <3>1. Move((Nops(k) \o <<[Now EXCEPT !.imm = 2], B(5)>>) \o FarJump(to), k + 6, spot, {})
      BY <1>4, <1>7, <2>4, <2>5 DEF FixCond
    <3>2. (Nops(k) \o <<[Now EXCEPT !.imm = 2], B(5)>>) \o FarJump(to) = Nops(k) \o Sequel(in)
      <4>1. Nops(k) \in Seq(Fitting) /\ FarJump(to) \in Seq(Fitting)
        BY <1>3, FarFits, NopsFit
      <4>2. [Now EXCEPT !.imm = 2] \in Fitting /\ B(5) \in Fitting
        <5>1. 2 \in 0..2 * CPU!Half(Now.op) - 1 /\ 5 \in 0..9
          BY <1>1, WidthsReach, HalfPositive
        <5> QED BY <1>5, <5>1, Renewed, ShortFits
      <4>3. <<[Now EXCEPT !.imm = 2], B(5)>> \in Seq(Fitting)
        BY <4>2, PairFits
      <4> QED BY <2>1, <4>1, <4>3, Regroup, SMTT(30)
    <3> QED BY <2>2, <3>1, <3>2
  <2>7. spot \in OutAddr..OutAddr + k /\ Now.op \in Replaceable
    BY <1>1, <1>5, <2>5 DEF Replaceable, JumpOps
  <2>8. LiteralAt(in) = 4 /\ LiteralSize(in) = 2
    BY <1>1, <1>3 DEF LiteralAt, LiteralSize, LoadOps
  <2>9. (OutAddr + k + LiteralAt(in)) % LiteralSize(in) = 0
    BY <2>4, <2>8, PadLies
  <2> QED BY <1>1, <2>6, <2>7, <2>9, FarShape
<1>9. CASE ~TooFar(to, CPU!Half(Now.op))
  <2>1. PICK w : w = [Now EXCEPT !.imm = Field(Now.op, NearOffset(to))]
    OBVIOUS
  <2>2. w \in Fitting /\ w.op = Now.op /\ w.imm = Field(Now.op, NearOffset(to))
    <3>1. NearOffset(to) \in Int
      BY <1>1, <1>3, NearOffsetInt
    <3>2. w \in Fitting
      BY <1>5, <2>1, <3>1, PatchedFits
    <3> QED BY <1>5, <2>1, <3>2 DEF Fitting, OutWords
  <2>3. Move(<<w>>, 1, OutAddr, Waits(to))
    BY <1>4, <1>9, <2>1 DEF FixCond, Near
  <2>4. ~InWindow(to) => -CPU!Half(Now.op) <= to - OutAddr /\ to - OutAddr < CPU!Half(Now.op)
    <3>1. CPU!Half(Now.op) \in Nat
      BY HalfPositive
    <3> DEFINE h == CPU!Half(Now.op)
    <3>2. h \in Nat /\ ~TooFar(to, h)
      BY <1>9, <3>1
    <3> HIDE DEF h
    <3>3. ~InWindow(to) => -h <= to - OutAddr /\ to - OutAddr < h
      BY <1>3, <1>5, <3>2 DEF TooFar, Distance
    <3> QED BY <3>3 DEF h
  <2> QED BY <1>1, <1>2, <1>3, <2>2, <2>3, <2>4, BranchShape DEF JumpOps
<1> QED BY <1>7, <1>9

LEMMA PlainKeepsShape ==
  ASSUME IInv, NEW S, ShapeInv(S), FixPlain
  PROVE  ShapedNext
<1>1. in < Count /\ Now.op = "plain" /\ Move(<<Now>>, 1, OutAddr, {})
  BY DEF FixPlain, Fixing
<1>2. Now \in Fitting /\ OutAddr \in Nat
  BY <1>1, NowFacts
<1>3. PICK w \in Fitting : w = Now
  BY <1>2
<1>4. PICK spot \in Nat : spot = OutAddr
  BY <1>2
<1> DEFINE k == 0
           ws == <<w>>
           none == {}
           n == 1
           due == k + 1
<1>5. PICK T : Grows(S, T, k, 1)
  BY DEF Grows
<1>6. Move(Nops(k) \o <<w>>, k + 1, spot, none)
  <2>1. Nops(k) \o <<w>> = <<w>>
    BY OneWord, NoPad
  <2>2. k + 1 = 1
    OBVIOUS
  <2> QED BY <1>1, <1>3, <1>4, <2>1, <2>2
<1>7. k \in 0..3 /\ spot \in OutAddr..OutAddr + k /\ \A f \in none : Waiting(f, T)'
  BY <1>2, <1>4
<1>8. \A m, j : m = Len(out) + k + 1 /\ j = in => NearWord(m, j, T)'
  <2>0. ws \in Seq(Fitting) /\ Len(ws) = n /\ n \in 1..6 /\ ws[1] = w /\ due \in Nat /\ due >= k
    BY OneWord
  <2>1. Move(Nops(k) \o ws, due, spot, none)
    BY <1>6
  <2> HIDE DEF ws, none, n, due
  <2>2. Grown(ws, k, n, due, spot, none)
    BY <1>1, <1>7, <2>0, <2>1, GrownIs
  <2>3. 1 \in 1..n
    BY DEF n
  <2>4. out'[Len(out) + k + 1] = w /\ code' = code
    BY <2>0, <2>2, <2>3 DEF Grown
  <2> SUFFICES ASSUME NEW m, NEW j, m = Len(out) + k + 1, j = in PROVE NearWord(m, j, T)'
    OBVIOUS
  <2>5. out'[m] = w /\ code'[j + 1] = w
    BY <1>3, <2>4 DEF Now
  <2> QED BY <1>1, <1>3, <2>5 DEF NearWord, JumpOps, LoadOps
<1> HIDE DEF k, none
<1> QED BY <1>1, <1>5, <1>6, <1>7, <1>8, NearShape

\* The offset of a load, adr or adrp that names what is ahead.
LEMMA AheadIs ==
  ASSUME NEW f \in Nat, NEW h \in Nat \ {0}, f < h, h <= Int32
  PROVE  CPU!Signed(f, h) = f /\ CPU!Signed(f, h) % Int32 = f
<1>1. CPU!Signed(f, h) = f
  BY DEF CPU!Signed
<1>2. Int32 \in Nat \ {0} /\ f < Int32
  <2>1. Int32 \in Int
    BY WidthAssumption
  <2> QED BY <2>1
<1>3. f % Int32 = f
  <2> DEFINE m == Int32
  <2>1. m \in Nat \ {0} /\ f < m
    BY <1>2
  <2> HIDE DEF m
  <2>2. f % m = f
    BY <2>1
  <2> QED BY <2>2 DEF m
<1> QED BY <1>1, <1>3

LEMMA AdrKeepsShape ==
  ASSUME IInv, AllHandled, NEW S, ShapeInv(S), FixAdr
  PROVE  ShapedNext
<1>1. in < Count /\ Now.op = "adr"
  BY DEF FixAdr, Fixing
<1>2. PICK to : to = Label(code, in)
  OBVIOUS
<1>3. /\ to \in Int /\ in \in 0..Count - 1 /\ in \in Nat /\ Now = code[in + 1]
      /\ InWindow(to) => code[to - Base + 1].op # "adrp"
      /\ Now.imm < H19 /\ CPU!Half(Now.op) = H19
      /\ to \notin Row(outBase)
      /\ ~InWindow(to) => Now.lo = 0 \/ OutOfReach(to, outBase)
  BY <1>1, <1>2, HandledNow DEF JumpOps, CPU!Half
<1>5. Now \in Fitting /\ OutAddr \in Nat /\ Now.imm \in Nat /\ Now.lo \in 0..3 /\ Now.rd \in 0..31
      /\ H19 \in Nat \ {0} /\ OutAddr \in Row(outBase)
  <2>1. Now.rd \in 0..31
    <3>1. Now \in InWords
      BY <1>3, WindowFacts DEF IInv, Count
    <3> QED BY <3>1 DEF InWords
  <2>2. OutAddr \in Row(outBase)
    <3>1. Count \in 1..MaxInstructions /\ outBase \in Nat /\ Len(out) \in Nat
      BY WindowFacts DEF IInv
    <3>2. Len(out) <= 9 * in
      BY <1>1, <1>3, <3>1 DEF IInv, Bound
    <3>3. TrampolineSize = 10 * MaxInstructions /\ MaxInstructions \in Nat /\ in + 1 <= MaxInstructions
      BY <1>3, <3>1, RowAssumption
    <3>4. Len(out) < TrampolineSize
      BY <1>3, <3>1, <3>2, <3>3
    <3> QED BY <3>1, <3>3, <3>4 DEF OutAddr, Row
  <2> QED BY <1>1, <2>1, <2>2, NowFacts, WidthAssumption
<1>4. AdrTarget = 4 * to + Now.lo /\ AdrTarget \in Int
  <2>1. CPU!Signed(Now.imm, H19) = Now.imm /\ CPU!Signed(Now.imm, H19) % Int32 = Now.imm
    BY <1>3, <1>5, AheadIs, WidthAssumption
  <2>2. to = InAddr + Now.imm
    BY <1>2, <1>3, <2>1 DEF Label, InAddr
  <2>3. AdrTarget = 4 * (InAddr + Now.imm) + Now.lo
    BY <2>1 DEF AdrTarget
  <2> QED BY <1>3, <1>5, <2>2, <2>3
<1>6. AdrTarget \div 4 = to
  BY <1>3, <1>4, <1>5
<1>7. CASE ~InWindow(to) /\ Distance(AdrTarget, 4 * OutAddr) >= 4 * H19 - 1
  <2>1. Sequel(in) = FarLoad(Now.rd, AdrTarget)
    BY <1>1, <1>2, <1>3, <1>4 DEF Sequel, NamedBy, LoadOps
  <2>2. DueOf(in) = 1
    BY <1>1, <1>3 DEF DueOf, JumpOps
  <2>3. Padding(2, 2) \in 0..1
    BY PaddingPair
  <2>4. PICK k \in 0..3 : k = Padding(2, 2)
    BY <2>3
  <2>5. PICK spot \in Nat : spot = OutAddr + k
    BY <1>5
  <2>6. Move(Nops(k) \o Sequel(in), k + DueOf(in), spot, {})
    BY <1>6, <1>7, <2>1, <2>2, <2>4, <2>5 DEF FixAdr
  <2>7. spot \in OutAddr..OutAddr + k /\ Now.op \in Replaceable
    BY <1>1, <1>5, <2>5 DEF Replaceable
  <2>8. LiteralAt(in) = 2 /\ LiteralSize(in) = 2
    BY <1>1, <1>3 DEF LiteralAt, LiteralSize, LoadOps
  <2>9. (OutAddr + k + LiteralAt(in)) % LiteralSize(in) = 0
    BY <2>4, <2>8, PadLies
  <2> QED BY <1>1, <2>6, <2>7, <2>9, FarShape
<1>9. CASE ~(~InWindow(to) /\ Distance(AdrTarget, 4 * OutAddr) >= 4 * H19 - 1)
  <2> DEFINE low == IF InWindow(to) THEN 0 ELSE Now.lo
  <2>1. low = 0
    <3> SUFFICES ASSUME ~InWindow(to), Now.lo # 0 PROVE FALSE
      OBVIOUS
    <3>1. Distance(to, OutAddr) > H19
      BY <1>3, <1>5 DEF OutOfReach
    <3>2. Distance(AdrTarget, 4 * OutAddr) >= 4 * H19 - 1
      BY <1>3, <1>4, <1>5, <3>1 DEF Distance
    <3> QED BY <1>9, <3>2
  <2>2. Smudged(Now.rd, 0) = Now.rd
    <3> SUFFICES ASSUME NEW r \in 0..31 PROVE (r % 8) + 8 * OrBits(r \div 8, 0) = r
      BY <1>5 DEF Smudged
    <3>1. r \div 8 \in 0..3 /\ r = 8 * (r \div 8) + (r % 8) /\ r % 8 \in 0..7
      OBVIOUS
    <3>2. \A q \in 0..3 : OrBits(q, 0) = q
      BY DEF OrBits
    <3> QED BY <3>1, <3>2
  <2>3. PICK w : w = [Now EXCEPT !.imm = Field("adr", NearOffset(to)), !.rd = Smudged(@, low)]
    OBVIOUS
  <2>4. w = [Now EXCEPT !.imm = Field(Now.op, NearOffset(to))]
    BY <1>1, <1>5, <2>1, <2>2, <2>3 DEF Fitting, OutWords
  <2>5. /\ w \in Fitting /\ w.op = Now.op /\ w.imm = Field(Now.op, NearOffset(to))
        /\ w.rd = Now.rd /\ w.lo = Now.lo
    <3>1. NearOffset(to) \in Int
      BY <1>1, <1>3, NearOffsetInt
    <3>2. w \in Fitting
      BY <1>5, <2>4, <3>1, PatchedFits
    <3> QED BY <1>5, <2>4, <3>2 DEF Fitting, OutWords
  <2>6. Move(<<w>>, 1, OutAddr, Waits(to))
    BY <1>6, <1>9, <2>3 DEF FixAdr
  <2>7. ~InWindow(to) => -CPU!Half(Now.op) <= to - OutAddr /\ to - OutAddr < CPU!Half(Now.op)
    BY <1>3, <1>4, <1>5, <1>9 DEF Distance
  <2> QED BY <1>1, <1>2, <1>3, <2>5, <2>6, <2>7, BranchShape
<1> QED BY <1>7, <1>9

LEMMA AdrpKeepsShape ==
  ASSUME IInv, AllHandled, NEW S, ShapeInv(S), FixAdrp
  PROVE  ShapedNext
<1>1. in < Count /\ Now.op = "adrp"
  BY DEF FixAdrp, Fixing
<1>2. /\ in \in 0..Count - 1 /\ in \in Nat /\ Now = code[in + 1]
      /\ Now.imm < H21 /\ ~InWindow(PageOf(code, in))
  BY <1>1, HandledNow DEF CPU!Half
<1>3. OutAddr \in Nat /\ Now.imm \in Nat
  BY <1>1, NowFacts
<1>4. AdrpTarget = PageOf(code, in)
  <2>1. H21 \in Nat /\ PageWords \in Nat \ {0} /\ Int32 = H21 * PageWords
    BY WidthAssumption
  <2>2. CPU!Signed(Now.imm, H21) = Now.imm
    BY <1>2, <1>3, <2>1 DEF CPU!Signed
  <2> DEFINE x == PageWords * Now.imm
  <2>3. x \in Nat /\ x < Int32 /\ Int32 \in Nat \ {0}
    <3> DEFINE f == Now.imm
    <3>1. f \in Nat /\ f + 1 <= H21
      BY <1>2, <1>3, <2>1
    <3> HIDE DEF f
    <3>2. PageWords * (f + 1) <= PageWords * H21
      BY <2>1, <3>1
    <3>3. PageWords * (f + 1) = PageWords * f + PageWords /\ PageWords * H21 = H21 * PageWords /\ PageWords * f \in Nat
      BY <2>1, <3>1
    <3>4. PageWords * f < Int32
      BY <2>1, <3>2, <3>3
    <3> QED BY <2>1, <3>3, <3>4 DEF f
  <2>4. x % Int32 = x
    <3> DEFINE m == Int32
    <3>1. m \in Nat \ {0} /\ x \in Nat /\ x < m
      BY <2>3
    <3> HIDE DEF m, x
    <3>2. x % m = x
      BY <3>1
    <3> QED BY <3>2 DEF m
  <2>5. (PageWords * CPU!Signed(Now.imm, H21)) % Int32 = PageWords * Now.imm
    BY <2>2, <2>4
  <2>6. CPU!Signed(code[in + 1].imm, H21) = Now.imm
    BY <1>2, <2>2
  <2> DEFINE q == (Base + in) % PageWords
             y == PageWords * Now.imm
  <2>7. AdrpTarget = ((Base + in) - q) + y /\ PageOf(code, in) = (Base + (in - q)) + y
    BY <2>5, <2>6 DEF AdrpTarget, PageOf, InAddr
  <2>8. q \in Int /\ y \in Int /\ Base \in Nat
    <3> DEFINE z == Base + in
    <3>1. z \in Int /\ Base \in Nat
      BY <1>2, WidthAssumption
    <3> HIDE DEF z
    <3>2. z % PageWords \in Int
      BY <2>1, <3>1, ModBound
    <3> QED BY <2>3, <3>1, <3>2 DEF z
  <2> HIDE DEF q, y
  <2> QED BY <1>2, <2>7, <2>8
<1>5. Sequel(in) = FarLoad(Now.rd, 4 * AdrpTarget)
  BY <1>1, <1>2, <1>4 DEF Sequel, NamedBy, LoadOps
<1>6. DueOf(in) = 1
  BY <1>1, <1>2 DEF DueOf, JumpOps
<1>7. Padding(2, 2) \in 0..1
  BY PaddingPair
<1>8. PICK k \in 0..3 : k = Padding(2, 2)
  BY <1>7
<1>9. PICK spot \in Nat : spot = IF k = 0 THEN OutAddr + RwShift ELSE OutAddr + k
  BY <1>3, WidthAssumption
<1>10. Move(Nops(k) \o Sequel(in), k + DueOf(in), spot, {})
  BY <1>2, <1>4, <1>5, <1>6, <1>8, <1>9 DEF FixAdrp
<1>11. Now.op \in Replaceable
  BY <1>1 DEF Replaceable
<1>12. LiteralAt(in) = 2 /\ LiteralSize(in) = 2
  BY <1>1, <1>2 DEF LiteralAt, LiteralSize, LoadOps
<1>13. (OutAddr + k + LiteralAt(in)) % LiteralSize(in) = 0
  BY <1>8, <1>12, PadLies
<1> QED BY <1>1, <1>10, <1>11, <1>13, FarShape

LEMMA LoadedWord ==
  ASSUME IInv, NEW i \in 0..Count - 1, code[i + 1].op = "ldrsw"
  PROVE  code[i + 1].n = 1
<1>1. code \in Windows /\ i + 1 \in 1..Len(code)
  BY WindowFacts DEF IInv, Count
<1> QED BY <1>1, WindowAssumption

LEMMA LiteralKeepsShape ==
  ASSUME IInv, AllHandled, NEW S, ShapeInv(S), FixLiteral
  PROVE  ShapedNext
<1>1. in < Count /\ Now.op \in LoadOps
  BY DEF FixLiteral, Fixing, LoadOps
<1>2. PICK to : to = Label(code, in)
  OBVIOUS
<1>3. /\ to \in Int /\ in \in 0..Count - 1 /\ in \in Nat /\ Now = code[in + 1]
      /\ Now.imm < H19 /\ CPU!Half(Now.op) = H19
      /\ ~InWindow(to) => /\ \A j \in 0..Now.n - 1 : to + j \notin Row(outBase)
                          /\ to > outBase \/ OutOfReach(to, outBase)
  BY <1>1, <1>2, HandledNow DEF LoadOps, CPU!Half
<1>5. /\ Now \in Fitting /\ OutAddr \in Nat /\ Now.imm \in Nat /\ H19 \in Nat \ {0}
      /\ Now.n \in {1, 2, 4} /\ Room(Now) \in {1, 2, 4} /\ Now.n <= Room(Now)
      /\ outBase \in Nat /\ Len(out) \in Nat /\ TrampolineSize \in Nat /\ Len(out) + 4 < TrampolineSize
      /\ TrampolineSize <= H19
  <2>1. Count \in 1..MaxInstructions /\ outBase \in Nat /\ Len(out) \in Nat
    BY WindowFacts DEF IInv
  <2>2. Len(out) <= 9 * in
    BY <1>1, <1>3, <2>1 DEF IInv, Bound
  <2>3. TrampolineSize = 10 * MaxInstructions /\ MaxInstructions \in Nat /\ in + 1 <= MaxInstructions
    BY <1>3, <2>1, RowAssumption
  <2>4. Len(out) + 4 < TrampolineSize /\ TrampolineSize \in Nat
    BY <1>3, <2>1, <2>2, <2>3
  <2>5. Room(Now) \in {1, 2, 4} /\ Now.n <= Room(Now) /\ Now.n \in {1, 2, 4}
    <3>1. Now.n \in {1, 2, 4}
      BY <1>1, NowFacts DEF LoadOps
    <3>2. Room(Now) \in {1, 2, 4} /\ Now.n \in 1..Room(Now)
      BY <1>1, <1>3, NamesAre DEF IInv
    <3> QED BY <3>1, <3>2
  <2> QED BY <1>1, <2>1, <2>4, <2>5, NowFacts, WidthAssumption, ReachAssumption
<1>4. LiteralTarget = to
  <2>1. CPU!Signed(Now.imm, H19) = Now.imm /\ CPU!Signed(Now.imm, H19) % Int32 = Now.imm
    BY <1>3, <1>5, AheadIs, WidthAssumption
  <2> QED BY <1>2, <1>3, <2>1 DEF LiteralTarget, Label, InAddr
<1>6. PICK n : n = Room(Now) /\ n = LiteralWords
  BY DEF LiteralWords, Room
<1>7. CASE InWindow(to) \/ Distance(to, OutAddr) + n - 1 >= H19 - 1
  <2>1. Sequel(in) = <<[Now EXCEPT !.imm = 2], B(1 + n)>> \o Copy(to, n)
    BY <1>1, <1>2, <1>3, <1>6 DEF Sequel, LoadOps
  <2>2. DueOf(in) = 1
    BY <1>1, <1>3 DEF DueOf, JumpOps, LoadOps
  <2>3. Padding(2, n) \in 0..3
    <3>1. n \in Nat \ {0} /\ n <= 4 /\ 2 \in Nat
      BY <1>5, <1>6
    <3>2. Padding(2, n) \in 0..n - 1
      BY <3>1, PaddingBound
    <3> QED BY <3>1, <3>2
  <2>4. PICK k \in 0..3 : k = Padding(2, n)
    BY <2>3
  <2>5. PICK spot \in Nat : spot = OutAddr + k
    BY <1>5
  <2>6. Move(Nops(k) \o Sequel(in), k + DueOf(in), spot, {})
    <3>1. Move((Nops(k) \o <<[Now EXCEPT !.imm = 2], B(1 + n)>>) \o Copy(to, n), k + 1, spot, {})
      BY <1>4, <1>6, <1>7, <2>4, <2>5 DEF FixLiteral, Copy
    <3>2. (Nops(k) \o <<[Now EXCEPT !.imm = 2], B(1 + n)>>) \o Copy(to, n) = Nops(k) \o Sequel(in)
      <4>1. Nops(k) \in Seq(Fitting)
        BY NopsFit
      <4>2. [Now EXCEPT !.imm = 2] \in Fitting /\ B(1 + n) \in Fitting
        <5>1. 2 \in 0..2 * CPU!Half(Now.op) - 1 /\ 1 + n \in 0..9
          BY <1>1, <1>5, <1>6, WidthsReach, HalfPositive DEF LoadOps
        <5> QED BY <1>5, <5>1, Renewed, ShortFits
      <4>3. <<[Now EXCEPT !.imm = 2], B(1 + n)>> \in Seq(Fitting)
        BY <4>2, PairFits
      <4>4. Copy(to, n) \in Seq(Fitting)
        <5>1. n \in Nat /\ \A j \in 1..n : to + j - 1 \in Int
          BY <1>3, <1>5, <1>6
        <5>2. \A j \in 1..n : Memory(to + j - 1) \in Fitting
          BY <5>1, MemoryFits
        <5> QED BY <5>1, <5>2 DEF Copy
      <4> QED BY <2>1, <4>1, <4>3, <4>4, Regroup
    <3> QED BY <2>2, <3>1, <3>2
  <2>7. spot \in OutAddr..OutAddr + k /\ Now.op \in Replaceable
    BY <1>1, <1>5, <2>5 DEF Replaceable
  <2>8. LiteralAt(in) = 2 /\ LiteralSize(in) = Now.n
    BY <1>1, <1>3 DEF LiteralAt, LiteralSize, LoadOps
  <2>9. (OutAddr + k + 2) % Now.n = 0
    <3>1. (OutAddr + k + 2) % n = 0
      BY <1>5, <1>6, <2>4, PadLies
    <3>2. n = Now.n \/ Now.n = 1
      <4>1. Now.op = "ldrsw" => Now.n = 1
        BY <1>1, <1>3, LoadedWord
      <4> QED BY <1>6, <4>1 DEF Room
    <3>3. PICK x \in Nat : x = OutAddr + k + 2
      BY <1>5
    <3>4. x % 1 = 0
      BY <3>3
    <3> QED BY <3>1, <3>2, <3>3, <3>4
  <2>10. (OutAddr + k + LiteralAt(in)) % LiteralSize(in) = 0
    BY <2>8, <2>9
  <2> QED BY <1>1, <2>6, <2>7, <2>10, FarShape
<1>8. CASE ~(InWindow(to) \/ Distance(to, OutAddr) + n - 1 >= H19 - 1)
  <2>1. n \in {1, 2, 4} /\ ~InWindow(to) /\ Distance(to, OutAddr) < H19
    BY <1>3, <1>5, <1>6, <1>8 DEF Distance
  <2>2. to > outBase
    <3>1. OutAddr \in Row(outBase)
      BY <1>5 DEF OutAddr, Row
    <3>2. ~OutOfReach(to, outBase)
      BY <1>3, <1>5, <2>1, <3>1 DEF OutOfReach, Distance
    <3> QED BY <1>3, <2>1, <3>2
  <2>3. to >= outBase + TrampolineSize
    <3>1. 0 \in 0..Now.n - 1 /\ to + 0 = to
      BY <1>3, <1>5
    <3>2. to \notin Row(outBase)
      BY <1>3, <2>1, <3>1
    <3> QED BY <1>3, <1>5, <2>2, <3>2 DEF Row
  <2>4. to - OutAddr > 4
    BY <1>3, <1>5, <2>3 DEF OutAddr
  <2>5. (to - OutAddr) % n \in 0..3
    <3> DEFINE y == to - OutAddr
    <3>1. y \in Int /\ n \in Nat \ {0} /\ n <= 4
      BY <1>3, <1>5, <2>1
    <3> HIDE DEF y
    <3>2. y % n \in 0..n - 1
      BY <3>1, ModBound
    <3> QED BY <3>1, <3>2 DEF y
  <2>6. PICK k \in 0..3 : k = (to - OutAddr) % n
    BY <2>5
  <2>7. PICK d \in Int : d = to - OutAddr - k
    BY <1>3, <1>5
  <2>8. d >= 0 /\ d < H19 /\ -CPU!Half(Now.op) <= d /\ d < CPU!Half(Now.op)
    BY <1>3, <1>5, <2>1, <2>4, <2>7 DEF Distance
  <2>9. PICK w : w = [Now EXCEPT !.imm = Field(Now.op, d)]
    OBVIOUS
  <2>10. PICK spot \in Nat : spot = OutAddr + k
    BY <1>5
  <2> DEFINE none == {}
             due == k + 1
             ws == <<w>>
             one == 1
  <2>11. Move(Nops(k) \o <<w>>, k + 1, spot, none)
    <3>1. Masked(Now, d) = Now
      BY <2>8 DEF Masked
    <3> QED BY <1>4, <1>6, <1>8, <2>6, <2>7, <2>9, <2>10, <3>1 DEF FixLiteral
  <2>12. w \in Fitting /\ w.op = Now.op /\ w.rd = Now.rd /\ w.n = Now.n /\ w.imm = Field(Now.op, d)
    <3>1. w \in Fitting
      BY <1>5, <2>9, PatchedFits
    <3> QED BY <1>5, <2>9, <3>1 DEF Fitting, OutWords
  <2>13. PICK T : Grows(S, T, k, 1)
    BY DEF Grows
  <2>14. ws \in Seq(Fitting) /\ Len(ws) = one /\ one \in 1..6 /\ ws[1] = w /\ due \in Nat /\ due >= k
    BY <2>12, OneWord
  <2>15. Move(Nops(k) \o ws, due, spot, none)
    BY <2>11
  <2>16. 1 \in 1..one
    OBVIOUS
  <2>17. spot \in OutAddr..OutAddr + k /\ \A f \in none : Waiting(f, T)'
    BY <1>5, <2>10
  <2> HIDE DEF none, due, ws, one
  <2>18. Grown(ws, k, one, due, spot, none)
    BY <1>1, <2>14, <2>15, GrownIs
  <2>19. out'[Len(out) + k + 1] = w /\ code' = code /\ outBase' = outBase
    BY <2>14, <2>16, <2>18 DEF Grown
  <2>20. \A m, j : m = Len(out) + k + 1 /\ j = in => NearWord(m, j, T)'
    <3> SUFFICES ASSUME NEW m, NEW j, m = Len(out) + k + 1, j = in PROVE NearWord(m, j, T)'
      OBVIOUS
    <3>1. out'[m] = w /\ code'[j + 1] = Now
      BY <1>3, <2>19
    <3>2. Label(code, j)' = to /\ ~InWindow(to)' /\ \A a : (InWindow(a)' <=> InWindow(a))
      BY <1>2, <2>1, <2>19, SequelStays
    <3>3. CPU!Signed(w.imm, CPU!Half(w.op)) = d
      BY <2>8, <2>12, FieldMeans
    <3>4. Aim(m)' = outBase + m - 1 + CPU!Signed(w.imm, CPU!Half(w.op))
      BY <2>19, <3>1 DEF Aim, AddrOf, CPU!Signed, CPU!Half
    <3>5. Aim(m)' = to
      BY <1>3, <1>5, <2>7, <3>3, <3>4 DEF OutAddr
    <3> QED BY <1>1, <2>12, <3>1, <3>2, <3>5 DEF NearWord, JumpOps, LoadOps
  <2>21. Now.op \notin {"prfm", "adrp"}
    BY <1>1 DEF LoadOps
  <2> QED BY <1>1, <2>11, <2>12, <2>13, <2>17, <2>20, <2>21, NearShape
<1> QED BY <1>7, <1>8

-----------------------------------------------------------------------------
(* The way back closes the shape.                                          *)
Joined(c, a, b) ==
  /\ Len(c) = Len(a) + Len(b)
  /\ \A m \in 1..Len(a) : c[m] = a[m]
  /\ \A x \in 1..Len(b) : c[Len(a) + x] = b[x]

LEMMA Concat ==
  ASSUME NEW F, NEW a \in Seq(F), NEW b \in Seq(F), NEW c, c = a \o b
  PROVE  Joined(c, a, b)
BY DEF Joined

Appended(ws, k, n, i) ==
  /\ Len(out) \in Nat /\ Len(out') = Len(out) + k + n
  /\ \A m \in 1..Len(out) : out'[m] = out[m] /\ org'[m] = org[m]
  /\ \A m \in Len(out) + 1..Len(out) + k + n : org'[m] = i
  /\ \A x \in 1..k : out'[Len(out) + x] = Nop
  /\ \A x \in 1..n : out'[Len(out) + k + x] = ws[x]

LEMMA Appending ==
  ASSUME IInv, NEW k \in 0..3, NEW ws \in Seq(Fitting), NEW n \in 1..6, Len(ws) = n, NEW i \in Nat,
         out' = out \o (Nops(k) \o ws),
         org' = org \o [x \in 1..Len(Nops(k) \o ws) |-> i]
  PROVE  Appended(ws, k, n, i)
<1> DEFINE v == Nops(k) \o ws
           o == Len(out)
           tail == [x \in 1..Len(v) |-> i]
<1>0. k \in Nat /\ n \in Nat
  OBVIOUS
<1>1. v \in Seq(Fitting) /\ Len(v) = k + n
  BY <1>0, PaddedFits
<1>2. (\A x \in 1..k : v[x] = Nop) /\ (\A x \in 1..n : v[k + x] = ws[x])
  <2>1. Nops(k) \in Seq(Fitting) /\ Len(Nops(k)) = k
    BY <1>0, NopsFit
  <2>2. \A x \in 1..k : Nops(k)[x] = Nop
    BY DEF Nops
  <2> DEFINE u == Nops(k)
  <2> HIDE DEF u
  <2>3. u \in Seq(Fitting) /\ Len(u) = k /\ \A x \in 1..k : u[x] = Nop
    BY <2>1, <2>2 DEF u
  <2>4. /\ \A x \in 1..k : (u \o ws)[x] = u[x]
        /\ \A x \in 1..n : (u \o ws)[k + x] = ws[x]
    BY <1>0, <2>3
  <2> QED BY <2>3, <2>4 DEF u
<1>3. out \in Seq(Fitting) /\ org \in Seq(Nat) /\ Len(org) = o /\ o \in Nat
  BY DEF IInv
<1>4. out' = out \o v /\ org' = org \o tail
  OBVIOUS
<1> HIDE DEF v
<1>5. tail \in Seq(Nat) /\ Len(tail) = k + n /\ \A x \in 1..k + n : tail[x] = i
  BY <1>0, <1>1
<1> HIDE DEF tail
<1>6. /\ Len(out') = o + (k + n)
      /\ \A m \in 1..o : out'[m] = out[m] /\ org'[m] = org[m]
      /\ \A x \in 1..k + n : out'[o + x] = v[x] /\ org'[o + x] = tail[x]
  <2>1. Joined(out', out, v)
    BY <1>1, <1>3, <1>4, Concat
  <2>2. Joined(org', org, tail)
    BY <1>3, <1>4, <1>5, Concat
  <2> USE <1>1, <1>3, <1>5
  <2>3. Len(out') = o + (k + n)
    BY <2>1 DEF Joined
  <2>4. \A m \in 1..o : out'[m] = out[m] /\ org'[m] = org[m]
    BY <2>1, <2>2 DEF Joined
  <2>5. \A x \in 1..k + n : out'[o + x] = v[x] /\ org'[o + x] = tail[x]
    BY <2>1, <2>2 DEF Joined
  <2> QED BY <2>3, <2>4, <2>5
<1>7. ASSUME NEW m \in o + 1..o + k + n PROVE org'[m] = i
  <2>1. m - o \in 1..k + n /\ o + (m - o) = m
    BY <1>0, <1>3
  <2>2. org'[o + (m - o)] = i
    BY <1>5, <1>6, <2>1
  <2> QED BY <2>1, <2>2
<1>8. ASSUME NEW x \in 1..k PROVE out'[o + x] = Nop
  <2>1. x \in 1..k + n
    BY <1>0
  <2> QED BY <1>2, <1>6, <2>1
<1>9. ASSUME NEW x \in 1..n PROVE out'[o + k + x] = ws[x]
  <2>1. k + x \in 1..k + n /\ o + k + x = o + (k + x)
    BY <1>0, <1>3
  <2> QED BY <1>2, <1>6, <2>1
<1>10. Len(out') = o + k + n
  BY <1>0, <1>3, <1>6
<1> QED BY <1>3, <1>6, <1>7, <1>8, <1>9, <1>10 DEF Appended

LEMMA BackShape ==
  ASSUME IInv, in = Count, NEW S, ShapeInv(S), NEW k \in 0..3, NEW ws \in Seq(Fitting), NEW n \in 1..6, Len(ws) = n,
         out' = out \o (Nops(k) \o ws), org' = org \o [x \in 1..Len(Nops(k) \o ws) |-> Count],
         in' = in + 1, UNCHANGED <<code, outBase, dat, fmap>>,
         \/ n = 1 /\ ws[1].op = "b" /\ OutAddr + k + CPU!Signed(ws[1].imm, CPU!Half("b")) = Callback
         \/ ws = FarJump(Callback) /\ (OutAddr + k + 2) % 2 = 0
  PROVE  ShapedNext
<1> DEFINE o == Len(out)
           p == o + k + 1
           T == S \cup (o + 1..p)
<1>0. k \in Nat /\ n \in Nat /\ n >= 1 /\ in \in Nat /\ Count \in Nat /\ in \in 0..Count /\ Base \in Nat /\ outBase \in Nat
  BY WindowFacts, WidthAssumption DEF IInv
<1>1. PICK i \in Nat : i = Count
  BY <1>0
<1>2. /\ o \in Nat /\ Len(out') = o + k + n
      /\ \A m \in 1..o : out'[m] = out[m] /\ org'[m] = org[m]
      /\ \A m \in o + 1..o + k + n : org'[m] = i
      /\ \A x \in 1..k : out'[o + x] = Nop
      /\ \A x \in 1..n : out'[o + k + x] = ws[x]
  <2>1. Appended(ws, k, n, i)
    BY <1>1, Appending
  <2> QED BY <2>1 DEF Appended
<1>14. o \in Nat /\ Len(out') = o + k + n /\ k \in Nat /\ n \in Nat /\ n >= 1
  BY <1>0, <1>2
<1>3. fmap = {} /\ fmap' = {}
  <2>1. in..Count - 1 = {}
    BY <1>0
  <2>2. fmap \subseteq [at : 1..Len(out), to : {}]
    BY <2>1 DEF IInv
  <2> QED BY <2>2
<1>4. code' = code /\ outBase' = outBase /\ Count' = Count
  BY DEF Count
<1>5. S \subseteq 1..o + 1 /\ Leads(1, 0, S)
      /\ \A j \in 0..Count - 1 : j < in /\ code[j + 1].op # "adrp" => Leads(dat[j + 1] - outBase + 1, j, S)
  BY DEF ShapeInv
<1>6. PICK U : U = T
  OBVIOUS
<1>13. U = S \cup (o + 1..p)
  BY <1>6
<1> HIDE DEF T
<1>7. U \subseteq 1..Len(out') /\ U \subseteq 1..Len(out') + 1 /\ p <= Len(out') /\ p \in Nat
  <2>1. S \subseteq 1..o + 1
    BY <1>5
  <2> SUFFICES ASSUME NEW m \in U PROVE m \in 1..Len(out') /\ m \in 1..Len(out') + 1
    BY <1>14
  <2>2. m \in 1..o + 1 \/ m \in o + 1..p
    BY <1>13, <2>1
  <2> QED BY <1>14, <2>2
<1>8. \A e : e = OutAddr => Extends(S, U, e)
  <2>1. \A m \in 1..o : m \in U => m \in S
    BY <1>13, <1>14
  <2>2. \A m \in {o + 1} : Same(Index(m)', in)
    <3>1. o + 1 \in o + 1..o + k + n /\ o + 1 <= Len(out')
      BY <1>0, <1>2
    <3> QED BY <1>1, <1>2, <3>1 DEF Index, Same
  <2>3. Len(out') \in Nat /\ o <= Len(out')
    BY <1>0, <1>2
  <2> QED BY <1>2, <1>3, <1>4, <1>13, <2>1, <2>2, <2>3 DEF Extends
<1>9. Leads(1, 0, U)'
  BY <1>0, <1>5, <1>8, LeadsStays
<1>10. ASSUME NEW j \in 0..Count - 1, code[j + 1].op # "adrp" PROVE Leads(dat[j + 1] - outBase + 1, j, U)'
  <2>1. Leads(dat[j + 1] - outBase + 1, j, S)
    BY <1>0, <1>5, <1>10
  <2>2. \A m : m = dat[j + 1] - outBase + 1 => Leads(m, j, U)'
    BY <1>0, <1>5, <1>8, <2>1, LeadsStays
  <2> QED BY <2>2
<1>11. ASSUME NEW m \in U, m <= Len(out') PROVE (Opens(m, U) /\ OpAt(org[m]) # "prfm")'
  <2>1. CASE m <= o
    <3>1. \A e : e = OutAddr => (Opens(m, U) /\ OpAt(org[m]) # "prfm")'
      BY <1>0, <1>7, <1>8, <2>1, OpensStay
    <3> QED BY <3>1
  <2>2. CASE ~(m <= o)
    <3>1. m \in o + 1..p /\ m \in Nat
      BY <1>0, <1>2, <1>5, <1>13, <2>2
    <3>2. m \in o + 1..o + k + n
      BY <1>0, <1>2, <3>1
    <3>3. org'[m] = Count
      BY <1>1, <1>2, <3>2
    <3>4. OpAt(org[m])' # "prfm"
      <4>1. PICK c \in Nat : c = Count
        BY <1>0
      <4>2. org'[m] = c /\ Count' = c
        BY <1>4, <3>3, <4>1
      <4>3. ~(c < c)
        BY <4>1
      <4>4. ~(org'[m] < Count')
        BY <4>2, <4>3
      <4>5. OpAt(org[m])' = "mem"
        BY <4>4 DEF OpAt
      <4> QED BY <4>5
    <3>5. CASE m # p
      <4>1. m - o \in 1..k /\ o + (m - o) = m /\ m + 1 \in o + 1..p /\ m + 1 \in o + 1..o + k + n /\ m < Len(out')
        BY <1>0, <1>2, <3>1, <3>5
      <4>2. out'[o + (m - o)] = Nop
        BY <1>2, <4>1
      <4>3. org'[m + 1] = Count
        BY <1>1, <1>2, <4>1
      <4>4. m + 1 \in U
        BY <1>13, <4>1
      <4>5. Nop' = Nop
        BY DEF Nop
      <4>6. PadCore(m, U)'
        BY <3>3, <4>1, <4>2, <4>3, <4>4, <4>5 DEF PadCore
      <4> QED BY <3>4, <4>6 DEF Opens
    <3>6. CASE m = p
      <4>1. CASE n = 1 /\ ws[1].op = "b" /\ OutAddr + k + CPU!Signed(ws[1].imm, CPU!Half("b")) = Callback
        <5>1. out'[m] = ws[1]
          <6>1. 1 \in 1..n /\ o + k + 1 = m
            BY <1>0, <3>6
          <6> QED BY <1>2, <6>1
        <5>2. Aim(m)' = outBase + m - 1 + CPU!Signed(ws[1].imm, CPU!Half("b"))
          BY <1>4, <4>1, <5>1 DEF Aim, AddrOf, CPU!Signed, CPU!Half
        <5>3. outBase + m - 1 = OutAddr + k
          BY <1>0, <1>2, <3>6 DEF OutAddr
        <5>4. Callback' = Callback
          BY <1>4 DEF Callback
        <5> QED BY <1>4, <3>3, <3>4, <4>1, <5>1, <5>2, <5>3, <5>4 DEF BackCore, Opens
      <4>2. CASE ws = FarJump(Callback) /\ (OutAddr + k + 2) % 2 = 0
        <5>1. FarJump(Callback)' = ws
          BY <1>4, <4>2 DEF FarJump, Callback
        <5>2. Len(ws) = 4 /\ n = 4
          <6>1. Callback \in Int
            BY <1>0 DEF Callback
          <6> QED BY <4>2, <6>1, FarFits
        <5>3. \A v : v = ws => Holds(m, v, 4, U)'
          <6>1. m + 4 - 1 <= Len(out')
            BY <1>14, <3>6, <5>2
          <6>2. ASSUME NEW x \in 1..4 PROVE out'[m + x - 1] = ws[x] /\ org'[m + x - 1] = Count
            <7>1. m + x - 1 = o + k + x /\ x \in 1..n /\ o + k + x \in o + 1..o + k + n
              BY <1>14, <3>6, <5>2
            <7> QED BY <1>1, <1>2, <7>1
          <6>3. \A x \in 1..4 - 1 : m + x \notin U
            <7> SUFFICES ASSUME NEW x \in 1..3, m + x \in U PROVE FALSE
              OBVIOUS
            <7> DEFINE y == m + x
            <7>1. y \in Nat /\ y > p /\ y > o + 1 /\ y \in U
              BY <1>14, <3>6
            <7>2. S \subseteq 1..o + 1
              BY <1>5
            <7> HIDE DEF y
            <7> QED BY <1>13, <1>14, <7>1, <7>2
          <6>4. ASSUME NEW v, v = ws PROVE Holds(m, v, 4, U)'
            <7>1. Len(v) = 4 /\ m + Len(v) - 1 <= Len(out')
              BY <5>2, <6>1, <6>4
            <7>2. \A x \in 1..Len(v) : out'[m + x - 1] = v[x]
              BY <6>2, <6>4, <7>1
            <7>3. \A x \in 1..Len(v) : org'[m + x - 1] = IF x <= 4 THEN org'[m] ELSE org'[m] + 1
              <8> SUFFICES ASSUME NEW x \in 1..4 PROVE org'[m + x - 1] = IF x <= 4 THEN org'[m] ELSE org'[m] + 1
                BY <7>1
              <8>1. x <= 4
                OBVIOUS
              <8> QED BY <3>3, <6>2, <8>1
            <7>4. \A x \in 1..Len(v) - 1 : m + x \notin U
              BY <6>3, <7>1
            <7> QED BY <7>1, <7>2, <7>3, <7>4 DEF Holds
          <6> QED BY <6>4
        <5>4. Holds(m, FarJump(Callback), 4, U)'
          BY <5>1, <5>3
        <5>5. AddrOf(m)' = OutAddr + k
          BY <1>0, <1>2, <1>4, <3>6 DEF AddrOf, OutAddr
        <5>6. Lies(m, 2, 2)'
          BY <4>2, <5>5 DEF Lies
        <5> QED BY <1>4, <3>3, <3>4, <5>4, <5>6 DEF BackCore, Opens
      <4> QED BY <4>1, <4>2
    <3> QED BY <3>5, <3>6
  <2> QED BY <2>1, <2>2
<1>12. ShapeInv(U)'
  <2>1. ~(Len(out') + 1 \in U) /\ ~(in' <= Count')
    <3>1. Len(out') \in Nat
      BY <1>0, <1>2
    <3> QED BY <1>0, <1>4, <1>7, <3>1
  <2> QED BY <1>3, <1>4, <1>7, <1>9, <1>10, <1>11, <2>1 DEF ShapeInv
<1> QED BY <1>12 DEF ShapedNext

LEMMA ReturnKeepsShape ==
  ASSUME IInv, NEW S, ShapeInv(S), Return
  PROVE  ShapedNext
<1>1. /\ in = Count /\ out' = out \o WayBack /\ org' = org \o [k \in 1..Len(WayBack) |-> Count]
      /\ in' = in + 1 /\ UNCHANGED <<code, outBase, dat, fmap>>
  BY DEF Return
<1>2. OutAddr \in Nat /\ Callback \in Nat /\ H26 \in Nat \ {0} /\ CPU!Half("b") = H26
  <2>1. Count \in Nat /\ outBase \in Nat /\ Len(out) \in Nat
    BY WindowFacts DEF IInv
  <2> QED BY <2>1, WidthAssumption DEF OutAddr, Callback, CPU!Half
<1>3. CASE Distance(Callback, OutAddr) >= H26 - 1
  <2>1. PICK k \in 0..3 : k = Padding(2, 2)
    BY PaddingPair
  <2>2. PICK ws \in Seq(Fitting) : ws = FarJump(Callback) /\ Len(ws) = 4
    BY <1>2, FarFits
  <2>3. WayBack = Nops(k) \o ws
    BY <1>3, <2>1, <2>2 DEF WayBack
  <2>4. 4 \in 1..6 /\ 2 \in Nat /\ 2 \in {1, 2, 4}
    OBVIOUS
  <2>5. (OutAddr + k + 2) % 2 = 0
    BY <2>1, <2>4, PadLies
  <2> QED BY <1>1, <2>2, <2>3, <2>4, <2>5, BackShape
<1>4. CASE ~(Distance(Callback, OutAddr) >= H26 - 1)
  <2>1. PICK x \in Int : x = Callback - OutAddr
    BY <1>2
  <2>2. -CPU!Half("b") <= x /\ x < CPU!Half("b")
    BY <1>2, <1>4, <2>1 DEF Distance
  <2>3. CPU!Signed(Field("b", x), CPU!Half("b")) = x
    BY <2>2, FieldMeans
  <2>4. PICK w : w = B(Field("b", x))
    OBVIOUS
  <2>5. w.op = "b" /\ w.imm = Field("b", x)
    BY <2>4 DEF B, CPU!Word
  <2>6. w \in Fitting
    <3>1. Field("b", x) \in 0..2 * CPU!Half("b") - 1
      BY FieldBound
    <3>2. Field("b", x) \in Int
      BY <1>2, <3>1
    <3> QED BY <2>4, <3>1, <3>2 DEF B, CPU!Word, Fitting, OutWords, OutOps, InOps, FieldFits
  <2>7. PICK ws \in Seq(Fitting) : ws = <<w>> /\ Len(ws) = 1 /\ ws[1] = w
    BY <2>6, OneWord
  <2> DEFINE k == 0
             n == 1
  <2>8. WayBack = Nops(k) \o ws
    BY <1>4, <2>1, <2>4, <2>7, NoPad DEF WayBack
  <2>9. k \in 0..3 /\ n \in 1..6 /\ Len(ws) = n
    BY <2>7
  <2>10. n = 1 /\ ws[1].op = "b" /\ OutAddr + k + CPU!Signed(ws[1].imm, CPU!Half("b")) = Callback
    BY <1>2, <2>1, <2>3, <2>5, <2>7
  <2>11. out' = out \o (Nops(k) \o ws) /\ org' = org \o [x_1 \in 1..Len(Nops(k) \o ws) |-> Count]
    BY <1>1, <2>8
  <2> HIDE DEF k, n
  <2> QED BY <1>1, <2>9, <2>10, <2>11, BackShape
<1> QED BY <1>3, <1>4

LEMMA InitShape ==
  ASSUME Init
  PROVE  ShapeInv({1})
<1>1. Len(out) = 0 /\ in = 0 /\ fmap = {} /\ code \in Windows
  BY DEF Init
<1>2. Count \in 1..MaxInstructions /\ MaxInstructions \in Nat
  BY <1>1, WindowFacts, RowAssumption
<1>3. Leads(1, 0, {1})
  BY <1>1 DEF Leads, Index, Same
<1> QED BY <1>1, <1>2, <1>3 DEF ShapeInv

LEMMA FixKeepsShape ==
  ASSUME IInv, AllHandled, NEW S, ShapeInv(S), Fix \/ Return
  PROVE  ShapedNext
BY BranchKeepsShape, CondKeepsShape, PrefetchShape, LiteralKeepsShape, AdrKeepsShape, AdrpKeepsShape,
   PlainKeepsShape, ReturnKeepsShape DEF Fix

-----------------------------------------------------------------------------
(* A step of the original processor.                                       *)
Mpc  == Old!Past(Home(pc))
Mreg == [r \in Regs \ {17} |-> HomeValue(Seen[r])]

Given(r, v) == [s \in Regs \ {17} |-> IF s = r THEN v ELSE Mreg[s]]

\* What the instruction i does: it goes on at q, with the registers mr.
Should(i, q, mr) ==
  LET w    == code[i + 1]
      to   == Label(code, i)
      next == Old!Past(Base + (i + 1))
  IN \/ w.op = "plain" /\ q = next /\ mr = Mreg
     \/ w.op = "b" /\ q = Old!Past(to) /\ mr = Mreg
     \/ w.op = "bl" /\ q = Old!Past(to) /\ mr = Given(30, CPU!Address(4 * next))
     \/ w.op \in {"bc", "tbz"} /\ q = (IF flag THEN Old!Past(to) ELSE next) /\ mr = Mreg
     \/ w.op \in LoadOps /\ q = next /\ mr = Given(w.rd, [k \in 1..w.n |-> Old!Fetch(to + k - 1)])
     \/ w.op \in {"adr", "adrp"} /\ q = next /\ mr = Given(w.rd, CPU!Address(NamedBy(i)))

LEMMA OriginalAt ==
  ASSUME code \in Windows, NEW i \in 0..Count - 1, Mpc = Base + i
  PROVE  /\ Original!Inside(Mpc) /\ Original!Ins = code[i + 1]
         /\ Original!Target = Label(code, i)
<1>1. Count \in Nat /\ Base \in Nat /\ Count = Len(code)
  BY WindowFacts, WidthAssumption DEF Count
<1>2. Original!Inside(Mpc) /\ Original!Fetch(Mpc) = code[i + 1]
  BY <1>1 DEF Original!Inside, Original!Fetch
<1>3. Original!Ins = code[i + 1]
  BY <1>2 DEF Original!Ins, Mpc
<1>4. Original!Target = Label(code, i)
  BY <1>3 DEF Original!Target, Mpc, Label, Original!Signed, Original!Half, CPU!Signed, CPU!Half
<1> QED BY <1>2, <1>3, <1>4

LEMMA OriginalSame ==
  /\ \A a : Original!Past(a) = Old!Past(a) /\ Original!Fetch(a) = Old!Fetch(a)
  /\ \A b : Original!Address(b) = CPU!Address(b)
<1>1. \A a : Original!Fetch(a) = Old!Fetch(a)
  BY DEF Original!Fetch, Old!Fetch, Original!Inside, Old!Inside, Original!Word, Old!Word
<1>2. \A a : Original!Past(a) = Old!Past(a)
  BY DEF Original!Past, Old!Past, Original!Fetch, Old!Fetch, Original!Inside, Old!Inside, Original!Word, Old!Word
<1>3. \A b : Original!Address(b) = CPU!Address(b)
  BY DEF Original!Address, CPU!Address, Original!Word, CPU!Word
<1> QED BY <1>1, <1>2, <1>3

LEMMA OriginalSteps ==
  ASSUME code \in Windows, NEW i \in 0..Count - 1, Mpc = Base + i,
         UNCHANGED <<code, flag>>, Should(i, Mpc', Mreg')
  PROVE  Original!Next
<1> DEFINE w    == code[i + 1]
           to   == Label(code, i)
           next == Old!Past(Base + (i + 1))
<1>1. Original!Inside(Mpc) /\ Original!Ins = w /\ Original!Target = to
  BY OriginalAt
<1>2. Original!Past(to) = Old!Past(to) /\ Original!Past(Mpc + 1) = next
  <2>1. Mpc + 1 = Base + (i + 1)
    BY WidthAssumption
  <2> QED BY <2>1, OriginalSame
<1>3. ASSUME NEW ops, w.op \in ops PROVE Original!Running(ops)
  BY <1>1, <1>3 DEF Original!Running, Mpc
<1>4. \A r, v : Original!Put(r, v) = Given(r, v)
  BY DEF Original!Put, Given, Mreg
<1> HIDE DEF to, next
<1>5. CASE w.op = "plain" /\ Mpc' = next /\ Mreg' = Mreg
  <2>1. Original!Straight
    BY <1>2, <1>3, <1>5 DEF Original!Straight, Mpc, Mreg
  <2> QED BY <2>1 DEF Original!Next
<1>6. CASE w.op = "b" /\ Mpc' = Old!Past(to) /\ Mreg' = Mreg
  <2>1. Original!Branch
    BY <1>1, <1>2, <1>3, <1>6 DEF Original!Branch, Mpc, Mreg
  <2> QED BY <2>1 DEF Original!Next
<1>7. CASE w.op = "bl" /\ Mpc' = Old!Past(to) /\ Mreg' = Given(30, CPU!Address(4 * next))
  <2>1. Mreg' = Original!Put(30, Original!Address(4 * Original!Past(Mpc + 1)))
    BY <1>2, <1>4, <1>7, OriginalSame
  <2>2. Original!BranchLink
    BY <1>1, <1>2, <1>3, <1>7, <2>1 DEF Original!BranchLink, Mpc, Mreg
  <2> QED BY <2>2 DEF Original!Next
<1>8. CASE w.op \in {"bc", "tbz"} /\ Mpc' = (IF flag THEN Old!Past(to) ELSE next) /\ Mreg' = Mreg
  <2>1. Mpc' = Original!Past(IF flag THEN Original!Target ELSE Mpc + 1)
    BY <1>1, <1>2, <1>8
  <2>2. Original!Conditional
    BY <1>3, <1>8, <2>1 DEF Original!Conditional, Mpc, Mreg
  <2> QED BY <2>2 DEF Original!Next
<1>9. CASE w.op \in LoadOps /\ Mpc' = next /\ Mreg' = Given(w.rd, [k \in 1..w.n |-> Old!Fetch(to + k - 1)])
  <2>1. Mreg' = Original!Put(Original!Ins.rd, [k \in 1..Original!Ins.n |-> Original!Fetch(Original!Target + k - 1)])
    BY <1>1, <1>4, <1>9, OriginalSame
  <2>2. Original!Load
    BY <1>2, <1>3, <1>9, <2>1 DEF Original!Load, Mpc, Mreg, LoadOps
  <2> QED BY <2>2 DEF Original!Next
<1>10. CASE w.op \in {"adr", "adrp"} /\ Mpc' = next /\ Mreg' = Given(w.rd, CPU!Address(NamedBy(i)))
  <2>1. Original!Named = NamedBy(i)
    <3>1. CASE w.op = "adr"
      <4>1. NamedBy(i) = 4 * to + w.lo
        BY <3>1 DEF NamedBy, to
      <4> QED BY <1>1, <3>1, <4>1 DEF Original!Named
    <3>2. CASE w.op = "adrp"
      <4> DEFINE Page(a, f) == 4 * (a - (a % PageWords) + PageWords * f)
      <4>1. NamedBy(i) = Page(Base + i, CPU!Signed(w.imm, H21))
        <5>1. NamedBy(i) = 4 * PageOf(code, i)
          BY <3>2 DEF NamedBy
        <5>2. 4 * PageOf(code, i) = Page(Base + i, CPU!Signed(w.imm, H21))
          <6>1. PICK x \in Int : x = (Base + i) % PageWords
            BY WidthAssumption
          <6>2. PICK f \in Int : f = CPU!Signed(w.imm, H21)
            BY WidthAssumption, NamesAre DEF CPU!Signed
          <6>3. PICK y \in Int : y = PageWords * f
            BY WidthAssumption
          <6>4. Base \in Int /\ i \in Int
            BY WidthAssumption, WindowFacts
          <6>5. PageOf(code, i) = Base + i - x + y
            BY <6>1, <6>2, <6>3 DEF PageOf
          <6>6. Page(Base + i, f) = 4 * (((Base + i) - x) + y)
            BY <6>1, <6>3
          <6>7. Base + i - x + y = ((Base + i) - x) + y
            BY <6>1, <6>3, <6>4
          <6> QED BY <6>2, <6>5, <6>6, <6>7
        <5> QED BY <5>1, <5>2
      <4>2. CPU!Signed(w.imm, H21) = Original!Signed(w.imm, H21)
        BY DEF Original!Signed, CPU!Signed
      <4>3. w.op # "adr"
        BY <3>2
      <4>4. Original!Named = Page(Mpc, Original!Signed(w.imm, H21))
        BY <1>1, <4>3 DEF Original!Named, Mpc
      <4> HIDE DEF Page
      <4> QED BY <4>1, <4>2, <4>4
    <3> QED BY <1>10, <3>1, <3>2
  <2>2. Mreg' = Original!Put(Original!Ins.rd, Original!Address(Original!Named))
    BY <1>1, <1>4, <1>10, <2>1, OriginalSame
  <2>3. Original!NameAddress
    BY <1>2, <1>3, <1>10, <2>2 DEF Original!NameAddress, Mpc, Mreg
  <2> QED BY <2>3 DEF Original!Next
<1> QED BY <1>5, <1>6, <1>7, <1>8, <1>9, <1>10 DEF Should, to, next

-----------------------------------------------------------------------------
(* A step of the processor on the trampoline: it goes on at q, with the    *)
(* registers rg.                                                           *)
Does(q, rg) ==
  LET w == CPU!Ins
  IN /\ CPU!Inside(pc)
     /\ \/ w.op \in {"plain", "nop"} /\ q = CPU!Past(pc + 1) /\ rg = reg
        \/ w.op = "b" /\ q = CPU!Past(CPU!Target) /\ rg = reg
        \/ w.op = "bl" /\ q = CPU!Past(CPU!Target) /\ rg = CPU!Put(30, CPU!Address(4 * CPU!Past(pc + 1)))
        \/ w.op \in {"bc", "tbz"} /\ q = CPU!Past(IF flag THEN CPU!Target ELSE pc + 1) /\ rg = reg
        \/ w.op \in LoadOps /\ q = CPU!Past(pc + 1)
           /\ rg = CPU!Put(w.rd, [k \in 1..w.n |-> CPU!Fetch(CPU!Target + k - 1)])
        \/ w.op \in {"adr", "adrp"} /\ q = CPU!Past(pc + 1) /\ rg = CPU!Put(w.rd, CPU!Address(CPU!Named))
        \/ w.op = "br" /\ q = CPU!Past(reg[w.rd][1].imm \div 4) /\ rg = reg

LEMMA RunDoes ==
  ASSUME Run
  PROVE  /\ in = Count + 1 /\ Does(pc', reg') /\ was' = reg
         /\ UNCHANGED <<code, fixing, outBase, flag>>
<1>1. in = Count + 1 /\ CPU!Next /\ was' = reg /\ UNCHANGED <<code, fixing>>
  BY DEF Run
<1>2. CPU!Inside(pc) /\ UNCHANGED <<outBase, flag>>
  BY <1>1 DEF CPU!Next, CPU!Straight, CPU!Branch, CPU!BranchLink, CPU!Conditional, CPU!Load,
              CPU!NameAddress, CPU!BranchRegister, CPU!Running
<1>3. Does(pc', reg')
  BY <1>1, <1>2 DEF Does, LoadOps, CPU!Next, CPU!Straight, CPU!Branch, CPU!BranchLink, CPU!Conditional,
              CPU!Load, CPU!NameAddress, CPU!BranchRegister, CPU!Running
<1> QED BY <1>1, <1>2, <1>3

LEMMA InRow ==
  ASSUME IInv, NEW m \in 1..Len(out)
  PROVE  /\ AddrOf(m) \in Nat /\ AddrOf(m) - outBase + 1 = m /\ AddrOf(m) + 1 = AddrOf(m + 1)
         /\ CPU!Inside(AddrOf(m)) /\ CPU!Fetch(AddrOf(m)) = out[m]
         /\ Home(AddrOf(m)) = Base + org[m] /\ org[m] \in 0..Count
         /\ out[m].op # "prfm" => CPU!Past(AddrOf(m)) = AddrOf(m)
<1>1. outBase \in Nat /\ Len(out) \in Nat /\ org[m] \in 0..Count
  BY DEF IInv
<1>2. AddrOf(m) \in Nat /\ AddrOf(m) - outBase + 1 = m /\ AddrOf(m) + 1 = AddrOf(m + 1)
  BY <1>1 DEF AddrOf
<1>3. CPU!Inside(AddrOf(m)) /\ CPU!Fetch(AddrOf(m)) = out[m]
  BY <1>1, <1>2 DEF CPU!Inside, CPU!Fetch
<1>4. Home(AddrOf(m)) = Base + org[m]
  BY <1>2, <1>3 DEF Home
<1> QED BY <1>1, <1>2, <1>3, <1>4 DEF CPU!Past

LEMMA OutRow ==
  ASSUME IInv, NEW a \in Int, a \notin Row(outBase)
  PROVE  /\ ~CPU!Inside(a) /\ CPU!Fetch(a) = CPU!Word("mem", a, 0, 0, 0)
         /\ CPU!Past(a) = a /\ Home(a) = a
<1>1. /\ Len(out) \in Nat /\ Len(out) <= TrampolineSize /\ TrampolineSize \in Nat /\ outBase \in Nat
  BY RowFacts
<1>2. ~CPU!Inside(a)
  BY <1>1 DEF CPU!Inside, Row
<1>3. CPU!Fetch(a) = CPU!Word("mem", a, 0, 0, 0)
  BY <1>2 DEF CPU!Fetch
<1> QED BY <1>2, <1>3 DEF Home, CPU!Past, CPU!Word

-----------------------------------------------------------------------------
(* Where the processor may be.                                             *)
Settled(S) == IInv /\ AllHandled /\ ShapeInv(S) /\ in = Count + 1

Plainly(rg) == [r \in Regs \ {17} |-> HomeValue(rg[r])]
Shown(p, rg, ws) == IF CPU!Inside(p) /\ CPU!Fetch(p).op = "br" THEN Plainly(ws) ELSE Plainly(rg)

\* X17 holds the target to; the other registers are as before the step that loaded it.
Carries(to, rg, ws) == rg[17] = CPU!Address(4 * to) /\ \A r \in Regs \ {17} : rg[r] = ws[r]

\* Within the sequence at k, which stands for the instruction i.
Midway(k, i, p, rg, ws) ==
  LET w  == code[i + 1]
      to == Label(code, i)
  IN \/ w.op = "b" /\ p = AddrOf(k + 1) /\ Carries(to, rg, ws)
     \/ w.op = "bl" /\ p = AddrOf(k + 1) /\ rg[17] = CPU!Address(4 * to)
     \/ /\ w.op = "bl" /\ p = AddrOf(k + 2) /\ rg[17] = CPU!Address(4 * to)
        /\ \A r \in Regs \ {17} : rg[r] = IF r = 30 THEN CPU!Address(4 * AddrOf(k + 5)) ELSE ws[r]
     \/ w.op \in {"bc", "tbz"} /\ p = AddrOf(k + 1) /\ ~flag
     \/ w.op \in {"bc", "tbz"} /\ p = AddrOf(k + 2) /\ flag
     \/ w.op \in {"bc", "tbz"} /\ p = AddrOf(k + 3) /\ flag /\ Carries(to, rg, ws)
     \/ w.op \in {"adr", "adrp"} \cup LoadOps /\ p = AddrOf(k + 1)

Leaving(k, p, rg, ws, S) ==
  /\ org[k] = Count /\ Holds(k, FarJump(Callback), 4, S)
  /\ p = AddrOf(k + 1) /\ Carries(Callback, rg, ws)

Stands(p, rg, ws, S) ==
  CPU!Inside(p) =>
    \/ \E m \in S : p = AddrOf(m)
    \/ \E k \in S : FarCore(k, S) /\ Midway(k, org[k], p, rg, ws)
    \/ \E k \in S : Leaving(k, p, rg, ws, S)

\* A place from which the original goes on at h.
Landed(a, h, rg, ws, S) ==
  /\ CPU!Past(a) = a /\ Old!Past(Home(a)) = h
  /\ Shown(a, rg, ws) = Plainly(rg) /\ Stands(a, rg, ws, S)

LEMMA WordsRead ==
  ASSUME NEW k \in Nat, NEW ws, NEW due, NEW S, Holds(k, ws, due, S), Len(ws) \in Nat
  PROVE  /\ \A x \in 1..Len(ws) : out[k + x - 1] = ws[x]
         /\ k + Len(ws) - 1 <= Len(out)
         /\ \A x \in 1..Len(ws) : x <= due => org[k + x - 1] = org[k]
BY DEF Holds

JumpAt(k, a) ==
  /\ out[k] = LdrX(17, 2) /\ out[k + 1] = CPU!Word("br", 0, 17, 0, 0)
  /\ out[k + 2] = CPU!Address(4 * a)[1] /\ out[k + 3] = CPU!Address(4 * a)[2]

LEMMA JumpWords ==
  ASSUME NEW k \in Nat, NEW a, NEW m \in Nat, \A x \in 1..4 : out[m + x - 1] = FarJump(a)[x], m = k
  PROVE  JumpAt(k, a)
<1>1. /\ FarJump(a)[1] = LdrX(17, 2) /\ FarJump(a)[2] = CPU!Word("br", 0, 17, 0, 0)
      /\ FarJump(a)[3] = CPU!Address(4 * a)[1] /\ FarJump(a)[4] = CPU!Address(4 * a)[2]
  BY DEF FarJump, CPU!Address
<1>2. /\ out[k + 1 - 1] = FarJump(a)[1] /\ out[k + 2 - 1] = FarJump(a)[2]
      /\ out[k + 3 - 1] = FarJump(a)[3] /\ out[k + 4 - 1] = FarJump(a)[4]
  OBVIOUS
<1>3. k + 1 - 1 = k /\ k + 2 - 1 = k + 1 /\ k + 3 - 1 = k + 2 /\ k + 4 - 1 = k + 3
  OBVIOUS
<1> QED BY <1>1, <1>2, <1>3 DEF JumpAt

CallAt(k, a) ==
  /\ out[k] = LdrX(17, 3) /\ out[k + 1] = CPU!Word("adr", 4, 30, 0, 0)
  /\ out[k + 2] = CPU!Word("br", 0, 17, 0, 0)
  /\ out[k + 3] = CPU!Address(4 * a)[1] /\ out[k + 4] = CPU!Address(4 * a)[2]
LoadAt(k, r, b) ==
  /\ out[k] = LdrX(r, 2) /\ out[k + 1] = B(3)
  /\ out[k + 2] = CPU!Address(b)[1] /\ out[k + 3] = CPU!Address(b)[2]

\* The words of a sequence that stands for the instruction i.
SequelAt(k, i) ==
  LET w  == code[i + 1]
      to == Label(code, i)
  IN /\ w.op = "b" => Len(Sequel(i)) = 4 /\ JumpAt(k, to)
     /\ w.op = "bl" => Len(Sequel(i)) = 5 /\ CallAt(k, to)
     /\ w.op \in {"bc", "tbz"} => /\ Len(Sequel(i)) = 6
                                  /\ out[k] = [w EXCEPT !.imm = 2] /\ out[k + 1] = B(5) /\ JumpAt(k + 2, to)
     /\ w.op \in LoadOps => /\ Len(Sequel(i)) = 2 + Room(w)
                            /\ out[k] = [w EXCEPT !.imm = 2] /\ out[k + 1] = B(1 + Room(w))
                            /\ \A j \in 1..Room(w) : out[k + 1 + j] = Memory(to + j - 1)
     /\ w.op \in {"adr", "adrp"} => Len(Sequel(i)) = 4 /\ LoadAt(k, w.rd, NamedBy(i))

LEMMA SequelWords ==
  ASSUME IInv, NEW k \in Nat, NEW i \in 0..Count - 1, code[i + 1].op \in Replaceable,
         \A x \in 1..Len(Sequel(i)) : out[k + x - 1] = Sequel(i)[x]
  PROVE  SequelAt(k, i)
<1> DEFINE w  == code[i + 1]
           to == Label(code, i)
<1>1. /\ code \in Windows /\ to \in Int /\ NamedBy(i) \in Int /\ w \in Fitting /\ w.rd \in Nat
      /\ w.op \in LoadOps => Room(w) \in {1, 2, 4}
  BY NamesAre DEF IInv
<1>0. k + 1 - 1 = k /\ k + 2 - 1 = k + 1 /\ k + 3 - 1 = k + 2 /\ k + 4 - 1 = k + 3 /\ k + 5 - 1 = k + 4
  OBVIOUS
<1>2. ASSUME w.op = "b" PROVE Len(Sequel(i)) = 4 /\ JumpAt(k, to)
  <2>1. Sequel(i) = FarJump(to)
    BY <1>2 DEF Sequel, LoadOps
  <2>2. Len(Sequel(i)) = 4
    BY <1>1, <2>1, FarFits
  <2>3. \A x \in 1..4 : out[k + x - 1] = FarJump(to)[x]
    BY <2>1, <2>2
  <2> QED BY <2>2, <2>3, JumpWords
<1>3. ASSUME w.op = "bl" PROVE Len(Sequel(i)) = 5 /\ CallAt(k, to)
  <2>1. Sequel(i) = FarCall(to)
    BY <1>3 DEF Sequel, LoadOps
  <2>2. Len(Sequel(i)) = 5
    BY <1>1, <2>1, FarFits
  <2> HIDE DEF to
  <2>3. /\ FarCall(to)[1] = LdrX(17, 3) /\ FarCall(to)[2] = CPU!Word("adr", 4, 30, 0, 0)
        /\ FarCall(to)[3] = CPU!Word("br", 0, 17, 0, 0)
        /\ FarCall(to)[4] = CPU!Address(4 * to)[1] /\ FarCall(to)[5] = CPU!Address(4 * to)[2]
    BY DEF FarCall, CPU!Address
  <2>4. /\ out[k + 1 - 1] = FarCall(to)[1] /\ out[k + 2 - 1] = FarCall(to)[2] /\ out[k + 3 - 1] = FarCall(to)[3]
        /\ out[k + 4 - 1] = FarCall(to)[4] /\ out[k + 5 - 1] = FarCall(to)[5]
    BY <2>1, <2>2
  <2>5. CallAt(k, to)
    BY <1>0, <2>3, <2>4 DEF CallAt
  <2> QED BY <2>2, <2>5
<1>4. ASSUME w.op \in {"adr", "adrp"} PROVE Len(Sequel(i)) = 4 /\ LoadAt(k, w.rd, NamedBy(i))
  <2> DEFINE b == NamedBy(i)
             r == w.rd
  <2>1. Sequel(i) = FarLoad(r, b)
    BY <1>4 DEF Sequel, LoadOps
  <2>2. Len(Sequel(i)) = 4
    BY <1>1, <2>1, FarFits
  <2> HIDE DEF b, r
  <2>3. /\ FarLoad(r, b)[1] = LdrX(r, 2) /\ FarLoad(r, b)[2] = B(3)
        /\ FarLoad(r, b)[3] = CPU!Address(b)[1] /\ FarLoad(r, b)[4] = CPU!Address(b)[2]
    BY DEF FarLoad, CPU!Address
  <2>4. /\ out[k + 1 - 1] = FarLoad(r, b)[1] /\ out[k + 2 - 1] = FarLoad(r, b)[2]
        /\ out[k + 3 - 1] = FarLoad(r, b)[3] /\ out[k + 4 - 1] = FarLoad(r, b)[4]
    BY <2>1, <2>2
  <2>5. LoadAt(k, r, b)
    BY <1>0, <2>3, <2>4 DEF LoadAt
  <2> QED BY <2>2, <2>5 DEF b, r
<1>5. ASSUME NEW c \in Nat, NEW y \in Seq(Fitting), NEW n \in 1..4, Len(y) = n, B(c) \in Fitting,
             [w EXCEPT !.imm = 2] \in Fitting,
             Sequel(i) = <<[w EXCEPT !.imm = 2], B(c)>> \o y
      PROVE  /\ Len(Sequel(i)) = 2 + n /\ out[k] = [w EXCEPT !.imm = 2] /\ out[k + 1] = B(c)
             /\ \A j \in 1..n : out[k + 1 + j] = y[j]
  <2> DEFINE v == [w EXCEPT !.imm = 2]
             f == <<v, B(c)>>
  <2>1. v \in Fitting
    BY <1>5
  <2> HIDE DEF v
  <2>2. f \in Seq(Fitting) /\ Len(f) = 2 /\ f[1] = v /\ f[2] = B(c)
    BY <1>5, <2>1
  <2>3. Sequel(i) = f \o y
    BY <1>5 DEF v
  <2> HIDE DEF f
  <2>4. Joined(Sequel(i), f, y)
    BY <1>5, <2>2, <2>3, Concat
  <2> DEFINE s == Sequel(i)
  <2>5. \A x \in 1..Len(s) : out[k + x - 1] = s[x]
    OBVIOUS
  <2> HIDE DEF s
  <2>6. Joined(s, f, y)
    BY <2>4 DEF s
  <2>7. Len(s) = 2 + n /\ s[1] = v /\ s[2] = B(c) /\ \A j \in 1..n : s[2 + j] = y[j]
    BY <1>5, <2>2, <2>6 DEF Joined
  <2>8. out[k] = v /\ out[k + 1] = B(c)
    <3>1. 1 \in 1..Len(s) /\ 2 \in 1..Len(s)
      BY <2>7
    <3>2. out[k + 1 - 1] = s[1] /\ out[k + 2 - 1] = s[2]
      BY <2>5, <3>1
    <3> QED BY <1>0, <2>7, <3>2
  <2>9. ASSUME NEW j \in 1..n PROVE out[k + 1 + j] = y[j]
    <3>1. 2 + j \in 1..Len(s) /\ k + (2 + j) - 1 = k + 1 + j
      BY <2>7
    <3>2. out[k + (2 + j) - 1] = s[2 + j]
      BY <2>5, <3>1
    <3> QED BY <2>7, <3>1, <3>2
  <2> QED BY <2>7, <2>8, <2>9 DEF s, v
<1>6. w.op \in {"bc", "tbz"} \cup LoadOps => [w EXCEPT !.imm = 2] \in Fitting
  <2>1. w.op \in {"bc", "tbz"} \cup LoadOps => 2 \in 0..2 * CPU!Half(w.op) - 1
    BY WidthsReach, HalfPositive DEF LoadOps
  <2> QED BY <1>1, <2>1, Renewed
<1>7. ASSUME w.op \in {"bc", "tbz"}
      PROVE  /\ Len(Sequel(i)) = 6 /\ out[k] = [w EXCEPT !.imm = 2] /\ out[k + 1] = B(5) /\ JumpAt(k + 2, to)
  <2> DEFINE y == FarJump(to)
             c == 5
             n == 4
  <2>1. y \in Seq(Fitting) /\ Len(y) = n
    BY <1>1, FarFits
  <2>2. Sequel(i) = <<[w EXCEPT !.imm = 2], B(c)>> \o y
    BY <1>7 DEF Sequel, LoadOps
  <2>3. c \in Nat /\ B(c) \in Fitting /\ n \in 1..4
    <3>1. 5 \in 0..9
      OBVIOUS
    <3> QED BY <3>1, ShortFits
  <2> HIDE DEF y, c, n
  <2>4. /\ Len(Sequel(i)) = 2 + n /\ out[k] = [w EXCEPT !.imm = 2] /\ out[k + 1] = B(c)
        /\ \A j \in 1..n : out[k + 1 + j] = y[j]
    BY <1>5, <1>6, <1>7, <2>1, <2>2, <2>3
  <2>5. \A x \in 1..4 : out[k + 2 + x - 1] = y[x]
    <3> SUFFICES ASSUME NEW x \in 1..4 PROVE out[k + 2 + x - 1] = y[x]
      OBVIOUS
    <3>1. k + 2 + x - 1 = k + 1 + x
      OBVIOUS
    <3> QED BY <2>4, <3>1 DEF n
  <2>6. k + 2 \in Nat
    OBVIOUS
  <2> DEFINE z == k + 2
  <2>7. z \in Nat /\ \A x \in 1..4 : out[z + x - 1] = y[x]
    BY <2>5, <2>6
  <2> HIDE DEF z
  <2>8. JumpAt(z, to)
    BY <2>7, JumpWords DEF y
  <2> QED BY <2>4, <2>8 DEF z, c, n
<1>8. ASSUME w.op \in LoadOps
      PROVE  /\ Len(Sequel(i)) = 2 + Room(w) /\ out[k] = [w EXCEPT !.imm = 2] /\ out[k + 1] = B(1 + Room(w))
             /\ \A j \in 1..Room(w) : out[k + 1 + j] = Memory(to + j - 1)
  <2> DEFINE n == Room(w)
             y == Copy(to, n)
             c == 1 + n
  <2>1. n \in {1, 2, 4}
    BY <1>1, <1>8
  <2>2. Sequel(i) = <<[w EXCEPT !.imm = 2], B(c)>> \o y
    BY <1>8 DEF Sequel, LoadOps
  <2> HIDE DEF n
  <2>3. y \in Seq(Fitting) /\ Len(y) = n /\ \A j \in 1..n : y[j] = Memory(to + j - 1)
    <3>1. \A j \in 1..n : to + j - 1 \in Int
      BY <1>1, <2>1
    <3>2. \A j \in 1..n : Memory(to + j - 1) \in Fitting
      BY <3>1, MemoryFits
    <3>3. y \in [1..n -> Fitting]
      BY <3>2 DEF Copy
    <3>4. \A j \in 1..n : y[j] = Memory(to + j - 1)
      BY DEF Copy
    <3>5. y \in Seq(Fitting) /\ Len(y) = n
      BY <2>1, <3>3
    <3> QED BY <3>4, <3>5
  <2>4. c \in Nat /\ c \in 0..9 /\ n \in 1..4
    BY <2>1
  <2>5. B(c) \in Fitting
    BY <2>4, ShortFits
  <2> HIDE DEF y, c
  <2>6. /\ Len(Sequel(i)) = 2 + n /\ out[k] = [w EXCEPT !.imm = 2] /\ out[k + 1] = B(c)
        /\ \A j \in 1..n : out[k + 1 + j] = y[j]
    BY <1>5, <1>6, <1>8, <2>2, <2>3, <2>4, <2>5
  <2> QED BY <2>3, <2>6 DEF n, c
<1> HIDE DEF to
<1> QED BY <1>2, <1>3, <1>4, <1>7, <1>8 DEF SequelAt, to

FarIs(k, i, S) ==
  /\ i \in 0..Count - 1 /\ code[i + 1].op \in Replaceable /\ SequelAt(k, i)
  /\ Len(Sequel(i)) \in 3..6 /\ k + Len(Sequel(i)) - 1 <= Len(out)
  /\ code[i + 1].op \in JumpOps => \A x \in 0..Len(Sequel(i)) - 1 : org[k + x] = i
  /\ code[i + 1].op \notin JumpOps => org[k + 1] = i + 1
  /\ Leads(k + Len(Sequel(i)), i + 1, S)

LEMMA FarReads ==
  ASSUME NEW S, Settled(S), NEW k \in S, k \in 1..Len(out), FarCore(k, S), NEW i, i = org[k]
  PROVE  FarIs(k, i, S)
<1>1. i \in 0..Count - 1 /\ code[i + 1].op \in Replaceable /\ k \in Nat /\ Len(out) \in Nat
  BY WindowFacts DEF FarCore, IInv, Settled
<1>2. Len(Sequel(i)) \in 3..6 /\ DueOf(i) \in 1..Len(Sequel(i))
  BY <1>1, SequelIs DEF Settled
<1>3. Holds(k, Sequel(i), DueOf(i), S) /\ Leads(k + Len(Sequel(i)), i + 1, S)
  BY DEF FarCore
<1> DEFINE n == Len(Sequel(i))
           d == DueOf(i)
<1>4. /\ \A x \in 1..n : out[k + x - 1] = Sequel(i)[x]
      /\ k + n - 1 <= Len(out)
      /\ \A x \in 1..n : org[k + x - 1] = IF x <= d THEN i ELSE i + 1
  BY <1>3 DEF Holds
<1>5. SequelAt(k, i)
  BY <1>1, <1>4, SequelWords DEF Settled
<1> HIDE DEF n, d
<1>6. n \in 3..6 /\ d \in 1..n
  BY <1>2 DEF n, d
<1>7. ASSUME code[i + 1].op \in JumpOps, NEW x \in 0..n - 1 PROVE org[k + x] = i
  <2>1. d = n
    BY <1>7 DEF d, n, DueOf
  <2>2. x + 1 \in 1..n /\ x + 1 <= d /\ k + (x + 1) - 1 = k + x
    BY <1>1, <1>6, <2>1
  <2> QED BY <1>4, <2>2
<1>8. ASSUME code[i + 1].op \notin JumpOps PROVE org[k + 1] = i + 1
  <2>1. d = 1
    BY <1>8 DEF d, DueOf
  <2>2. 2 \in 1..n /\ ~(2 <= d) /\ k + 2 - 1 = k + 1
    BY <1>1, <1>6, <2>1
  <2> QED BY <1>4, <2>2
<1> QED BY <1>1, <1>2, <1>3, <1>4, <1>5, <1>7, <1>8 DEF n, FarIs

LEMMA BackReads ==
  ASSUME NEW S, Settled(S), NEW k \in S, k \in 1..Len(out), org[k] = Count, Holds(k, FarJump(Callback), 4, S)
  PROVE  JumpAt(k, Callback) /\ k + 3 <= Len(out) /\ org[k + 1] = Count /\ Callback \in Int
<1>1. Callback \in Int /\ k \in Nat /\ Len(out) \in Nat
  BY WindowFacts, WidthAssumption DEF Settled, IInv, Callback
<1>2. Len(FarJump(Callback)) = 4
  BY <1>1, FarFits
<1> DEFINE v == FarJump(Callback)
<1> HIDE DEF v
<1>3. /\ \A x \in 1..4 : out[k + x - 1] = v[x]
      /\ k + 4 - 1 <= Len(out)
      /\ \A x \in 1..4 : org[k + x - 1] = IF x <= 4 THEN org[k] ELSE org[k] + 1
  BY <1>2 DEF Holds, v
<1>4. org[k + 1] = Count
  <2>1. 2 \in 1..4 /\ 2 <= 4 /\ k + 2 - 1 = k + 1
    BY <1>1
  <2> QED BY <1>3, <2>1
<1>5. k + 3 <= Len(out)
  BY <1>1, <1>3
<1>6. JumpAt(k, Callback)
  BY <1>1, <1>3, JumpWords DEF v
<1> QED BY <1>1, <1>4, <1>5, <1>6

LEMMA Opening ==
  ASSUME NEW S, Settled(S), NEW m \in S
  PROVE  m \in 1..Len(out) /\ out[m].op \notin {"prfm", "br"} /\ Opens(m, S) /\ OpAt(org[m]) # "prfm"
<1>1. m \in 1..Len(out) /\ Len(out) \in Nat /\ Opens(m, S) /\ OpAt(org[m]) # "prfm"
  <2>1. Len(out) \in Nat /\ Count \in Nat /\ m \in 1..Len(out) + 1 /\ (m = Len(out) + 1 => in <= Count)
    BY WindowFacts DEF Settled, ShapeInv, IInv
  <2>2. m \in 1..Len(out)
    BY <2>1 DEF Settled
  <2> QED BY <2>1, <2>2 DEF Settled, ShapeInv
<1>2. CASE PadCore(m, S)
  BY <1>1, <1>2 DEF PadCore, Nop, CPU!Word
<1>3. CASE NearCore(m, S)
  BY <1>1, <1>3 DEF NearCore, NearWord, JumpOps, LoadOps
<1>4. CASE FarCore(m, S)
  <2>1. PICK i : i = org[m]
    OBVIOUS
  <2>2. code[i + 1].op \in Replaceable /\ SequelAt(m, i)
    BY <1>1, <1>4, <2>1, FarReads DEF FarIs
  <2>3. out[m].op \in JumpOps \cup LoadOps
    <3>1. CASE code[i + 1].op \in {"b", "bl", "adr", "adrp"}
      BY <2>2, <3>1 DEF SequelAt, JumpAt, CallAt, LoadAt, LdrX, CPU!Word, LoadOps
    <3>2. CASE code[i + 1].op \in {"bc", "tbz"} \cup LoadOps
      <4>1. out[m] = [code[i + 1] EXCEPT !.imm = 2]
        BY <2>2, <3>2 DEF SequelAt
      <4>2. code[i + 1] \in Fitting
        <5>1. i \in 0..Count - 1
          BY <1>1, <1>4, <2>1, FarReads DEF FarIs
        <5> QED BY <5>1, NamesAre DEF Settled, IInv
      <4>3. out[m].op = code[i + 1].op
        BY <4>1, <4>2 DEF Fitting, OutWords
      <4> QED BY <3>2, <4>3 DEF JumpOps, LoadOps
    <3> QED BY <2>2, <3>1, <3>2 DEF Replaceable, JumpOps, LoadOps
  <2> QED BY <1>1, <2>3 DEF JumpOps, LoadOps
<1>5. CASE BackCore(m, S)
  <2>1. CASE out[m].op = "b"
    BY <1>1, <2>1
  <2>2. CASE org[m] = Count /\ Holds(m, FarJump(Callback), 4, S)
    <3>1. JumpAt(m, Callback)
      BY <1>1, <2>2, BackReads
    <3> QED BY <1>1, <3>1 DEF JumpAt, LdrX, CPU!Word
  <2> QED BY <1>5, <2>1, <2>2 DEF BackCore
<1> QED BY <1>1, <1>2, <1>3, <1>4, <1>5 DEF Opens

-----------------------------------------------------------------------------
(* Where a step goes.                                                      *)
LEMMA LandsIn ==
  ASSUME NEW S, Settled(S), NEW m, NEW j, Leads(m, j, S), NEW rg, NEW ws
  PROVE  Landed(AddrOf(m), Old!Past(Base + j), rg, ws, S) /\ Home(AddrOf(m)) = Old!Past(Base + j)
<1>1. m \in S /\ Same(Index(m), j)
  BY DEF Leads
<1>2. m \in 1..Len(out) /\ out[m].op \notin {"prfm", "br"} /\ OpAt(org[m]) # "prfm" /\ Len(out) \in Nat /\ IInv
  BY <1>1, Opening DEF Settled, IInv
<1>3. Old!Past(Base + org[m]) = Old!Past(Base + j)
  <2>1. Index(m) = org[m]
    BY <1>2 DEF Index
  <2> QED BY <1>1, <2>1 DEF Same
<1>4. /\ CPU!Inside(AddrOf(m)) /\ CPU!Fetch(AddrOf(m)) = out[m] /\ CPU!Past(AddrOf(m)) = AddrOf(m)
      /\ Home(AddrOf(m)) = Base + org[m] /\ org[m] \in 0..Count
  BY <1>2, InRow
<1>5. Old!Past(Base + org[m]) = Base + org[m]
  <2>1. Old!Fetch(Base + org[m]).op # "prfm"
    BY <1>2, <1>4, FetchIs DEF IInv
  <2> QED BY <2>1, PastStays
<1>6. Shown(AddrOf(m), rg, ws) = Plainly(rg)
  BY <1>2, <1>4 DEF Shown
<1>7. Stands(AddrOf(m), rg, ws, S)
  BY <1>1 DEF Stands
<1> QED BY <1>3, <1>4, <1>5, <1>6, <1>7 DEF Landed

LEMMA LandsOut ==
  ASSUME NEW S, Settled(S), NEW a \in Int, a \notin Row(outBase), NEW rg, NEW ws
  PROVE  Landed(a, Old!Past(a), rg, ws, S) /\ Home(a) = a
<1>1. ~CPU!Inside(a) /\ CPU!Past(a) = a /\ Home(a) = a
  BY OutRow DEF Settled
<1> QED BY <1>1 DEF Landed, Shown, Stands

LEMMA LandsAt ==
  ASSUME NEW S, Settled(S), NEW a \in Int, NEW to \in Int, Reaches(a, to, S), to \notin Row(outBase), NEW rg, NEW ws
  PROVE  /\ Landed(a, Old!Past(to), rg, ws, S)
         /\ Home(a) = IF InWindow(to) THEN Old!Past(to) ELSE to
<1>1. CASE InWindow(to)
  <2>1. Leads(a - outBase + 1, to - Base, S)
    BY <1>1 DEF Reaches
  <2>2. AddrOf(a - outBase + 1) = a /\ Base + (to - Base) = to
    BY WidthAssumption DEF AddrOf, Settled, IInv
  <2> DEFINE m == a - outBase + 1
             j == to - Base
  <2>3. Leads(m, j, S) /\ AddrOf(m) = a /\ Base + j = to
    BY <2>1, <2>2
  <2> HIDE DEF m, j
  <2>4. Landed(AddrOf(m), Old!Past(Base + j), rg, ws, S) /\ Home(AddrOf(m)) = Old!Past(Base + j)
    BY <2>3, LandsIn
  <2> QED BY <1>1, <2>3, <2>4
<1>2. CASE ~InWindow(to)
  <2>1. a = to
    BY <1>2 DEF Reaches
  <2> QED BY <1>2, <2>1, LandsOut
<1> QED BY <1>1, <1>2

-----------------------------------------------------------------------------
(* What a step at a word is.                                               *)
LEMMA MregIs == Mreg = Shown(pc, reg, was)
BY DEF Mreg, Shown, Plainly, Seen, CPU!Ins

LEMMA AtWord ==
  ASSUME IInv, NEW m \in 1..Len(out), pc = AddrOf(m)
  PROVE  /\ CPU!Ins = out[m] /\ CPU!Target = Aim(m) /\ pc + 1 = AddrOf(m + 1)
         /\ Mreg = IF out[m].op = "br" THEN Plainly(was) ELSE Plainly(reg)
         /\ Mpc = Old!Past(Base + org[m])
<1>1. /\ AddrOf(m) + 1 = AddrOf(m + 1) /\ CPU!Inside(AddrOf(m)) /\ CPU!Fetch(AddrOf(m)) = out[m]
      /\ Home(AddrOf(m)) = Base + org[m]
  BY InRow
<1>2. CPU!Ins = out[m]
  BY <1>1 DEF CPU!Ins
<1>3. CPU!Target = Aim(m)
  BY <1>2 DEF CPU!Target, Aim
<1>4. Mreg = IF out[m].op = "br" THEN Plainly(was) ELSE Plainly(reg)
  BY <1>1, MregIs DEF Shown
<1> QED BY <1>1, <1>2, <1>3, <1>4 DEF Mpc

LEMMA Onward ==
  ASSUME IInv, NEW m \in 1..Len(out), m + 1 \in 1..Len(out), pc = AddrOf(m), out[m + 1].op # "prfm"
  PROVE  CPU!Past(pc + 1) = AddrOf(m + 1)
<1>1. pc + 1 = AddrOf(m + 1)
  BY AtWord
<1> DEFINE x == m + 1
<1> HIDE DEF x
<1>2. x \in 1..Len(out) /\ out[x].op # "prfm"
  BY DEF x
<1>3. CPU!Past(AddrOf(x)) = AddrOf(x)
  BY <1>2, InRow
<1> QED BY <1>1, <1>3 DEF x

LEMMA DoesLoad ==
  ASSUME IInv, NEW m \in 1..Len(out), pc = AddrOf(m), NEW q, NEW rg, Does(q, rg),
         out[m].op = "ldr", out[m].n = 2, NEW d \in {2, 3}, out[m].imm = d, m + d + 1 <= Len(out),
         NEW b, out[m + d] = CPU!Address(b)[1], out[m + d + 1] = CPU!Address(b)[2], out[m + 1].op # "prfm"
  PROVE  q = AddrOf(m + 1) /\ rg = CPU!Put(out[m].rd, CPU!Address(b))
<1>1. CPU!Ins = out[m] /\ CPU!Target = Aim(m) /\ Len(out) \in Nat /\ outBase \in Nat
  BY AtWord DEF IInv
<1>2. /\ q = CPU!Past(pc + 1)
      /\ rg = CPU!Put(out[m].rd, [k \in 1..2 |-> CPU!Fetch(Aim(m) + k - 1)])
  BY <1>1 DEF Does, LoadOps
<1>3. Aim(m) = AddrOf(m) + d
  <2>1. CPU!Half("ldr") = H19 /\ 50 <= CPU!Half("ldr")
    BY WidthsReach DEF CPU!Half
  <2>2. CPU!Signed(d, CPU!Half("ldr")) = d
    <3>1. ~(d >= CPU!Half("ldr"))
      BY <2>1, WidthAssumption
    <3> QED BY <3>1 DEF CPU!Signed
  <2> QED BY <2>2 DEF Aim
<1>4. AddrOf(m) + d + 1 - 1 = AddrOf(m + d) /\ AddrOf(m) + d + 2 - 1 = AddrOf(m + d + 1)
  BY <1>1 DEF AddrOf
<1>5. CPU!Fetch(AddrOf(m + d)) = out[m + d] /\ CPU!Fetch(AddrOf(m + d + 1)) = out[m + d + 1]
  <2> DEFINE x == m + d
             y == m + d + 1
  <2>1. x \in 1..Len(out) /\ y \in 1..Len(out)
    BY <1>1, SMTT(30)
  <2> HIDE DEF x, y
  <2>2. CPU!Fetch(AddrOf(x)) = out[x] /\ CPU!Fetch(AddrOf(y)) = out[y]
    BY <2>1, InRow
  <2> QED BY <2>2 DEF x, y
<1>6. [k \in 1..2 |-> CPU!Fetch(Aim(m) + k - 1)] = CPU!Address(b)
  <2> DEFINE f == [k \in 1..2 |-> CPU!Fetch(Aim(m) + k - 1)]
  <2>1. f = <<f[1], f[2]>>
    OBVIOUS
  <2>2. f[1] = CPU!Fetch(Aim(m) + 1 - 1) /\ f[2] = CPU!Fetch(Aim(m) + 2 - 1)
    OBVIOUS
  <2> HIDE DEF f
  <2>3. f[1] = out[m + d] /\ f[2] = out[m + d + 1]
    BY <1>3, <1>4, <1>5, <2>2
  <2>4. CPU!Address(b) = <<CPU!Address(b)[1], CPU!Address(b)[2]>>
    BY DEF CPU!Address
  <2>5. f = CPU!Address(b)
    BY <2>1, <2>3, <2>4
  <2> QED BY <2>5 DEF f
<1>7. CPU!Past(pc + 1) = AddrOf(m + 1)
  <2>1. m + 1 \in 1..Len(out)
    BY <1>1
  <2> QED BY <2>1, Onward
<1> QED BY <1>2, <1>6, <1>7

LEMMA DoesJump ==
  ASSUME IInv, NEW m \in 1..Len(out), pc = AddrOf(m), NEW q, NEW rg, Does(q, rg),
         out[m] = CPU!Word("br", 0, 17, 0, 0), NEW to \in Int, reg[17] = CPU!Address(4 * to)
  PROVE  q = CPU!Past(to) /\ rg = reg
<1>1. CPU!Ins = out[m]
  BY AtWord
<1>2. out[m].op = "br" /\ out[m].rd = 17
  BY DEF CPU!Word
<1>3. reg[17][1].imm = 4 * to
  BY DEF CPU!Address, CPU!Word
<1>4. (4 * to) \div 4 = to
  OBVIOUS
<1> QED BY <1>1, <1>2, <1>3, <1>4 DEF Does, LoadOps

LEMMA DoesShort ==
  ASSUME IInv, NEW m \in 1..Len(out), pc = AddrOf(m), NEW q, NEW rg, Does(q, rg),
         NEW n \in 0..9, out[m] = B(n)
  PROVE  q = CPU!Past(AddrOf(m + n)) /\ rg = reg
<1>1. CPU!Ins = out[m] /\ CPU!Target = Aim(m) /\ outBase \in Nat /\ Len(out) \in Nat
  BY AtWord DEF IInv
<1>2. out[m].op = "b" /\ out[m].imm = n
  BY DEF B, CPU!Word
<1>3. Aim(m) = AddrOf(m + n)
  <2>1. 50 <= CPU!Half("b") /\ CPU!Half("b") \in Nat
    BY WidthsReach, HalfPositive
  <2>2. CPU!Signed(n, CPU!Half("b")) = n
    BY <2>1 DEF CPU!Signed
  <2>3. Aim(m) = AddrOf(m) + n
    BY <1>2, <2>2 DEF Aim
  <2>4. AddrOf(m) + n = AddrOf(m + n)
    BY <1>1 DEF AddrOf
  <2> QED BY <2>3, <2>4
<1> QED BY <1>1, <1>2, <1>3 DEF Does, LoadOps

LEMMA PutGives ==
  ASSUME NEW r, NEW v
  PROVE  /\ Plainly(CPU!Put(r, v)) = [s \in Regs \ {17} |-> IF s = r THEN HomeValue(v) ELSE Plainly(reg)[s]]
         /\ r = 17 => Plainly(CPU!Put(r, v)) = Plainly(reg) /\ CPU!Put(r, v)[17] = v
         /\ \A s \in Regs : s # r => CPU!Put(r, v)[s] = reg[s]
<1>1. \A s \in Regs : CPU!Put(r, v)[s] = IF s = r THEN v ELSE reg[s]
  BY DEF CPU!Put
<1>2. Plainly(CPU!Put(r, v)) = [s \in Regs \ {17} |-> IF s = r THEN HomeValue(v) ELSE Plainly(reg)[s]]
  BY <1>1 DEF Plainly
<1>3. r = 17 => Plainly(CPU!Put(r, v)) = Plainly(reg)
  BY <1>1 DEF Plainly
<1> QED BY <1>1, <1>2, <1>3, RegsAssumption

LEMMA PutShows ==
  ASSUME NEW r, NEW v, Mreg = Plainly(reg)
  PROVE  Plainly(CPU!Put(r, v)) = Given(r, HomeValue(v))
BY PutGives DEF Given

LEMMA HomeAddress ==
  ASSUME NEW a \in Int, NEW lo \in 0..3, NEW b, b = 4 * a + lo, Home(a) \in Int
  PROVE  HomeValue(CPU!Address(b)) = CPU!Address(4 * Home(a) + lo)
<1>1. b \div 4 = a /\ b % 4 = lo
  OBVIOUS
<1>2. CPU!Address(b) # << >> /\ CPU!Address(b)[1].op = "lo" /\ CPU!Address(b)[1].imm = b
  BY DEF CPU!Address, CPU!Word
<1> QED BY <1>1, <1>2 DEF HomeValue

-----------------------------------------------------------------------------
(* What must follow: the original stands still, or does its instruction.   *)
Follows(q, rg, S) ==
  /\ Stands(q, rg, reg, S)
  /\ \/ Old!Past(Home(q)) = Mpc /\ Shown(q, rg, reg) = Mreg
     \/ \E i \in 0..Count - 1 : Mpc = Base + i /\ Should(i, Old!Past(Home(q)), Shown(q, rg, reg))

LEMMA Stays ==
  ASSUME NEW S, NEW q, NEW rg, Landed(q, Mpc, rg, reg, S), Plainly(rg) = Mreg
  PROVE  Follows(q, rg, S)
BY DEF Follows, Landed

LEMMA Does1 ==
  ASSUME NEW S, NEW q, NEW rg, NEW h, Landed(q, h, rg, reg, S),
         NEW i \in 0..Count - 1, Mpc = Base + i, Should(i, h, Plainly(rg))
  PROVE  Follows(q, rg, S)
BY DEF Follows, Landed

LEMMA PadRuns ==
  ASSUME NEW S, Settled(S), NEW m \in S, m \in 1..Len(out), PadCore(m, S), pc = AddrOf(m),
         NEW q, NEW rg, Does(q, rg)
  PROVE  Follows(q, rg, S)
<1>1. out[m].op = "nop" /\ m + 1 \in S /\ org[m + 1] = org[m] /\ m + 1 \in 1..Len(out) /\ Len(out) \in Nat /\ IInv
  BY SMTT(30) DEF PadCore, Nop, CPU!Word, Settled, IInv
<1>2. CPU!Ins = out[m] /\ pc + 1 = AddrOf(m + 1) /\ Mreg = Plainly(reg) /\ Mpc = Old!Past(Base + org[m])
  BY <1>1, AtWord
<1>3. q = CPU!Past(AddrOf(m + 1)) /\ rg = reg
  BY <1>1, <1>2 DEF Does, LoadOps
<1>4. Leads(m + 1, org[m], S)
  BY <1>1 DEF Leads, Index, Same
<1>5. Landed(AddrOf(m + 1), Mpc, rg, reg, S)
  BY <1>2, <1>4, LandsIn
<1>6. q = AddrOf(m + 1)
  BY <1>3, <1>5 DEF Landed
<1> QED BY <1>2, <1>3, <1>5, <1>6, Stays

LEMMA HandledAt ==
  ASSUME IInv, AllHandled, NEW i \in 0..Count - 1, NEW to, to = Label(code, i)
  PROVE  /\ to \in Int
         /\ code[i + 1].op \in {"adr"} \cup JumpOps => to \notin Row(outBase)
         /\ code[i + 1].op = "adr" /\ InWindow(to) => Old!Past(to) = to
         /\ code[i + 1].op \in LoadOps /\ ~InWindow(to) =>
              \A j \in 0..code[i + 1].n - 1 : to + j \notin Row(outBase) /\ ~InWindow(to + j)
         /\ code[i + 1].op = "adrp" => PageOf(code, i) \notin Row(outBase)
<1> DEFINE w == code[i + 1]
<1>1. Count \in Nat /\ Base \in Nat /\ code \in Windows /\ i \in 0..Len(code) - 1 /\ Count = Len(code) /\ to \in Int
  <2>1. Label(code, i) \in Int
    BY NamesAre DEF IInv
  <2> QED BY <2>1, WindowFacts, WidthAssumption DEF IInv, Count
<1>2. Among(code, to) <=> InWindow(to)
  BY <1>1 DEF Among, InWindow
<1>3. /\ w.op \in {"bc", "tbz", "adr", "adrp"} \cup LoadOps => w.imm < CPU!Half(w.op)
      /\ w.op \in {"adr"} \cup JumpOps => to \notin Row(outBase)
      /\ w.op = "adr" /\ Among(code, to) => code[to - Base + 1].op # "prfm"
      /\ w.op \in LoadOps /\ ~Among(code, to) => \A j \in 0..w.n - 1 : to + j \notin Row(outBase)
      /\ w.op = "adrp" => PageOf(code, i) \notin Row(outBase)
  BY <1>1 DEF AllHandled, Handled
<1>4. ASSUME w.op = "adr", InWindow(to) PROVE Old!Past(to) = to
  <2>1. PICK j \in 0..Count - 1 : to = Base + j
    <3>1. to - Base \in 0..Count - 1 /\ to = Base + (to - Base)
      BY <1>1, <1>4 DEF InWindow
    <3> QED BY <3>1
  <2>2. code[j + 1].op # "prfm"
    <3>1. to - Base + 1 = j + 1
      BY <1>1, <2>1
    <3> QED BY <1>2, <1>3, <1>4, <3>1
  <2>3. Old!Fetch(Base + j).op # "prfm"
    <3>1. j \in 0..Count /\ j < Count
      BY <1>1
    <3> QED BY <1>1, <2>2, <3>1, FetchIs
  <2> QED BY <2>1, <2>3, PastStays
<1>5. ASSUME w.op \in LoadOps, ~InWindow(to), NEW j \in 0..w.n - 1 PROVE ~InWindow(to + j)
  <2>1. w.imm \in Nat /\ CPU!Half(w.op) \in Nat
    BY <1>1, NamesAre, HalfPositive
  <2>2. to = Base + i + w.imm
    BY <1>3, <1>5, <2>1 DEF Label, CPU!Signed
  <2>3. to >= Base + Count
    BY <1>1, <1>5, <2>1, <2>2 DEF InWindow
  <2>4. j \in Nat
    BY <1>1, <1>5, NamesAre
  <2> QED BY <1>1, <2>3, <2>4 DEF InWindow
<1> HIDE DEF w
<1>6. ASSUME w.op \in LoadOps, ~InWindow(to), NEW j \in 0..w.n - 1 PROVE to + j \notin Row(outBase)
  BY <1>2, <1>3, <1>6
<1> QED BY <1>1, <1>3, <1>4, <1>5, <1>6 DEF w

LEMMA AtInstruction ==
  ASSUME NEW S, Settled(S), NEW m \in S, pc = AddrOf(m), NEW i, i = org[m], i < Count
  PROVE  /\ IInv /\ AllHandled /\ m \in 1..Len(out) /\ i \in 0..Count - 1 /\ code \in Windows
         /\ CPU!Ins = out[m] /\ CPU!Target = Aim(m) /\ pc + 1 = AddrOf(m + 1)
         /\ Mreg = Plainly(reg) /\ Mpc = Base + i
<1>1. IInv /\ AllHandled /\ m \in 1..Len(out) /\ out[m].op # "br" /\ org[m] \in 0..Count /\ Len(out) \in Nat
  BY Opening, InRow DEF Settled
<1>2. code \in Windows /\ Count \in Nat /\ i \in 0..Count - 1
  BY <1>1, WindowFacts DEF IInv
<1>3. CPU!Ins = out[m] /\ CPU!Target = Aim(m) /\ pc + 1 = AddrOf(m + 1) /\ Mreg = Plainly(reg)
      /\ Mpc = Old!Past(Base + i)
  BY <1>1, AtWord
<1>4. Leads(m, i, S)
  BY <1>1 DEF Leads, Same, Index
<1>5. Home(AddrOf(m)) = Old!Past(Base + i)
  BY <1>4, LandsIn
<1>6. Home(AddrOf(m)) = Base + i
  BY <1>1, InRow
<1> QED BY <1>1, <1>2, <1>3, <1>5, <1>6

LEMMA NoneWaits ==
  ASSUME NEW S, Settled(S)
  PROVE  fmap = {}
<1>1. fmap \subseteq [at : 1..Len(out), to : in..Count - 1] /\ in = Count + 1 /\ Count \in Nat
  BY WindowFacts DEF Settled, IInv
<1>2. in..Count - 1 = {}
  BY <1>1
<1> QED BY <1>1, <1>2

LEMMA NearRuns ==
  ASSUME NEW S, Settled(S), NEW m \in S, m \in 1..Len(out), NearCore(m, S), pc = AddrOf(m),
         NEW q, NEW rg, Does(q, rg)
  PROVE  Follows(q, rg, S)
<1>1. PICK i : i = org[m]
  OBVIOUS
<1> DEFINE w    == code[i + 1]
           next == Old!Past(Base + (i + 1))
<1>2. i < Count /\ NearWord(m, i, S) /\ Leads(m + 1, i + 1, S)
  BY <1>1 DEF NearCore
<1>3. /\ IInv /\ AllHandled /\ i \in 0..Count - 1 /\ code \in Windows
      /\ CPU!Ins = out[m] /\ CPU!Target = Aim(m) /\ pc + 1 = AddrOf(m + 1)
      /\ Mreg = Plainly(reg) /\ Mpc = Base + i
  BY <1>1, <1>2, AtInstruction
<1>4. PICK to : to = Label(code, i)
  OBVIOUS
<1>5. /\ to \in Int /\ w.imm \in Nat /\ w.rd \in Nat /\ w.lo \in 0..3
      /\ w.op \in LoadOps => w.n \in {1, 2, 4}
  BY <1>3, <1>4, NamesAre, WindowFacts DEF LoadOps
<1>6. /\ Landed(AddrOf(m + 1), next, rg, reg, S) /\ Home(AddrOf(m + 1)) = next
      /\ CPU!Past(AddrOf(m + 1)) = AddrOf(m + 1)
  BY <1>2, LandsIn DEF Landed
<1>7. /\ out[m].op = w.op /\ w.op \in {"plain", "adr"} \cup JumpOps \cup LoadOps
      /\ w.op \in {"adr"} \cup JumpOps => Reaches(Aim(m), to, S)
      /\ w.op = "adr" => out[m].rd = w.rd /\ out[m].lo = w.lo
      /\ w.op \in LoadOps => out[m].rd = w.rd /\ out[m].n = w.n /\ Aim(m) = to /\ ~InWindow(to)
  BY <1>2, <1>4, NoneWaits DEF NearWord, Targeted, Awaits
<1>8. Aim(m) \in Int
  <2>1. out \in Seq(Fitting) /\ outBase \in Nat
    BY <1>3 DEF IInv
  <2>2. out[m] \in Fitting
    BY <2>1
  <2>3. out[m].imm \in Int /\ CPU!Half(out[m].op) \in Nat
    BY <2>2, HalfPositive DEF Fitting, OutWords
  <2> QED BY <2>1, <2>3 DEF Aim, AddrOf, CPU!Signed
<1>9. w.op \in {"adr"} \cup JumpOps =>
        /\ Landed(Aim(m), Old!Past(to), rg, reg, S) /\ CPU!Past(Aim(m)) = Aim(m)
        /\ Home(Aim(m)) = IF InWindow(to) THEN Old!Past(to) ELSE to
  <2> SUFFICES ASSUME w.op \in {"adr"} \cup JumpOps
               PROVE  /\ Landed(Aim(m), Old!Past(to), rg, reg, S) /\ CPU!Past(Aim(m)) = Aim(m)
                      /\ Home(Aim(m)) = IF InWindow(to) THEN Old!Past(to) ELSE to
    OBVIOUS
  <2>1. to \notin Row(outBase)
    BY <1>3, <1>4, HandledAt
  <2> QED BY <1>5, <1>7, <1>8, <2>1, LandsAt DEF Landed
<1>10. CASE w.op = "plain"
  <2>1. q = AddrOf(m + 1) /\ rg = reg
    BY <1>3, <1>6, <1>7, <1>10 DEF Does, LoadOps
  <2>2. Should(i, next, Plainly(rg))
    BY <1>3, <1>10, <2>1 DEF Should
  <2> QED BY <1>3, <1>6, <2>1, <2>2, Does1
<1>11. CASE w.op = "b"
  <2>1. q = Aim(m) /\ rg = reg
    BY <1>3, <1>7, <1>9, <1>11 DEF Does, LoadOps, JumpOps
  <2>2. Should(i, Old!Past(to), Plainly(rg))
    BY <1>3, <1>4, <1>11, <2>1 DEF Should
  <2> QED BY <1>3, <1>9, <1>11, <2>1, <2>2, Does1 DEF JumpOps
<1>12. CASE w.op = "bl"
  <2>1. q = Aim(m) /\ rg = CPU!Put(30, CPU!Address(4 * AddrOf(m + 1)))
    BY <1>3, <1>6, <1>7, <1>9, <1>12 DEF Does, LoadOps, JumpOps
  <2>2. Plainly(rg) = Given(30, CPU!Address(4 * next))
    <3> DEFINE a == AddrOf(m + 1)
    <3>1. a \in Int /\ Home(a) = next
      BY <1>3, <1>6 DEF AddrOf, IInv
    <3>2. next \in Int
      <4>1. i + 1 \in 0..Count /\ Count \in Nat /\ Base \in Nat
        BY <1>3, WindowFacts, WidthAssumption
      <4> DEFINE j == i + 1
      <4>2. j \in 0..Count
        BY <4>1
      <4> HIDE DEF j
      <4>3. PICK b \in j..Count : Old!Past(Base + j) = Base + b
        BY <1>3, <4>2, PastIsLeast
      <4>4. Old!Past(Base + j) \in Int
        BY <4>1, <4>2, <4>3
      <4> QED BY <4>4 DEF j
    <3> HIDE DEF a, next
    <3>3. HomeValue(CPU!Address(4 * a)) = CPU!Address(4 * next)
      <4> DEFINE lo == 0
                 b  == 4 * a
      <4>1. lo \in 0..3 /\ b = 4 * a + lo /\ 4 * next + lo = 4 * next
        BY <3>1, <3>2
      <4> HIDE DEF lo, b
      <4>2. HomeValue(CPU!Address(b)) = CPU!Address(4 * Home(a) + lo)
        BY <3>1, <3>2, <4>1, HomeAddress
      <4> QED BY <3>1, <4>1, <4>2 DEF b
    <3>4. Plainly(CPU!Put(30, CPU!Address(4 * a))) = Given(30, HomeValue(CPU!Address(4 * a)))
      BY <1>3, PutShows
    <3> QED BY <2>1, <3>3, <3>4 DEF a
  <2>3. Should(i, Old!Past(to), Plainly(rg))
    BY <1>4, <1>12, <2>2 DEF Should
  <2> QED BY <1>3, <1>9, <1>12, <2>1, <2>3, Does1 DEF JumpOps
<1>13. CASE w.op \in {"bc", "tbz"}
  <2>1. q = CPU!Past(IF flag THEN Aim(m) ELSE AddrOf(m + 1)) /\ rg = reg
    BY <1>3, <1>7, <1>13 DEF Does, LoadOps
  <2>2. CASE flag
    <3>1. q = Aim(m)
      BY <1>9, <1>13, <2>1, <2>2 DEF JumpOps
    <3>2. Should(i, Old!Past(to), Plainly(rg))
      BY <1>3, <1>4, <1>13, <2>1, <2>2 DEF Should
    <3> QED BY <1>3, <1>9, <1>13, <3>1, <3>2, Does1 DEF JumpOps
  <2>3. CASE ~flag
    <3>1. q = AddrOf(m + 1)
      BY <1>6, <2>1, <2>3
    <3>2. Should(i, next, Plainly(rg))
      BY <1>3, <1>13, <2>1, <2>3 DEF Should
    <3> QED BY <1>3, <1>6, <3>1, <3>2, Does1
  <2> QED BY <2>2, <2>3
<1>14. CASE w.op \in LoadOps
  <2> DEFINE v == [k \in 1..w.n |-> CPU!Fetch(to + k - 1)]
  <2>1. q = AddrOf(m + 1) /\ rg = CPU!Put(w.rd, v)
    BY <1>3, <1>6, <1>7, <1>14 DEF Does, LoadOps
  <2>2. ASSUME NEW k \in 1..w.n
        PROVE  CPU!Fetch(to + k - 1) = Old!Fetch(to + k - 1) /\ CPU!Fetch(to + k - 1).op = "mem"
    <3> DEFINE j == k - 1
               a == to + j
    <3>1. j \in 0..w.n - 1 /\ a \in Int /\ to + k - 1 = a
      BY <1>5, <1>14
    <3>2. a \notin Row(outBase) /\ ~InWindow(a)
      BY <1>3, <1>4, <1>7, <1>14, <3>1, HandledAt
    <3> HIDE DEF a
    <3>3. CPU!Fetch(a) = CPU!Word("mem", a, 0, 0, 0)
      BY <1>3, <3>1, <3>2, OutRow
    <3>4. Old!Fetch(a) = CPU!Word("mem", a, 0, 0, 0)
      BY <1>3, <3>1, <3>2, PastOutside
    <3> QED BY <3>1, <3>3, <3>4 DEF CPU!Word
  <2>3. v = [k \in 1..w.n |-> Old!Fetch(to + k - 1)]
    BY <2>2
  <2>4. HomeValue(v) = v
    <3>1. 1 \in 1..w.n
      BY <1>5, <1>14
    <3>2. v[1].op = "mem"
      BY <2>2, <3>1
    <3> HIDE DEF v
    <3> QED BY <3>2 DEF HomeValue
  <2>5. Plainly(rg) = Given(w.rd, [k \in 1..w.n |-> Old!Fetch(to + k - 1)])
    BY <1>3, <2>1, <2>3, <2>4, PutShows
  <2>6. Should(i, next, Plainly(rg))
    BY <1>4, <1>14, <2>5 DEF Should
  <2> QED BY <1>3, <1>6, <2>1, <2>6, Does1
<1>15. CASE w.op = "adr"
  <2>1. q = AddrOf(m + 1) /\ rg = CPU!Put(w.rd, CPU!Address(4 * Aim(m) + w.lo))
    BY <1>3, <1>6, <1>7, <1>15 DEF Does, LoadOps, CPU!Named
  <2>2. Home(Aim(m)) = to
    BY <1>3, <1>4, <1>9, <1>15, HandledAt
  <2> DEFINE b == 4 * Aim(m) + w.lo
  <2>3. HomeValue(CPU!Address(b)) = CPU!Address(4 * to + w.lo)
    BY <1>5, <1>8, <2>2, HomeAddress
  <2>4. NamedBy(i) = 4 * to + w.lo
    BY <1>4, <1>15 DEF NamedBy
  <2>5. Plainly(rg) = Given(w.rd, CPU!Address(NamedBy(i)))
    BY <1>3, <2>1, <2>3, <2>4, PutShows
  <2>6. Should(i, next, Plainly(rg))
    BY <1>15, <2>5 DEF Should
  <2> QED BY <1>3, <1>6, <2>1, <2>6, Does1
<1> QED BY <1>7, <1>10, <1>11, <1>12, <1>13, <1>14, <1>15 DEF JumpOps

LEMMA PageInt ==
  ASSUME IInv, NEW i \in 0..Count - 1
  PROVE  PageOf(code, i) \in Int
<1>1. /\ PageWords \in Nat \ {0} /\ H21 \in Nat /\ code[i + 1].imm \in Nat /\ Base \in Nat /\ i \in Nat
  BY WidthAssumption, NamesAre, WindowFacts DEF IInv
<1>2. (Base + i) % PageWords \in Int
  <2> DEFINE y == Base + i
  <2>1. y \in Int
    BY <1>1
  <2> HIDE DEF y
  <2>2. y % PageWords \in Int
    BY <1>1, <2>1, ModBound
  <2> QED BY <2>2 DEF y
<1>3. CPU!Signed(code[i + 1].imm, H21) \in Int
  BY <1>1, SignedInt
<1>4. PageWords * CPU!Signed(code[i + 1].imm, H21) \in Int
  BY <1>1, <1>3
<1> QED BY <1>1, <1>2, <1>4 DEF PageOf

\* The words that a load copies are those that the original reads.
LEMMA MemoryIs ==
  ASSUME IInv, NEW a \in Int
  PROVE  Memory(a) = Old!Fetch(a) /\ Old!Fetch(a).op \in InOps \cup {"mem"}
<1>1. code \in Windows /\ Base \in Nat /\ Count \in Nat /\ code \in Seq(InWords) /\ Count = Len(code)
  BY WindowFacts, WidthAssumption DEF IInv, Count
<1>2. CASE InWindow(a)
  <2>1. a - Base \in 0..Len(code) - 1 /\ a - Base + 1 \in 1..Len(code)
    BY <1>1, <1>2 DEF InWindow
  <2>2. Old!Fetch(a) = code[a - Base + 1] /\ code[a - Base + 1] \in InWords
    BY <1>1, <2>1 DEF Old!Fetch, Old!Inside
  <2> QED BY <1>2, <2>2 DEF Memory, InWords
<1>3. CASE ~InWindow(a)
  BY <1>1, <1>3, PastOutside DEF Memory, CPU!Word
<1> QED BY <1>2, <1>3

\* The place of a word within a sequence, which is no place of the original.
Midst(m, rg, ws, S) ==
  /\ CPU!Past(AddrOf(m)) = AddrOf(m)
  /\ Old!Past(Home(AddrOf(m))) = Old!Past(Base + org[m])
  /\ Shown(AddrOf(m), rg, ws) = IF out[m].op = "br" THEN Plainly(ws) ELSE Plainly(rg)
  /\ Stands(AddrOf(m), rg, ws, S)

LEMMA Between ==
  ASSUME NEW S, Settled(S), NEW k \in S, NEW i, i = org[k], FarCore(k, S),
         NEW m \in 1..Len(out), out[m].op # "prfm",
         NEW rg, NEW ws, Midway(k, i, AddrOf(m), rg, ws)
  PROVE  Midst(m, rg, ws, S)
<1>1. IInv
  BY DEF Settled
<1>3. /\ CPU!Inside(AddrOf(m)) /\ CPU!Fetch(AddrOf(m)) = out[m] /\ CPU!Past(AddrOf(m)) = AddrOf(m)
      /\ Home(AddrOf(m)) = Base + org[m]
  BY <1>1, InRow
<1>4. Stands(AddrOf(m), rg, ws, S)
  BY DEF Stands
<1>5. Shown(AddrOf(m), rg, ws) = IF out[m].op = "br" THEN Plainly(ws) ELSE Plainly(rg)
  BY <1>3 DEF Shown
<1> QED BY <1>3, <1>4, <1>5 DEF Midst

LEMMA Carried ==
  ASSUME NEW to, NEW v, v = CPU!Address(4 * to)
  PROVE  Carries(to, CPU!Put(17, v), reg) /\ Plainly(CPU!Put(17, v)) = Plainly(reg)
BY PutGives DEF Carries

LEMMA FarStarts ==
  ASSUME NEW S, Settled(S), NEW k \in S, k \in 1..Len(out), FarCore(k, S), pc = AddrOf(k),
         NEW q, NEW rg, Does(q, rg)
  PROVE  Follows(q, rg, S)
<1>1. PICK i : i = org[k]
  OBVIOUS
<1> DEFINE w    == code[i + 1]
           n    == Len(Sequel(i))
           next == Old!Past(Base + (i + 1))
<1>2. /\ i \in 0..Count - 1 /\ w.op \in Replaceable /\ SequelAt(k, i)
      /\ n \in 3..6 /\ k + n - 1 <= Len(out)
      /\ w.op \in JumpOps => \A x \in 0..n - 1 : org[k + x] = i
      /\ w.op \notin JumpOps => org[k + 1] = i + 1
      /\ Leads(k + n, i + 1, S)
  <2>1. FarIs(k, i, S)
    BY <1>1, FarReads
  <2> QED BY <2>1 DEF FarIs
<1> HIDE DEF n
<1>0. i < Count /\ k + 1 \in 1..Len(out) /\ k + 2 \in 1..Len(out) /\ k \in Nat
  <2>1. Count \in Nat /\ Len(out) \in Nat
    BY WindowFacts DEF Settled, IInv
  <2> QED BY <1>2, <2>1
<1>3. /\ IInv /\ AllHandled /\ code \in Windows
      /\ CPU!Ins = out[k] /\ CPU!Target = Aim(k) /\ pc + 1 = AddrOf(k + 1)
      /\ Mreg = Plainly(reg) /\ Mpc = Base + i
  BY <1>0, <1>1, AtInstruction
<1>4. PICK to : to = Label(code, i)
  OBVIOUS
<1>5. /\ to \in Int /\ w.rd \in Nat /\ w.lo \in 0..3 /\ w \in Fitting
      /\ w.op \in LoadOps => w.n \in {1, 2, 4} /\ Room(w) \in {1, 2, 4} /\ w.n \in 1..Room(w)
  BY <1>2, <1>3, <1>4, NamesAre, WindowFacts DEF LoadOps
<1>6. Mpc = Old!Past(Base + org[k])
  BY <1>1, <1>3, AtWord
<1>7. w.op \in JumpOps => org[k + 1] = i /\ org[k + 2] = i
  <2>1. 1 \in 0..n - 1 /\ 2 \in 0..n - 1
    BY <1>2
  <2> QED BY <1>2, <2>1
\* A jump loads its target and goes on.
<1>8. CASE w.op = "b"
  <2>1. JumpAt(k, to) /\ n = 4
    BY <1>2, <1>4, <1>8 DEF SequelAt, n
  <2>2. /\ out[k].op = "ldr" /\ out[k].n = 2 /\ out[k].imm = 2 /\ out[k].rd = 17 /\ out[k + 1].op = "br"
        /\ out[k + 2] = CPU!Address(4 * to)[1] /\ out[k + 2 + 1] = CPU!Address(4 * to)[2]
        /\ k + 2 + 1 <= Len(out)
    <3>1. k + 2 + 1 = k + 3 /\ k + 2 + 1 <= Len(out)
      BY <1>0, <1>2, <2>1
    <3> QED BY <2>1, <3>1 DEF JumpAt, LdrX, CPU!Word
  <2>3. q = AddrOf(k + 1) /\ rg = CPU!Put(17, CPU!Address(4 * to))
    <3> DEFINE d == 2
               b == 4 * to
    <3>1. /\ d \in {2, 3} /\ out[k].imm = d /\ k + d + 1 <= Len(out)
          /\ out[k + d] = CPU!Address(b)[1] /\ out[k + d + 1] = CPU!Address(b)[2]
      BY <2>2
    <3> HIDE DEF d, b
    <3>2. q = AddrOf(k + 1) /\ rg = CPU!Put(out[k].rd, CPU!Address(b))
      BY <1>3, <2>2, <3>1, DoesLoad
    <3> QED BY <2>2, <3>2 DEF b
  <2>4. Carries(to, rg, reg) /\ Plainly(rg) = Plainly(reg)
    BY <2>3, Carried
  <2>5. Midway(k, i, AddrOf(k + 1), rg, reg)
    BY <1>4, <1>8, <2>4 DEF Midway
  <2>6. /\ Old!Past(Home(AddrOf(k + 1))) = Old!Past(Base + org[k + 1])
        /\ Shown(AddrOf(k + 1), rg, reg) = Plainly(reg)
        /\ Stands(AddrOf(k + 1), rg, reg, S)
    <3>1. Midst(k + 1, rg, reg, S)
      BY <1>0, <1>1, <2>2, <2>5, Between
    <3> QED BY <2>2, <3>1 DEF Midst
  <2>7. org[k + 1] = org[k]
    BY <1>1, <1>7, <1>8 DEF JumpOps
  <2> QED BY <1>3, <1>6, <2>3, <2>6, <2>7 DEF Follows
<1>9. CASE w.op = "bl"
  <2>1. CallAt(k, to) /\ n = 5
    BY <1>2, <1>4, <1>9 DEF SequelAt, n
  <2>2. /\ out[k].op = "ldr" /\ out[k].n = 2 /\ out[k].imm = 3 /\ out[k].rd = 17 /\ out[k + 1].op = "adr"
        /\ out[k + 3] = CPU!Address(4 * to)[1] /\ out[k + 3 + 1] = CPU!Address(4 * to)[2]
        /\ k + 3 + 1 <= Len(out)
    <3>1. k + 3 + 1 = k + 4 /\ k + 3 + 1 <= Len(out)
      BY <1>0, <1>2, <2>1
    <3> QED BY <2>1, <3>1 DEF CallAt, LdrX, CPU!Word
  <2>3. q = AddrOf(k + 1) /\ rg = CPU!Put(17, CPU!Address(4 * to))
    <3> DEFINE d == 3
               b == 4 * to
    <3>1. /\ d \in {2, 3} /\ out[k].imm = d /\ k + d + 1 <= Len(out)
          /\ out[k + d] = CPU!Address(b)[1] /\ out[k + d + 1] = CPU!Address(b)[2]
      BY <2>2
    <3> HIDE DEF d, b
    <3>2. q = AddrOf(k + 1) /\ rg = CPU!Put(out[k].rd, CPU!Address(b))
      BY <1>3, <2>2, <3>1, DoesLoad
    <3> QED BY <2>2, <3>2 DEF b
  <2>4. Carries(to, rg, reg) /\ Plainly(rg) = Plainly(reg)
    BY <2>3, Carried
  <2>5. Midway(k, i, AddrOf(k + 1), rg, reg)
    BY <1>4, <1>9, <2>4 DEF Midway, Carries
  <2>6. /\ Old!Past(Home(AddrOf(k + 1))) = Old!Past(Base + org[k + 1])
        /\ Shown(AddrOf(k + 1), rg, reg) = Plainly(rg)
        /\ Stands(AddrOf(k + 1), rg, reg, S)
    <3>1. Midst(k + 1, rg, reg, S)
      BY <1>0, <1>1, <2>2, <2>5, Between
    <3> QED BY <2>2, <3>1 DEF Midst
  <2>7. org[k + 1] = org[k]
    BY <1>1, <1>7, <1>9 DEF JumpOps
  <2> QED BY <1>3, <1>6, <2>3, <2>4, <2>6, <2>7 DEF Follows
\* A condition chooses between the jump and the branch around it.
<1>10. CASE w.op \in {"bc", "tbz"}
  <2>1. out[k] = [w EXCEPT !.imm = 2] /\ out[k + 1] = B(5) /\ JumpAt(k + 2, to)
    BY <1>2, <1>4, <1>10 DEF SequelAt
  <2>2. out[k].op = w.op /\ out[k].imm = 2 /\ out[k + 1].op = "b" /\ out[k + 2].op = "ldr"
    BY <1>5, <2>1 DEF JumpAt, LdrX, B, CPU!Word, Fitting, OutWords
  <2>3. Aim(k) = AddrOf(k + 2)
    <3>1. 50 <= CPU!Half(w.op) /\ CPU!Half(w.op) \in Nat
      BY <1>10, WidthsReach, HalfPositive
    <3>2. CPU!Signed(2, CPU!Half(w.op)) = 2
      BY <3>1 DEF CPU!Signed
    <3>3. Aim(k) = AddrOf(k) + 2
      BY <2>2, <3>2 DEF Aim
    <3> QED BY <1>0, <1>3, <3>3 DEF AddrOf, IInv
  <2>4. q = CPU!Past(IF flag THEN AddrOf(k + 2) ELSE AddrOf(k + 1)) /\ rg = reg
    BY <1>3, <1>10, <2>2, <2>3 DEF Does, LoadOps
  <2>5. CASE flag
    <3>1. Midway(k, i, AddrOf(k + 2), rg, reg)
      BY <1>10, <2>5 DEF Midway
    <3>2. /\ CPU!Past(AddrOf(k + 2)) = AddrOf(k + 2)
          /\ Old!Past(Home(AddrOf(k + 2))) = Old!Past(Base + org[k + 2])
          /\ Shown(AddrOf(k + 2), rg, reg) = Plainly(rg)
          /\ Stands(AddrOf(k + 2), rg, reg, S)
      <4>1. Midst(k + 2, rg, reg, S)
        BY <1>0, <1>1, <2>2, <3>1, Between
      <4> QED BY <2>2, <4>1 DEF Midst
    <3>3. org[k + 2] = org[k]
      BY <1>1, <1>7, <1>10 DEF JumpOps
    <3>4. q = AddrOf(k + 2)
      BY <2>4, <2>5, <3>2
    <3> QED BY <1>3, <1>6, <2>4, <3>2, <3>3, <3>4 DEF Follows
  <2>6. CASE ~flag
    <3>1. Midway(k, i, AddrOf(k + 1), rg, reg)
      BY <1>10, <2>6 DEF Midway
    <3>2. /\ CPU!Past(AddrOf(k + 1)) = AddrOf(k + 1)
          /\ Old!Past(Home(AddrOf(k + 1))) = Old!Past(Base + org[k + 1])
          /\ Shown(AddrOf(k + 1), rg, reg) = Plainly(rg)
          /\ Stands(AddrOf(k + 1), rg, reg, S)
      <4>1. Midst(k + 1, rg, reg, S)
        BY <1>0, <1>1, <2>2, <3>1, Between
      <4> QED BY <2>2, <4>1 DEF Midst
    <3>3. org[k + 1] = org[k]
      BY <1>1, <1>7, <1>10 DEF JumpOps
    <3>4. q = AddrOf(k + 1)
      BY <2>4, <2>6, <3>2
    <3> QED BY <1>3, <1>6, <2>4, <3>2, <3>3, <3>4 DEF Follows
  <2> QED BY <2>5, <2>6
\* The others have done their work with the first word.
<1>11. ASSUME w.op \in {"adr", "adrp"} \cup LoadOps, out[k + 1].op = "b",
              q = AddrOf(k + 1), Should(i, next, Plainly(rg))
       PROVE  Follows(q, rg, S)
  <2>1. Midway(k, i, AddrOf(k + 1), rg, reg)
    BY <1>11 DEF Midway
  <2>2. /\ Old!Past(Home(AddrOf(k + 1))) = Old!Past(Base + org[k + 1])
        /\ Shown(AddrOf(k + 1), rg, reg) = Plainly(rg)
        /\ Stands(AddrOf(k + 1), rg, reg, S)
    <3>1. Midst(k + 1, rg, reg, S)
      BY <1>0, <1>1, <1>11, <2>1, Between
    <3> QED BY <1>11, <3>1 DEF Midst
  <2>3. org[k + 1] = i + 1
    BY <1>2, <1>11 DEF JumpOps, LoadOps
  <2>4. Old!Past(Home(q)) = next /\ Shown(q, rg, reg) = Plainly(rg) /\ Stands(q, rg, reg, S)
    BY <1>11, <2>2, <2>3
  <2>5. Should(i, Old!Past(Home(q)), Shown(q, rg, reg))
    BY <1>11, <2>4
  <2> QED BY <1>2, <1>3, <2>4, <2>5 DEF Follows
<1>12. CASE w.op \in {"adr", "adrp"}
  <2> DEFINE b == NamedBy(i)
  <2>1. LoadAt(k, w.rd, b) /\ n = 4
    BY <1>2, <1>12 DEF SequelAt, n
  <2>2. /\ out[k].op = "ldr" /\ out[k].n = 2 /\ out[k].imm = 2 /\ out[k].rd = w.rd /\ out[k + 1].op = "b"
        /\ out[k + 2] = CPU!Address(b)[1] /\ out[k + 2 + 1] = CPU!Address(b)[2]
        /\ k + 2 + 1 <= Len(out)
    <3> HIDE DEF b
    <3>1. k + 2 + 1 = k + 3 /\ k + 2 + 1 <= Len(out)
      BY <1>0, <1>2, <2>1
    <3> QED BY <2>1, <3>1 DEF LoadAt, LdrX, B, CPU!Word
  <2> HIDE DEF b
  <2>3. q = AddrOf(k + 1) /\ rg = CPU!Put(w.rd, CPU!Address(b))
    <3> DEFINE d == 2
    <3>1. /\ d \in {2, 3} /\ out[k].imm = d /\ k + d + 1 <= Len(out)
          /\ out[k + d] = CPU!Address(b)[1] /\ out[k + d + 1] = CPU!Address(b)[2]
      BY <2>2
    <3> HIDE DEF d
    <3>2. q = AddrOf(k + 1) /\ rg = CPU!Put(out[k].rd, CPU!Address(b))
      BY <1>3, <2>2, <3>1, DoesLoad
    <3> QED BY <2>2, <3>2
  <2>4. HomeValue(CPU!Address(b)) = CPU!Address(b)
    <3>1. PICK a \in Int, lo \in 0..3 : b = 4 * a + lo /\ a \notin Row(outBase)
      <4>1. CASE w.op = "adr"
        <5>1. b = 4 * to + w.lo
          BY <1>4, <4>1 DEF b, NamedBy
        <5>2. to \notin Row(outBase)
          BY <1>2, <1>3, <1>4, <4>1, HandledAt
        <5> QED BY <1>5, <5>1, <5>2
      <4>2. CASE w.op = "adrp"
        <5>1. PICK a : a = PageOf(code, i)
          OBVIOUS
        <5>2. b = 4 * a /\ a \notin Row(outBase) /\ a \in Int
          <6>1. PageOf(code, i) \notin Row(outBase)
            BY <1>2, <1>3, <1>4, <4>2, HandledAt
          <6>2. PageOf(code, i) \in Int
            BY <1>2, <1>3, PageInt
          <6> QED BY <4>2, <5>1, <6>1, <6>2 DEF b, NamedBy
        <5>3. b = 4 * a + 0 /\ 0 \in 0..3
          BY <5>2
        <5> QED BY <5>2, <5>3
      <4> QED BY <1>12, <4>1, <4>2
    <3>2. Home(a) = a
      BY <1>3, <3>1, OutRow
    <3>3. HomeValue(CPU!Address(b)) = CPU!Address(4 * Home(a) + lo)
      BY <3>1, <3>2, HomeAddress
    <3> QED BY <3>1, <3>2, <3>3
  <2>5. Plainly(rg) = Given(w.rd, CPU!Address(b))
    BY <1>3, <2>3, <2>4, PutShows
  <2>6. Should(i, next, Plainly(rg))
    BY <1>12, <2>5 DEF Should, b
  <2> QED BY <1>11, <1>12, <2>2, <2>3, <2>6
<1>13. CASE w.op \in LoadOps
  <2>1. /\ n = 2 + Room(w) /\ out[k] = [w EXCEPT !.imm = 2] /\ out[k + 1] = B(1 + Room(w))
        /\ \A j \in 1..Room(w) : out[k + 1 + j] = Memory(to + j - 1)
    BY <1>2, <1>4, <1>13 DEF SequelAt, n
  <2>2. /\ out[k].op = w.op /\ out[k].imm = 2 /\ out[k].n = w.n /\ out[k].rd = w.rd
        /\ out[k + 1].op = "b"
    BY <1>5, <2>1 DEF B, CPU!Word, Fitting, OutWords
  <2>3. Aim(k) = AddrOf(k) + 2
    <3>1. 50 <= CPU!Half(w.op) /\ CPU!Half(w.op) \in Nat
      BY <1>13, WidthsReach, HalfPositive DEF LoadOps
    <3>2. CPU!Signed(2, CPU!Half(w.op)) = 2
      BY <3>1 DEF CPU!Signed
    <3> QED BY <2>2, <3>2 DEF Aim
  <2> DEFINE v == [j \in 1..w.n |-> CPU!Fetch(Aim(k) + j - 1)]
  <2>4. q = AddrOf(k + 1) /\ rg = CPU!Put(w.rd, v)
    <3>1. CPU!Past(AddrOf(k + 1)) = AddrOf(k + 1)
      <4> DEFINE x == k + 1
      <4>1. x \in 1..Len(out) /\ out[x].op # "prfm"
        BY <1>0, <2>2
      <4> HIDE DEF x
      <4>2. CPU!Past(AddrOf(x)) = AddrOf(x)
        BY <1>3, <4>1, InRow
      <4> QED BY <4>2 DEF x
    <3>2. q = CPU!Past(pc + 1) /\ rg = CPU!Put(w.rd, v)
      BY <1>3, <1>13, <2>2 DEF Does, LoadOps
    <3> QED BY <1>3, <3>1, <3>2
  <2>5. ASSUME NEW j \in 1..w.n
        PROVE  CPU!Fetch(Aim(k) + j - 1) = Old!Fetch(to + j - 1) /\ Old!Fetch(to + j - 1).op \in InOps \cup {"mem"}
    <3> DEFINE x == k + 1 + j
               a == to + j - 1
    <3>1. j \in 1..Room(w) /\ j \in Nat /\ Room(w) \in Nat
      BY <1>5, <1>13
    <3>2. x \in 1..Len(out) /\ AddrOf(x) = Aim(k) + j - 1 /\ a \in Int
      <4>1. k + (2 + Room(w)) - 1 <= Len(out) /\ outBase \in Nat /\ Len(out) \in Nat
        BY <1>2, <1>3, <2>1 DEF IInv
      <4> QED BY <1>0, <1>5, <2>3, <3>1, <4>1 DEF AddrOf
    <3>3. out[x] = Memory(a)
      BY <2>1, <3>1
    <3> HIDE DEF x, a
    <3>4. CPU!Fetch(AddrOf(x)) = out[x]
      BY <1>3, <3>2, InRow
    <3>5. Memory(a) = Old!Fetch(a) /\ Old!Fetch(a).op \in InOps \cup {"mem"}
      BY <1>3, <3>2, MemoryIs
    <3> QED BY <3>2, <3>3, <3>4, <3>5 DEF a
  <2>6. v = [j \in 1..w.n |-> Old!Fetch(to + j - 1)]
    BY <2>5
  <2>7. HomeValue(v) = v
    <3>1. 1 \in 1..w.n
      BY <1>5, <1>13
    <3>2. v[1].op # "lo"
      BY <2>5, <3>1 DEF InOps
    <3> HIDE DEF v
    <3> QED BY <3>2 DEF HomeValue
  <2>8. Plainly(rg) = Given(w.rd, [j \in 1..w.n |-> Old!Fetch(to + j - 1)])
    BY <1>3, <2>4, <2>6, <2>7, PutShows
  <2>9. Should(i, next, Plainly(rg))
    BY <1>4, <1>13, <2>8 DEF Should
  <2> QED BY <1>11, <1>13, <2>2, <2>4, <2>9
<1> QED BY <1>2, <1>8, <1>9, <1>10, <1>12, <1>13 DEF Replaceable, JumpOps

LEMMA JumpRuns ==
  ASSUME NEW S, Settled(S), NEW m \in 1..Len(out), pc = AddrOf(m), out[m] = CPU!Word("br", 0, 17, 0, 0),
         NEW to \in Int, to \notin Row(outBase), reg[17] = CPU!Address(4 * to), NEW q, NEW rg, Does(q, rg)
  PROVE  rg = reg /\ Landed(q, Old!Past(to), rg, reg, S) /\ Mreg = Plainly(was)
<1>1. IInv
  BY DEF Settled
<1>2. q = CPU!Past(to) /\ rg = reg
  BY <1>1, DoesJump
<1>3. Landed(to, Old!Past(to), rg, reg, S)
  BY LandsOut
<1>4. q = to
  BY <1>2, <1>3 DEF Landed
<1>5. Mreg = Plainly(was)
  BY <1>1, AtWord DEF CPU!Word
<1> QED BY <1>2, <1>3, <1>4, <1>5

LEMMA ShortRuns ==
  ASSUME NEW S, Settled(S), NEW m \in 1..Len(out), pc = AddrOf(m), NEW n \in 0..9, out[m] = B(n),
         NEW x, x = m + n, NEW j, Leads(x, j, S), NEW q, NEW rg, Does(q, rg)
  PROVE  rg = reg /\ Landed(q, Old!Past(Base + j), rg, reg, S) /\ Mreg = Plainly(rg)
<1>1. IInv
  BY DEF Settled
<1>2. q = CPU!Past(AddrOf(x)) /\ rg = reg
  BY <1>1, DoesShort
<1>3. Landed(AddrOf(x), Old!Past(Base + j), rg, reg, S)
  BY LandsIn
<1>4. q = AddrOf(x)
  BY <1>2, <1>3 DEF Landed
<1>5. Mreg = Plainly(reg)
  BY <1>1, AtWord DEF B, CPU!Word
<1> QED BY <1>2, <1>3, <1>4, <1>5

LEMMA PastInt ==
  ASSUME code \in Windows, NEW j \in 0..Count
  PROVE  Old!Past(Base + j) \in Int
<1>1. Count \in Nat /\ Base \in Nat
  BY WindowFacts, WidthAssumption
<1>2. PICK b \in j..Count : Old!Past(Base + j) = Base + b
  BY PastIsLeast
<1> QED BY <1>1, <1>2

LEMMA MidRuns ==
  ASSUME NEW S, Settled(S), NEW k \in S, FarCore(k, S), NEW i, i = org[k], Midway(k, i, pc, reg, was),
         NEW q, NEW rg, Does(q, rg)
  PROVE  Follows(q, rg, S)
<1> DEFINE w    == code[i + 1]
           n    == Len(Sequel(i))
           next == Old!Past(Base + (i + 1))
<1>1. k \in 1..Len(out) /\ IInv /\ AllHandled /\ Len(out) \in Nat /\ code \in Windows /\ OpAt(i) # "prfm"
  <2>1. IInv /\ AllHandled /\ Len(out) \in Nat /\ code \in Windows
    BY DEF Settled, IInv
  <2>2. k \in 1..Len(out) /\ OpAt(org[k]) # "prfm"
    BY Opening
  <2> QED BY <2>1, <2>2
<1>2. /\ i \in 0..Count - 1 /\ w.op \in Replaceable /\ SequelAt(k, i)
      /\ n \in 3..6 /\ k + n - 1 <= Len(out)
      /\ w.op \in JumpOps => \A x \in 0..n - 1 : org[k + x] = i
      /\ w.op \notin JumpOps => org[k + 1] = i + 1
      /\ Leads(k + n, i + 1, S)
  <2>1. FarIs(k, i, S)
    BY <1>1, FarReads
  <2> QED BY <2>1 DEF FarIs
<1> HIDE DEF n
<1>3. Count \in Nat /\ k \in Nat /\ k + 1 \in 1..Len(out) /\ k + 2 \in 1..Len(out)
  <2>1. Count \in Nat
    BY <1>1, WindowFacts
  <2>2. Len(out) \in Nat /\ k \in 1..Len(out) /\ n \in 3..6 /\ k + n - 1 <= Len(out)
    BY <1>1, <1>2
  <2> HIDE DEF w, next
  <2> QED BY ONLY <2>1, <2>2
<1>4. Old!Past(Base + i) = Base + i
  <2>1. i \in 0..Count
    BY <1>2, <1>3
  <2> QED BY <1>1, <2>1, FetchIs, PastStays
<1>5. PICK to : to = Label(code, i)
  OBVIOUS
<1>6. /\ to \in Int
      /\ w.op \in JumpOps => to \notin Row(outBase)
      /\ w.op \in LoadOps => Room(w) \in {1, 2, 4}
  <2>1. to \in Int /\ (w.op \in JumpOps => to \notin Row(outBase))
    BY <1>1, <1>2, <1>5, HandledAt
  <2>2. w.op \in LoadOps => Room(w) \in {1, 2, 4}
    BY <1>1, <1>2, NamesAre
  <2> QED BY <2>1, <2>2
<1>7. ASSUME w.op \in JumpOps, NEW x \in 0..n - 1, NEW m, m = k + x, pc = AddrOf(m)
      PROVE  m \in 1..Len(out) /\ Mpc = Base + i
  <2>1. m \in 1..Len(out)
    BY <1>1, <1>2, <1>3, <1>7
  <2>2. Mpc = Old!Past(Base + org[m])
    BY <1>1, <1>7, <2>1, AtWord
  <2>3. org[m] = i
    BY <1>2, <1>7
  <2> QED BY <1>4, <2>1, <2>2, <2>3
<1>8. CASE w.op = "b" /\ pc = AddrOf(k + 1) /\ Carries(to, reg, was)
  <2>1. PICK m : m = k + 1
    OBVIOUS
  <2>2. out[m] = CPU!Word("br", 0, 17, 0, 0) /\ n = 4
    BY <1>2, <1>5, <1>8, <2>1 DEF SequelAt, JumpAt, n
  <2>3. m \in 1..Len(out) /\ Mpc = Base + i
    <3>1. 1 \in 0..n - 1
      BY <2>2
    <3> QED BY <1>7, <1>8, <2>1, <3>1 DEF JumpOps
  <2>4. rg = reg /\ Landed(q, Old!Past(to), rg, reg, S) /\ Mreg = Plainly(was)
    BY <1>6, <1>8, <2>1, <2>2, <2>3, JumpRuns DEF Carries, JumpOps
  <2>5. Plainly(rg) = Mreg
    BY <1>8, <2>4 DEF Carries, Plainly
  <2>6. Should(i, Old!Past(to), Plainly(rg))
    BY <1>5, <1>8, <2>5 DEF Should
  <2> QED BY <1>2, <2>3, <2>4, <2>6, Does1
<1>9. CASE w.op = "bl" /\ pc = AddrOf(k + 1) /\ reg[17] = CPU!Address(4 * to)
  <2>1. PICK m : m = k + 1
    OBVIOUS
  <2>2. /\ out[m] = CPU!Word("adr", 4, 30, 0, 0) /\ out[k + 2] = CPU!Word("br", 0, 17, 0, 0) /\ n = 5
    BY <1>2, <1>5, <1>9, <2>1 DEF SequelAt, CallAt, n
  <2>3. m \in 1..Len(out) /\ Mpc = Base + i
    <3>1. 1 \in 0..n - 1
      BY <2>2
    <3> QED BY <1>7, <1>9, <2>1, <3>1 DEF JumpOps
  <2>4. CPU!Ins = out[m] /\ CPU!Target = Aim(m) /\ Mreg = Plainly(reg) /\ pc + 1 = AddrOf(m + 1)
    BY <1>1, <1>9, <2>1, <2>2, <2>3, AtWord DEF CPU!Word
  <2>5. Aim(m) = AddrOf(k + 5)
    <3>1. CPU!Half("adr") \in Nat /\ 50 <= CPU!Half("adr")
      BY WidthsReach, HalfPositive
    <3>2. CPU!Signed(4, CPU!Half("adr")) = 4
      BY <3>1 DEF CPU!Signed
    <3>3. Aim(m) = AddrOf(m) + 4
      BY <2>2, <3>2 DEF Aim, CPU!Word
    <3> QED BY <1>1, <1>3, <2>1, <3>3 DEF AddrOf, IInv
  <2>6. Midst(k + 2, rg, reg, S) /\ q = AddrOf(k + 2) /\ Shown(AddrOf(k + 2), rg, reg) = Plainly(reg)
    <3>1. CPU!Named = 4 * AddrOf(k + 5)
      <4>1. CPU!Named = 4 * AddrOf(k + 5) + 0
        BY <2>2, <2>4, <2>5 DEF CPU!Named, CPU!Word
      <4>2. AddrOf(k + 5) \in Int
        BY <1>1, <1>3 DEF AddrOf, IInv
      <4> QED BY <4>1, <4>2
    <3>2. q = CPU!Past(pc + 1) /\ rg = CPU!Put(30, CPU!Address(4 * AddrOf(k + 5)))
      BY <2>2, <2>4, <3>1 DEF Does, LoadOps, CPU!Word
    <3>3. \A r \in Regs : rg[r] = IF r = 30 THEN CPU!Address(4 * AddrOf(k + 5)) ELSE reg[r]
      BY <3>2 DEF CPU!Put
    <3>4. Midway(k, i, AddrOf(k + 2), rg, reg)
      <4>1. rg[17] = CPU!Address(4 * to)
        BY <1>9, <3>3, RegsAssumption
      <4>2. \A r \in Regs \ {17} : rg[r] = IF r = 30 THEN CPU!Address(4 * AddrOf(k + 5)) ELSE reg[r]
        BY <3>3
      <4> QED BY <1>5, <1>9, <4>1, <4>2 DEF Midway
    <3>5. Midst(k + 2, rg, reg, S)
      <4>1. out[k + 2].op # "prfm"
        BY <2>2 DEF CPU!Word
      <4> QED BY <1>3, <3>4, <4>1, Between
    <3>6. pc + 1 = AddrOf(k + 2)
      <4>1. m + 1 = k + 2
        BY <1>3, <2>1
      <4> QED BY <2>4, <4>1
    <3> QED BY <2>2, <3>2, <3>5, <3>6 DEF Midst, CPU!Word
  <2>7. org[k + 2] = i
    <3>1. 2 \in 0..n - 1
      BY <2>2
    <3> QED BY <1>2, <1>9, <3>1 DEF JumpOps
  <2> QED BY <1>4, <2>3, <2>4, <2>6, <2>7 DEF Follows, Midst
<1>10. CASE /\ w.op = "bl" /\ pc = AddrOf(k + 2) /\ reg[17] = CPU!Address(4 * to)
            /\ \A r \in Regs \ {17} : reg[r] = IF r = 30 THEN CPU!Address(4 * AddrOf(k + 5)) ELSE was[r]
  <2>1. PICK m : m = k + 2
    OBVIOUS
  <2>2. out[m] = CPU!Word("br", 0, 17, 0, 0) /\ n = 5
    BY <1>2, <1>5, <1>10, <2>1 DEF SequelAt, CallAt, n
  <2>3. m \in 1..Len(out) /\ Mpc = Base + i
    <3>1. 2 \in 0..n - 1
      BY <2>2
    <3> QED BY <1>7, <1>10, <2>1, <3>1 DEF JumpOps
  <2>4. rg = reg /\ Landed(q, Old!Past(to), rg, reg, S) /\ Mreg = Plainly(was)
    BY <1>6, <1>10, <2>1, <2>2, <2>3, JumpRuns DEF JumpOps
  <2>5. HomeValue(CPU!Address(4 * AddrOf(k + 5))) = CPU!Address(4 * next)
    <3> DEFINE a == AddrOf(k + 5)
    <3>1. a \in Int /\ Home(a) = next
      <4>1. Leads(k + 5, i + 1, S)
        BY <1>2, <2>2
      <4>2. Home(AddrOf(k + 5)) = Old!Past(Base + (i + 1))
        BY <4>1, LandsIn
      <4> QED BY <1>1, <1>3, <4>2 DEF AddrOf, IInv
    <3>2. next \in Int
      <4> DEFINE j == i + 1
      <4>1. j \in 0..Count
        BY <1>2, <1>3
      <4> HIDE DEF j
      <4>2. Old!Past(Base + j) \in Int
        BY <1>1, <4>1, PastInt
      <4> QED BY <4>2 DEF j
    <3> DEFINE lo == 0
               b  == 4 * a
    <3> HIDE DEF a, next
    <3>3. lo \in 0..3 /\ b = 4 * a + lo /\ 4 * next + lo = 4 * next
      BY <3>1, <3>2
    <3> HIDE DEF lo, b
    <3>4. HomeValue(CPU!Address(b)) = CPU!Address(4 * Home(a) + lo)
      BY <3>1, <3>2, <3>3, HomeAddress
    <3> QED BY <3>1, <3>3, <3>4 DEF a, b
  <2>6. Plainly(rg) = Given(30, CPU!Address(4 * next))
    <3>1. \A s \in Regs \ {17} : HomeValue(reg[s]) = IF s = 30 THEN CPU!Address(4 * next) ELSE HomeValue(was[s])
      BY <1>10, <2>5
    <3>2. \A s \in Regs \ {17} : Mreg[s] = HomeValue(was[s])
      BY <2>4 DEF Plainly
    <3> HIDE DEF next
    <3> QED BY <2>4, <3>1, <3>2 DEF Plainly, Given
  <2>7. Should(i, Old!Past(to), Plainly(rg))
    BY <1>5, <1>10, <2>6 DEF Should
  <2> QED BY <1>2, <2>3, <2>4, <2>7, Does1
<1>11. CASE w.op \in {"bc", "tbz"} /\ pc = AddrOf(k + 1) /\ ~flag
  <2>1. PICK m : m = k + 1
    OBVIOUS
  <2>2. out[m] = B(5) /\ n = 6
    BY <1>2, <1>11, <2>1 DEF SequelAt, n
  <2>3. m \in 1..Len(out) /\ Mpc = Base + i
    <3>1. 1 \in 0..n - 1
      BY <2>2
    <3> QED BY <1>7, <1>11, <2>1, <3>1 DEF JumpOps
  <2>4. rg = reg /\ Landed(q, next, rg, reg, S) /\ Mreg = Plainly(rg)
    <3> DEFINE z == 5
               x == k + n
               j == i + 1
    <3>1. z \in 0..9 /\ out[m] = B(z) /\ x = m + z /\ Leads(x, j, S)
      BY <1>2, <1>3, <2>1, <2>2
    <3> HIDE DEF z, x, j
    <3>2. rg = reg /\ Landed(q, Old!Past(Base + j), rg, reg, S) /\ Mreg = Plainly(rg)
      BY <1>11, <2>1, <2>3, <3>1, ShortRuns
    <3> QED BY <3>2 DEF j
  <2>5. Should(i, next, Plainly(rg))
    BY <1>11, <2>4 DEF Should
  <2> QED BY <1>2, <2>3, <2>4, <2>5, Does1
<1>12. CASE w.op \in {"bc", "tbz"} /\ pc = AddrOf(k + 2) /\ flag
  <2>1. PICK m \in Nat : m = k + 2
    BY <1>3
  <2>2. JumpAt(m, to) /\ n = 6
    BY <1>2, <1>5, <1>12, <2>1 DEF SequelAt, n
  <2>3. m \in 1..Len(out) /\ Mpc = Base + i /\ m + 2 + 1 <= Len(out) /\ m + 1 \in 1..Len(out)
    <3>1. 2 \in 0..n - 1
      BY <2>2
    <3>2. m \in 1..Len(out) /\ Mpc = Base + i
      BY <1>7, <1>12, <2>1, <3>1 DEF JumpOps
    <3> QED BY <1>1, <1>2, <1>3, <2>1, <2>2, <3>2
  <2>4. q = AddrOf(m + 1) /\ rg = CPU!Put(17, CPU!Address(4 * to))
    <3> DEFINE d == 2
               b == 4 * to
    <3>1. /\ d \in {2, 3} /\ out[m].imm = d /\ m + d + 1 <= Len(out)
          /\ out[m + d] = CPU!Address(b)[1] /\ out[m + d + 1] = CPU!Address(b)[2]
      <4>1. m + 2 + 1 = m + 3
        OBVIOUS
      <4> QED BY <2>2, <2>3, <4>1 DEF JumpAt, LdrX, CPU!Word
    <3>2. out[m].op = "ldr" /\ out[m].n = 2 /\ out[m].rd = 17 /\ out[m + 1].op # "prfm" /\ pc = AddrOf(m)
      BY <1>12, <2>1, <2>2 DEF JumpAt, LdrX, CPU!Word
    <3> HIDE DEF d, b
    <3>3. q = AddrOf(m + 1) /\ rg = CPU!Put(out[m].rd, CPU!Address(b))
      BY <1>1, <2>3, <3>1, <3>2, DoesLoad
    <3> QED BY <3>2, <3>3 DEF b
  <2>5. Carries(to, rg, reg) /\ Plainly(rg) = Plainly(reg)
    BY <2>4, Carried
  <2>6. Midst(m + 1, rg, reg, S)
    <3>1. m + 1 = k + 3
      BY <1>3, <2>1
    <3>2. Midway(k, i, AddrOf(k + 3), rg, reg)
      BY <1>5, <1>12, <2>5 DEF Midway
    <3>3. out[m + 1].op # "prfm"
      BY <2>2 DEF JumpAt, CPU!Word
    <3> QED BY <2>3, <3>1, <3>2, <3>3, Between
  <2>7. out[m + 1].op = "br" /\ Mreg = Plainly(reg)
    <3>1. out[m].op # "br" /\ pc = AddrOf(m)
      BY <1>12, <2>1, <2>2 DEF JumpAt, LdrX, CPU!Word
    <3>2. Mreg = Plainly(reg)
      BY <1>1, <2>3, <3>1, AtWord
    <3> QED BY <2>2, <3>2 DEF JumpAt, CPU!Word
  <2>8. org[m + 1] = i
    <3>1. 3 \in 0..n - 1 /\ m + 1 = k + 3
      BY <1>3, <2>1, <2>2
    <3> QED BY <1>2, <1>12, <3>1 DEF JumpOps
  <2> QED BY <1>4, <2>3, <2>4, <2>6, <2>7, <2>8 DEF Follows, Midst
<1>13. CASE w.op \in {"bc", "tbz"} /\ pc = AddrOf(k + 3) /\ flag /\ Carries(to, reg, was)
  <2>1. PICK m : m = k + 3
    OBVIOUS
  <2>2. out[m] = CPU!Word("br", 0, 17, 0, 0) /\ n = 6
    <3>1. JumpAt(k + 2, to) /\ n = 6
      BY <1>2, <1>5, <1>13 DEF SequelAt, n
    <3>2. k + 2 + 1 = m
      BY <1>3, <2>1
    <3> QED BY <3>1, <3>2 DEF JumpAt
  <2>3. m \in 1..Len(out) /\ Mpc = Base + i
    <3>1. 3 \in 0..n - 1
      BY <2>2
    <3> QED BY <1>7, <1>13, <2>1, <3>1 DEF JumpOps
  <2>4. rg = reg /\ Landed(q, Old!Past(to), rg, reg, S) /\ Mreg = Plainly(was)
    BY <1>6, <1>13, <2>1, <2>2, <2>3, JumpRuns DEF Carries, JumpOps
  <2>5. Plainly(rg) = Mreg
    BY <1>13, <2>4 DEF Carries, Plainly
  <2>6. Should(i, Old!Past(to), Plainly(rg))
    BY <1>5, <1>13, <2>5 DEF Should
  <2> QED BY <1>2, <2>3, <2>4, <2>6, Does1
<1>14. CASE w.op \in {"adr", "adrp"} \cup LoadOps /\ pc = AddrOf(k + 1)
  <2>1. PICK m : m = k + 1
    OBVIOUS
  <2>2. PICK z \in 0..9 : out[m] = B(z) /\ n = z + 1
    <3>1. CASE w.op \in {"adr", "adrp"}
      <4>1. out[m] = B(3) /\ n = 4
        BY <1>2, <2>1, <3>1 DEF SequelAt, LoadAt, n
      <4>2. 3 \in 0..9 /\ n = 3 + 1
        BY <4>1
      <4> QED BY <4>1, <4>2
    <3>2. CASE w.op \in LoadOps
      <4> DEFINE z == 1 + Room(w)
      <4>1. out[m] = B(z) /\ n = 2 + Room(w)
        BY <1>2, <2>1, <3>2 DEF SequelAt, n
      <4>2. z \in 0..9 /\ n = z + 1
        BY <1>6, <3>2, <4>1
      <4> HIDE DEF z
      <4> QED BY <4>1, <4>2
    <3> QED BY <1>14, <3>1, <3>2
  <2>3. rg = reg /\ Landed(q, next, rg, reg, S) /\ Mreg = Plainly(rg)
    <3> DEFINE x == k + n
               j == i + 1
    <3>1. x = m + z /\ Leads(x, j, S)
      BY <1>2, <1>3, <2>1, <2>2
    <3> HIDE DEF x, j
    <3>2. rg = reg /\ Landed(q, Old!Past(Base + j), rg, reg, S) /\ Mreg = Plainly(rg)
      BY <1>3, <1>14, <2>1, <2>2, <3>1, ShortRuns
    <3> QED BY <3>2 DEF j
  <2>4. Mpc = next
    <3>1. Mpc = Old!Past(Base + org[m])
      BY <1>1, <1>3, <1>14, <2>1, AtWord
    <3>2. org[m] = i + 1
      BY <1>2, <1>14, <2>1 DEF JumpOps, LoadOps
    <3> QED BY <3>1, <3>2
  <2> QED BY <2>3, <2>4, Stays
<1> QED BY <1>5, <1>8, <1>9, <1>10, <1>11, <1>12, <1>13, <1>14 DEF Midway

LEMMA BackRuns ==
  ASSUME NEW S, Settled(S), NEW k \in S, k \in 1..Len(out), BackCore(k, S), pc = AddrOf(k),
         NEW q, NEW rg, Does(q, rg)
  PROVE  Follows(q, rg, S)
<1>1. /\ IInv /\ AllHandled /\ Len(out) \in Nat /\ org[k] = Count /\ Count \in Nat /\ code \in Windows
      /\ CPU!Ins = out[k] /\ CPU!Target = Aim(k) /\ Mpc = Old!Past(Base + org[k])
  BY AtWord, WindowFacts DEF Settled, BackCore, IInv
<1>2. Mreg = Plainly(reg)
  BY <1>1, Opening, AtWord
<1>3. Callback = Base + Count /\ Callback \in Int /\ Callback \notin Row(outBase)
  <2>1. Base + Count \in Base..Base + Len(code) /\ Base \in Nat
    BY <1>1, WidthAssumption DEF Count
  <2> QED BY <1>1, <2>1 DEF Callback, AllHandled, Handled
<1>4. Landed(Callback, Mpc, reg, reg, S)
  <2>1. Landed(Callback, Old!Past(Callback), reg, reg, S)
    BY <1>3, LandsOut
  <2> QED BY <1>1, <1>3, <2>1
<1>5. CASE out[k].op = "b" /\ Aim(k) = Callback
  <2>1. q = Callback /\ rg = reg
    BY <1>1, <1>4, <1>5 DEF Does, LoadOps, Landed
  <2> QED BY <1>2, <1>4, <2>1, Stays
<1>6. CASE Holds(k, FarJump(Callback), 4, S)
  <2>1. PICK to : to = Callback
    OBVIOUS
  <2>2. JumpAt(k, to) /\ k + 3 <= Len(out) /\ org[k + 1] = Count
    BY <1>1, <1>6, <2>1, BackReads
  <2>3. /\ out[k].op = "ldr" /\ out[k].n = 2 /\ out[k].rd = 17 /\ out[k + 1].op = "br"
        /\ out[k].imm = 2 /\ out[k + 2] = CPU!Address(4 * to)[1] /\ out[k + 2 + 1] = CPU!Address(4 * to)[2]
        /\ k + 2 + 1 <= Len(out) /\ k + 1 \in 1..Len(out)
    <3>1. k + 2 + 1 = k + 3 /\ k + 2 + 1 <= Len(out) /\ k + 1 \in 1..Len(out)
      BY <1>1, <2>2
    <3> QED BY <2>2, <3>1 DEF JumpAt, LdrX, CPU!Word
  <2>4. q = AddrOf(k + 1) /\ rg = CPU!Put(17, CPU!Address(4 * to))
    <3> DEFINE d == 2
               b == 4 * to
    <3>1. /\ d \in {2, 3} /\ out[k].imm = d /\ k + d + 1 <= Len(out)
          /\ out[k + d] = CPU!Address(b)[1] /\ out[k + d + 1] = CPU!Address(b)[2]
      BY <2>3
    <3> HIDE DEF d, b
    <3>2. out[k].op = "ldr" /\ out[k].n = 2 /\ out[k + 1].op # "prfm" /\ IInv
      BY <1>1, <2>3
    <3>3. q = AddrOf(k + 1) /\ rg = CPU!Put(out[k].rd, CPU!Address(b))
      BY <3>1, <3>2, DoesLoad
    <3> QED BY <2>3, <3>3 DEF b
  <2>5. Carries(to, rg, reg) /\ Plainly(rg) = Plainly(reg)
    BY <2>4, Carried
  <2>6. Leaving(k, AddrOf(k + 1), rg, reg, S)
    BY <1>1, <1>6, <2>1, <2>5 DEF Leaving
  <2>7. PICK m : m = k + 1
    OBVIOUS
  <2>8. /\ CPU!Inside(AddrOf(m)) /\ CPU!Fetch(AddrOf(m)) = out[m] /\ Home(AddrOf(m)) = Base + org[m]
    BY <1>1, <2>3, <2>7, InRow
  <2>9. Shown(AddrOf(m), rg, reg) = Plainly(reg)
    BY <2>3, <2>7, <2>8 DEF Shown
  <2>10. Stands(AddrOf(m), rg, reg, S)
    BY <2>6, <2>7 DEF Stands
  <2>11. Old!Past(Home(AddrOf(m))) = Mpc
    BY <1>1, <2>2, <2>7, <2>8
  <2> QED BY <1>2, <2>4, <2>7, <2>9, <2>10, <2>11 DEF Follows
<1> QED BY <1>5, <1>6 DEF BackCore

LEMMA LeavingRuns ==
  ASSUME NEW S, Settled(S), NEW k \in S, Leaving(k, pc, reg, was, S), NEW q, NEW rg, Does(q, rg)
  PROVE  Follows(q, rg, S)
<1>1. k \in 1..Len(out) /\ IInv /\ AllHandled /\ Len(out) \in Nat /\ Count \in Nat
  <2>1. IInv /\ AllHandled /\ Len(out) \in Nat /\ code \in Windows
    BY DEF Settled, IInv
  <2>2. k \in 1..Len(out)
    BY Opening
  <2> QED BY <2>1, <2>2, WindowFacts DEF Count
<1>2. /\ org[k] = Count /\ Holds(k, FarJump(Callback), 4, S)
      /\ pc = AddrOf(k + 1) /\ Carries(Callback, reg, was)
  BY DEF Leaving
<1>3. PICK to : to = Callback
  OBVIOUS
<1>4. JumpAt(k, to) /\ k + 3 <= Len(out) /\ org[k + 1] = Count /\ to \in Int
  BY <1>1, <1>2, <1>3, BackReads
<1>5. PICK m : m = k + 1
  OBVIOUS
<1>6. m \in 1..Len(out) /\ pc = AddrOf(m) /\ out[m] = CPU!Word("br", 0, 17, 0, 0) /\ org[m] = Count
  BY <1>1, <1>2, <1>4, <1>5 DEF JumpAt
<1>7. to \notin Row(outBase) /\ to = Base + Count
  <2>1. Base + Count \in Base..Base + Len(code) /\ Base \in Nat
    BY <1>1, WidthAssumption DEF Count
  <2> QED BY <1>1, <1>3, <2>1 DEF Callback, AllHandled, Handled
<1>8. rg = reg /\ Landed(q, Old!Past(to), rg, reg, S) /\ Mreg = Plainly(was)
  BY <1>2, <1>3, <1>4, <1>6, <1>7, JumpRuns DEF Carries
<1>9. Plainly(rg) = Mreg
  BY <1>2, <1>8 DEF Carries, Plainly
<1>10. Mpc = Old!Past(to)
  BY <1>1, <1>6, <1>7, AtWord
<1> QED BY <1>8, <1>9, <1>10, Stays

\* Wherever the processor stands, the original follows its next step.
LEMMA StepFollows ==
  ASSUME NEW S, Settled(S), Stands(pc, reg, was, S), NEW q, NEW rg, Does(q, rg)
  PROVE  Follows(q, rg, S)
<1>1. CPU!Inside(pc)
  BY DEF Does
<1>2. ASSUME NEW m \in S, pc = AddrOf(m) PROVE Follows(q, rg, S)
  <2>1. m \in 1..Len(out) /\ Opens(m, S)
    BY Opening
  <2> QED BY <1>2, <2>1, PadRuns, NearRuns, FarStarts, BackRuns DEF Opens
<1>3. ASSUME NEW k \in S, FarCore(k, S), Midway(k, org[k], pc, reg, was) PROVE Follows(q, rg, S)
  <2>1. PICK i : i = org[k]
    OBVIOUS
  <2> QED BY <1>3, <2>1, MidRuns
<1>4. ASSUME NEW k \in S, Leaving(k, pc, reg, was, S) PROVE Follows(q, rg, S)
  BY <1>4, LeavingRuns
<1> QED BY <1>1, <1>2, <1>3, <1>4 DEF Stands

-----------------------------------------------------------------------------
(* What stays while the trampoline runs.                                   *)
LEMMA Frozen ==
  ASSUME UNCHANGED <<code, fixing, outBase, flag>>
  PROVE  /\ \A p : (CPU!Inside(p)' <=> CPU!Inside(p)) /\ CPU!Fetch(p)' = CPU!Fetch(p) /\ Home(p)' = Home(p)
         /\ \A a : Old!Past(a)' = Old!Past(a)
         /\ \A m, j, S : Leads(m, j, S)' <=> Leads(m, j, S)
         /\ \A k, S : FarCore(k, S)' <=> FarCore(k, S)
         /\ \A k, S : Opens(k, S)' <=> Opens(k, S)
         /\ \A k, S : (org[k] = Count /\ Holds(k, FarJump(Callback), 4, S))'
                        <=> org[k] = Count /\ Holds(k, FarJump(Callback), 4, S)
<1>1. code' = code /\ in' = in /\ out' = out /\ org' = org /\ dat' = dat /\ fmap' = fmap
      /\ outBase' = outBase /\ flag' = flag /\ Count' = Count
  BY DEF fixing, Count
<1>2. \A a : Old!Past(a)' = Old!Past(a)
  BY <1>1 DEF Old!Past, Old!Fetch, Old!Inside, Old!Word
<1>3. \A p : (CPU!Inside(p)' <=> CPU!Inside(p)) /\ CPU!Fetch(p)' = CPU!Fetch(p) /\ Home(p)' = Home(p)
  BY <1>1 DEF CPU!Inside, CPU!Fetch, CPU!Word, Home
<1>4. \A m, j, S : Leads(m, j, S)' <=> Leads(m, j, S)
  BY <1>1, <1>2 DEF Leads, Same, Index
<1>5. \A i : /\ Sequel(i)' = Sequel(i) /\ DueOf(i)' = DueOf(i) /\ Label(code, i)' = Label(code, i)
             /\ \A a : InWindow(a)' <=> InWindow(a)
  BY <1>1, SequelStays
<1>6. \A k, ws, due, S : Holds(k, ws, due, S)' <=> Holds(k, ws, due, S)
  BY <1>1 DEF Holds
<1>7. \A k, S : FarCore(k, S)' <=> FarCore(k, S)
  <2> SUFFICES ASSUME NEW k, NEW S PROVE FarCore(k, S)' <=> FarCore(k, S)
    OBVIOUS
  <2>1. PICK i : i = org[k]
    OBVIOUS
  <2>2. org'[k] = i
    BY <1>1, <2>1
  <2> DEFINE n == Len(Sequel(i))
  <2>3. \A v, d : v = Sequel(i) /\ d = DueOf(i) => (Holds(k, v, d, S)' <=> Holds(k, v, d, S))
    BY <1>6
  <2>4. \A m, j : m = k + n /\ j = i + 1 => (Leads(m, j, S)' <=> Leads(m, j, S))
    BY <1>4
  <2>5. Holds(k, Sequel(i), DueOf(i), S)' <=> Holds(k, Sequel(i), DueOf(i), S)
    BY <1>5, <2>3
  <2>6. Leads(k + n, i + 1, S)' <=> Leads(k + n, i + 1, S)
    BY <1>5, <2>4
  <2>9. Lies(k, LiteralAt(i), LiteralSize(i))' <=> Lies(k, LiteralAt(i), LiteralSize(i))
    BY <1>1 DEF Lies, LiteralAt, LiteralSize, AddrOf
  <2>7. FarCore(k, S) <=> /\ i < Count /\ code[i + 1].op \in Replaceable
                          /\ Holds(k, Sequel(i), DueOf(i), S) /\ Leads(k + n, i + 1, S)
                          /\ Lies(k, LiteralAt(i), LiteralSize(i))
    BY <2>1 DEF FarCore
  <2>8. FarCore(k, S)' <=> /\ i < Count /\ code[i + 1].op \in Replaceable
                           /\ Holds(k, Sequel(i), DueOf(i), S)' /\ Leads(k + n, i + 1, S)'
                           /\ Lies(k, LiteralAt(i), LiteralSize(i))'
    BY <1>1, <2>2 DEF FarCore, Lies, LiteralAt, LiteralSize
  <2> QED BY <2>5, <2>6, <2>7, <2>8, <2>9
<1>8. \A k, S : Holds(k, FarJump(Callback), 4, S)' <=> Holds(k, FarJump(Callback), 4, S)
  <2> SUFFICES ASSUME NEW k, NEW S PROVE Holds(k, FarJump(Callback), 4, S)' <=> Holds(k, FarJump(Callback), 4, S)
    OBVIOUS
  <2>1. PICK v : v = FarJump(Callback)
    OBVIOUS
  <2>2. FarJump(Callback)' = v
    BY <1>1, <2>1 DEF FarJump, Callback
  <2>3. Holds(k, v, 4, S)' <=> Holds(k, v, 4, S)
    BY <1>6
  <2> QED BY <2>1, <2>2, <2>3
<1>9. \A k, S : BackCore(k, S)' <=> BackCore(k, S)
  BY <1>1, <1>8 DEF BackCore, Aim, AddrOf, Callback, Lies
<1>10. \A k, S : PadCore(k, S)' <=> PadCore(k, S)
  BY <1>1 DEF PadCore
<1>11. \A k, S : NearCore(k, S)' <=> NearCore(k, S)
  <2> SUFFICES ASSUME NEW k, NEW S PROVE NearCore(k, S)' <=> NearCore(k, S)
    OBVIOUS
  <2>1. PICK i : i = org[k]
    OBVIOUS
  <2>2. org'[k] = i
    BY <1>1, <2>1
  <2>3. PICK to : to = Label(code, i)
    OBVIOUS
  <2>4. PICK a : a = Aim(k)
    OBVIOUS
  <2>5. Aim(k)' = a /\ Label(code, i)' = to
    BY <1>1, <1>5, <2>3, <2>4 DEF Aim, AddrOf
  <2>6. Reaches(a, to, S)' <=> Reaches(a, to, S)
    BY <1>1, <1>4, <1>5 DEF Reaches
  <2>7. Awaits(k, to)' <=> Awaits(k, to)
    BY <1>1 DEF Awaits
  <2>8. Targeted(k, i, S)' <=> Targeted(k, i, S)
    BY <1>5, <2>3, <2>4, <2>5, <2>6, <2>7 DEF Targeted
  <2>9. NearWord(k, i, S)' <=> NearWord(k, i, S)
    BY <1>1, <1>5, <2>3, <2>4, <2>5, <2>8 DEF NearWord
  <2>10. \A m, j : m = k + 1 /\ j = i + 1 => (Leads(m, j, S)' <=> Leads(m, j, S))
    BY <1>4
  <2>11. Leads(k + 1, i + 1, S)' <=> Leads(k + 1, i + 1, S)
    BY <2>10
  <2> QED BY <1>1, <2>1, <2>2, <2>9, <2>11 DEF NearCore
<1>12. \A k, S : Opens(k, S)' <=> Opens(k, S)
  BY <1>7, <1>9, <1>10, <1>11 DEF Opens
<1> QED BY <1>1, <1>2, <1>3, <1>4, <1>7, <1>8, <1>12

-----------------------------------------------------------------------------
(* The relocation implements the original.                                 *)
Blank  == [r \in Regs |-> << >>]
Blank0 == [r \in Regs \ {17} |-> << >>]

\* Before the trampoline is used the processor waits where the function starts.
RunInv(S) ==
  IF in <= Count THEN pc = Base /\ reg = Blank /\ was = Blank ELSE Stands(pc, reg, was, S)
MInv == IInv /\ AllHandled /\ \E S : ShapeInv(S) /\ RunInv(S)

LEMMA PlainlyBlank == Plainly(Blank) = Blank0
BY DEF Plainly, Blank, Blank0, HomeValue

AtBase  == AllHandled /\ IInv /\ pc = Base /\ reg = Blank /\ was = Blank
AtStart == AllHandled /\ IInv /\ in = Count + 1 /\ pc = outBase /\ reg = Blank /\ was = Blank
Fresh   == Mpc = Old!Past(Base) /\ Mreg = Blank0

LEMMA BaseIsFresh == AtBase => Fresh
<1> SUFFICES ASSUME AtBase PROVE Fresh
  OBVIOUS
<1>1. IInv /\ Base \in Int /\ Base \notin Row(outBase) /\ pc = Base
  <2>1. Len(code) \in Nat /\ Base \in Nat
    BY WindowFacts, WidthAssumption DEF AtBase, IInv, Count
  <2>2. Base \in Base..Base + Len(code)
    BY <2>1
  <2> QED BY <2>1, <2>2 DEF AtBase, AllHandled, Handled
<1>2. ~CPU!Inside(Base) /\ Home(Base) = Base
  BY <1>1, OutRow
<1>3. Mreg = Plainly(reg)
  BY <1>1, <1>2, MregIs DEF Shown
<1>4. Mreg = Blank0
  BY <1>3, PlainlyBlank DEF AtBase
<1> QED BY <1>1, <1>2, <1>4 DEF Fresh, Mpc

LEMMA StartIsFresh == AtStart => \A S : ShapeInv(S) => Fresh /\ Stands(pc, reg, was, S)
<1> SUFFICES ASSUME AtStart, NEW S, ShapeInv(S) PROVE Fresh /\ Stands(pc, reg, was, S)
  OBVIOUS
<1>1. Settled(S) /\ Leads(1, 0, S)
  BY DEF Settled, AtStart, ShapeInv
<1>2. AddrOf(1) = pc /\ Base + 0 = Base
  BY WidthAssumption DEF AddrOf, AtStart, IInv
<1>3. Landed(AddrOf(1), Old!Past(Base + 0), reg, was, S)
  BY <1>1, LandsIn
<1>4. Landed(pc, Old!Past(Base), reg, was, S)
  BY <1>2, <1>3
<1>5. Mpc = Old!Past(Base) /\ Mreg = Plainly(reg) /\ Stands(pc, reg, was, S)
  BY <1>4, MregIs DEF Landed, Mpc
<1>6. Mreg = Blank0
  BY <1>5, PlainlyBlank DEF AtStart
<1> QED BY <1>5, <1>6 DEF Fresh

LEMMA FreshNext == (AtBase' => Fresh') /\ (AtStart' => (\A S : ShapeInv(S) => Fresh /\ Stands(pc, reg, was, S))')
BY BaseIsFresh, StartIsFresh, PTL

LEMMA CodeStays ==
  ASSUME [Next]_vars
  PROVE  UNCHANGED <<code, outBase, flag>>
<1>1. CASE Fix
  BY <1>1 DEF Fix, FixBranch, FixCond, FixPrefetch, FixLiteral, FixAdr, FixAdrp, FixPlain, Near, Move
<1>2. CASE Return
  BY <1>2 DEF Return
<1>3. CASE Run
  BY <1>3, RunDoes
<1>4. CASE UNCHANGED vars
  BY <1>4 DEF vars
<1> QED BY <1>1, <1>2, <1>3, <1>4 DEF Next

LEMMA FixIs ==
  ASSUME Fix
  PROVE  in < Count /\ in' = in + 1 /\ UNCHANGED <<code, pc, reg, was>>
BY DEF Fix, FixBranch, FixCond, FixPrefetch, FixLiteral, FixAdr, FixAdrp, FixPlain, Near, Move, Fixing

Implemented == [Original!Next]_(Original!cpu)

LEMMA Idle ==
  ASSUME UNCHANGED <<code, flag>>, Mpc' = Mpc, Mreg' = Mreg
  PROVE  Implemented
BY DEF Implemented, Original!cpu, Mpc, Mreg

\* While the fixers work, the processor is at the start.
LEMMA FixImplements ==
  ASSUME MInv, Fix
  PROVE  MInv' /\ Implemented
<1>1. IInv /\ AllHandled /\ Count \in Nat /\ in \in Nat
  BY WindowFacts DEF MInv, IInv
<1>2. PICK S : ShapeInv(S) /\ RunInv(S)
  BY DEF MInv
<1>3. /\ in < Count /\ in' = in + 1 /\ UNCHANGED <<code, outBase, flag, pc, reg, was>>
      /\ Count' = Count
  BY FixIs, CodeStays DEF Next, Count
<1>4. pc = Base /\ reg = Blank /\ was = Blank
  BY <1>1, <1>2, <1>3 DEF RunInv
<1>5. IInv' /\ AllHandled'
  BY <1>1, <1>3, StepIInv DEF Next, AllHandled
<1>6. PICK T : ShapeInv(T)'
  BY <1>1, <1>2, FixKeepsShape DEF ShapedNext
<1>7. AtBase /\ AtBase'
  BY <1>1, <1>3, <1>4, <1>5 DEF AtBase, Blank
<1>8. Fresh /\ Fresh'
  BY <1>7, BaseIsFresh, FreshNext
<1>9. Mpc' = Mpc /\ Mreg' = Mreg
  BY <1>3, <1>8 DEF Fresh, Blank0, Old!Past, Old!Fetch, Old!Inside
<1>10. RunInv(T)'
  BY <1>1, <1>3, <1>4 DEF RunInv, Blank
<1> QED BY <1>3, <1>5, <1>6, <1>9, <1>10, Idle DEF MInv

LEMMA ReturnImplements ==
  ASSUME MInv, Return
  PROVE  MInv' /\ Implemented
<1>1. IInv /\ AllHandled /\ Count \in Nat /\ in \in Nat
  BY WindowFacts DEF MInv, IInv
<1>2. PICK S : ShapeInv(S) /\ RunInv(S)
  BY DEF MInv
<1>3. /\ in = Count /\ in' = in + 1 /\ pc' = outBase /\ UNCHANGED <<code, outBase, flag, reg, was>>
      /\ Count' = Count
  BY DEF Return, Count
<1>4. pc = Base /\ reg = Blank /\ was = Blank
  BY <1>1, <1>2, <1>3 DEF RunInv
<1>5. IInv' /\ AllHandled'
  BY <1>1, <1>3, StepIInv DEF Next, AllHandled
<1>6. PICK T : ShapeInv(T)'
  BY <1>1, <1>2, FixKeepsShape DEF ShapedNext
<1>7. AtBase /\ AtStart'
  BY <1>1, <1>3, <1>4, <1>5 DEF AtBase, AtStart, Blank
<1>8. Fresh /\ Fresh' /\ Stands(pc, reg, was, T)'
  BY <1>6, <1>7, BaseIsFresh, FreshNext
<1>9. Mpc' = Mpc /\ Mreg' = Mreg
  BY <1>3, <1>8 DEF Fresh, Blank0, Old!Past, Old!Fetch, Old!Inside
<1>10. RunInv(T)'
  BY <1>1, <1>3, <1>8 DEF RunInv
<1> QED BY <1>3, <1>5, <1>6, <1>9, <1>10, Idle DEF MInv
LEMMA MregNext == Mreg' = Shown(pc, reg, was)'
BY DEF Mreg, Shown, Plainly, Seen, CPU!Ins

\* What stands, stands while the trampoline runs, and shows the same.
LEMMA StandsStays ==
  ASSUME UNCHANGED <<code, fixing, outBase, flag>>, NEW S,
         NEW p, p = pc', NEW rg, rg = reg', NEW ws, ws = was'
  PROVE  /\ Stands(p, rg, ws, S) => Stands(pc, reg, was, S)'
         /\ Mpc' = Old!Past(Home(p)) /\ Mreg' = Shown(p, rg, ws)
<1>1. code' = code /\ org' = org /\ out' = out /\ outBase' = outBase /\ flag' = flag /\ Count' = Count
  BY DEF fixing, Count
<1>2. /\ (CPU!Inside(p)' <=> CPU!Inside(p)) /\ CPU!Fetch(p)' = CPU!Fetch(p)
      /\ \A q : Home(q)' = Home(q)
      /\ \A a : Old!Past(a)' = Old!Past(a)
      /\ \A k : FarCore(k, S)' <=> FarCore(k, S)
      /\ \A k : (org[k] = Count /\ Holds(k, FarJump(Callback), 4, S))'
                  <=> org[k] = Count /\ Holds(k, FarJump(Callback), 4, S)
  BY Frozen
<1>3. \A k, i : Midway(k, i, p, rg, ws)' <=> Midway(k, i, p, rg, ws)
  BY <1>1 DEF Midway, Label, AddrOf, Carries
<1>4. \A k : Leaving(k, p, rg, ws, S)' <=> Leaving(k, p, rg, ws, S)
  BY <1>1, <1>2 DEF Leaving, AddrOf, Carries, Callback
<1>5. \A k : Midway(k, org[k], p, rg, ws) => Midway(k, org[k], p, rg, ws)'
  <2> SUFFICES ASSUME NEW k, Midway(k, org[k], p, rg, ws) PROVE Midway(k, org[k], p, rg, ws)'
    OBVIOUS
  <2>1. PICK i : i = org[k]
    OBVIOUS
  <2>2. Midway(k, i, p, rg, ws)' /\ org'[k] = i
    BY <1>1, <1>3, <2>1
  <2> QED BY <2>2 DEF Midway
<1>6. Stands(p, rg, ws, S) => Stands(p, rg, ws, S)'
  BY <1>1, <1>2, <1>4, <1>5 DEF Stands, AddrOf
<1>7. Stands(p, rg, ws, S)' <=> Stands(pc, reg, was, S)'
  BY DEF Stands, Midway, Leaving, Carries
<1>8. \A v : HomeValue(v)' = HomeValue(v)
  BY <1>2 DEF HomeValue, CPU!Address, CPU!Word
<1>9. Plainly(rg)' = Plainly(rg) /\ Plainly(ws)' = Plainly(ws)
  BY <1>8 DEF Plainly
<1>10. Shown(p, rg, ws)' = Shown(p, rg, ws)
  BY <1>2, <1>9 DEF Shown
<1>11. Mreg' = Shown(pc, reg, was)'
  BY MregNext
<1>12. Shown(pc, reg, was)' = Shown(p, rg, ws)'
  BY DEF Shown, Plainly
<1>13. Mpc' = Old!Past(Home(p))
  <2>1. PICK a : a = Home(p)
    OBVIOUS
  <2>2. Home(p)' = a /\ Old!Past(a)' = Old!Past(a)
    BY <1>2, <2>1
  <2> QED BY <2>1, <2>2 DEF Mpc
<1> QED BY <1>6, <1>7, <1>10, <1>11, <1>12, <1>13

LEMMA ShapeStays ==
  ASSUME UNCHANGED <<code, fixing, outBase, flag>>, NEW S, ShapeInv(S)
  PROVE  ShapeInv(S)'
<1>1. code' = code /\ in' = in /\ org' = org /\ out' = out /\ dat' = dat /\ fmap' = fmap /\ outBase' = outBase /\ Count' = Count
  BY DEF fixing, Count
<1>2. \A f : Waiting(f, S)' <=> Waiting(f, S)
  BY <1>1 DEF Waiting, Label
<1>3. /\ \A m, j : Leads(m, j, S)' <=> Leads(m, j, S)
      /\ \A k : Opens(k, S)' <=> Opens(k, S)
  BY Frozen
<1>4. \A i : OpAt(i)' = OpAt(i)
  BY <1>1 DEF OpAt
<1>5. S \subseteq 1..Len(out') + 1 /\ ((Len(out') + 1 \in S) <=> in' <= Count') /\ Leads(1, 0, S)'
  BY <1>1, <1>3 DEF ShapeInv
<1>6. ASSUME NEW k \in S, k <= Len(out') PROVE Opens(k, S)' /\ OpAt(org[k])' # "prfm"
  <2>1. PICK i : i = org[k]
    OBVIOUS
  <2>2. Opens(k, S) /\ OpAt(i) # "prfm" /\ OpAt(i)' = OpAt(i) /\ org'[k] = i
    BY <1>1, <1>4, <1>6, <2>1 DEF ShapeInv
  <2> QED BY <1>3, <2>2 DEF OpAt
<1>7. ASSUME NEW j \in 0..Count' - 1, j < in', code'[j + 1].op # "adrp"
      PROVE Leads(dat[j + 1] - outBase + 1, j, S)'
  <2>1. PICK m : m = dat[j + 1] - outBase + 1
    OBVIOUS
  <2>2. Leads(m, j, S) /\ m = dat'[j + 1] - outBase' + 1
    BY <1>1, <1>7, <2>1 DEF ShapeInv
  <2>3. Leads(m, j, S)'
    BY <1>3, <2>2
  <2> QED BY <2>2, <2>3 DEF Leads, Index, Same
<1>8. \A f \in fmap' : Waiting(f, S)'
  BY <1>1, <1>2 DEF ShapeInv
<1> QED BY <1>5, <1>6, <1>7, <1>8 DEF ShapeInv

LEMMA RunImplements ==
  ASSUME MInv, Run
  PROVE  MInv' /\ Implemented
<1>1. /\ in = Count + 1 /\ Does(pc', reg') /\ was' = reg
      /\ UNCHANGED <<code, fixing, outBase, flag>>
  BY RunDoes
<1>2. code \in Windows /\ IInv /\ AllHandled /\ Count \in Nat
  BY WindowFacts DEF MInv, IInv
<1>3. PICK S : ShapeInv(S) /\ RunInv(S)
  BY DEF MInv
<1>4. Settled(S) /\ Stands(pc, reg, was, S)
  BY <1>1, <1>2, <1>3 DEF Settled, RunInv
<1>5. PICK q : q = pc'
  OBVIOUS
<1>6. PICK rg : rg = reg'
  OBVIOUS
<1>7. PICK ws : ws = reg
  OBVIOUS
<1>8. Does(q, rg)
  BY <1>1, <1>5, <1>6
<1>9. Follows(q, rg, S)
  BY <1>4, <1>8, StepFollows
<1>10. /\ Stands(q, rg, ws, S) => Stands(pc, reg, was, S)'
       /\ Mpc' = Old!Past(Home(q)) /\ Mreg' = Shown(q, rg, ws)
  BY <1>1, <1>5, <1>6, <1>7, StandsStays
<1>11. Stands(pc, reg, was, S)'
  BY <1>7, <1>9, <1>10 DEF Follows
<1>12. IInv' /\ AllHandled' /\ ShapeInv(S)'
  BY <1>1, <1>2, <1>4, RunKeeps, ShapeStays DEF AllHandled, Settled
<1>13. MInv'
  <2>1. ~(in' <= Count')
    BY <1>1, <1>2 DEF fixing, Count
  <2> QED BY <1>11, <1>12, <2>1 DEF MInv, RunInv
<1>14. Implemented
  <2>1. CASE Old!Past(Home(q)) = Mpc /\ Shown(q, rg, reg) = Mreg
    BY <1>1, <1>7, <1>10, <2>1, Idle
  <2>2. CASE \E i \in 0..Count - 1 : Mpc = Base + i /\ Should(i, Old!Past(Home(q)), Shown(q, rg, reg))
    <3>1. PICK i \in 0..Count - 1 : Mpc = Base + i /\ Should(i, Mpc', Mreg')
      BY <1>7, <1>10, <2>2
    <3>2. Original!Next
      BY <1>1, <1>2, <3>1, OriginalSteps
    <3> QED BY <3>2 DEF Implemented
  <2> QED BY <1>9, <2>1, <2>2 DEF Follows
<1> QED BY <1>13, <1>14

LEMMA StillImplements ==
  ASSUME MInv, UNCHANGED vars
  PROVE  MInv' /\ Implemented
<1>1. UNCHANGED <<code, outBase, in, out, org, dat, fmap, pc, reg, flag, was>>
  BY DEF vars, fixing
<1>2. Mpc' = Mpc /\ Mreg' = Mreg
  BY <1>1 DEF Mpc, Mreg, Old!Past, Old!Fetch, Old!Inside, Old!Word, Home, HomeValue, Seen, CPU!Inside, CPU!Ins, CPU!Fetch
<1>3. MInv'
  <2>1. PICK S : ShapeInv(S) /\ RunInv(S)
    BY DEF MInv
  <2>2. ShapeInv(S)'
    BY <1>1, <2>1, ShapeStays DEF fixing
  <2>3. PICK p : p = pc'
    OBVIOUS
  <2>4. PICK rg : rg = reg'
    OBVIOUS
  <2>5. PICK ws : ws = was'
    OBVIOUS
  <2>6. Stands(p, rg, ws, S) => Stands(pc, reg, was, S)'
    BY <1>1, <2>3, <2>4, <2>5, StandsStays DEF fixing
  <2>7. RunInv(S)'
    BY <1>1, <2>1, <2>3, <2>4, <2>5, <2>6 DEF RunInv, Blank, Count
  <2>8. IInv' /\ AllHandled'
    BY <1>1, StepIInv DEF MInv, AllHandled
  <2> QED BY <2>2, <2>7, <2>8 DEF MInv
<1> QED BY <1>1, <1>2, <1>3, Idle

LEMMA StepImplements ==
  ASSUME MInv, [Next]_vars
  PROVE  MInv' /\ Implemented
BY FixImplements, ReturnImplements, RunImplements, StillImplements DEF Next

LEMMA InitImplements ==
  ASSUME \A w \in Windows : \A b \in OutBases(w) : Handled(w, b), Init
  PROVE  MInv /\ Original!Init
<1>1. IInv /\ AllHandled
  BY InitIInv DEF AllHandled, Init
<1>2. ShapeInv({1})
  BY InitShape
<1>3. in <= Count /\ pc = Base /\ reg = Blank /\ was = Blank /\ flag \in BOOLEAN
  BY <1>1, WindowFacts DEF Init, Blank, IInv
<1>4. RunInv({1})
  BY <1>3 DEF RunInv
<1>5. Fresh
  BY <1>1, <1>3, BaseIsFresh DEF AtBase
<1>6. Original!Init
  BY <1>3, <1>5, OriginalSame DEF Original!Init, Fresh, Blank0, Mpc, Mreg
<1> QED BY <1>1, <1>2, <1>4, <1>6 DEF MInv

\* What hook_impl.cpp moves does what it did: from the first instruction of the
\* trampoline on, each step of the processor is a step of the processor on the
\* function's own code or none at all, in every register but X17, for any window
\* that the fixers take over rightly.  It is KeepsMeaning without its fairness.
THEOREM MeaningIsKept ==
  ASSUME \A w \in Windows : \A b \in OutBases(w) : Handled(w, b)
  PROVE  Spec => Original!Init /\ [][Original!Next]_(Original!cpu)
<1>1. Init => MInv /\ Original!Init
  BY InitImplements
<1>2. MInv /\ [Next]_vars => MInv' /\ [Original!Next]_(Original!cpu)
  BY StepImplements DEF Implemented
<1> QED BY <1>1, <1>2, PTL DEF Spec

-----------------------------------------------------------------------------
(* What a load reads from the trampoline is aligned.                       *)
Aligned == CPU!Target % CPU!Ins.n = 0

LEMMA LevelLoad ==
  ASSUME IInv, NEW m \in 1..Len(out), pc = AddrOf(m), out[m].op \in {"ldr", "ldrv", "ldrsw"},
         out[m].imm \in {2, 3}, NEW k \in Nat, NEW off \in Nat, m + out[m].imm = k + off,
         NEW n, out[m].n = n, Lies(k, off, n)
  PROVE  Aligned
<1>1. CPU!Ins = out[m] /\ CPU!Target = Aim(m)
  BY AtWord
<1>2. CPU!Signed(out[m].imm, CPU!Half(out[m].op)) = out[m].imm
  BY WidthsReach, HalfPositive DEF CPU!Signed
<1>3. Aim(m) = AddrOf(k) + off
  <2>1. outBase \in Nat /\ m \in Nat /\ out[m].imm \in Nat
    BY DEF IInv
  <2> QED BY <1>2, <2>1, SMTT(30) DEF Aim, AddrOf
<1> QED BY <1>1, <1>3 DEF Lies, Aligned

\* Where a sequence starts.
LEMMA FarLevel ==
  ASSUME NEW S, Settled(S), NEW k \in S, FarCore(k, S), pc = AddrOf(k), CPU!Ins.op \in {"ldr", "ldrv"}
  PROVE  Aligned
<1>1. k \in 1..Len(out) /\ IInv /\ Len(out) \in Nat
  BY Opening DEF Settled, IInv
<1>2. PICK i : i = org[k]
  OBVIOUS
<1> DEFINE w == code[i + 1]
<1>3. i \in 0..Count - 1 /\ w.op \in Replaceable /\ SequelAt(k, i) /\ Lies(k, LiteralAt(i), LiteralSize(i))
  BY <1>1, <1>2, FarReads DEF FarIs, FarCore
<1>4. CPU!Ins = out[k] /\ k \in Nat /\ 2 \in Nat /\ 3 \in Nat
  BY <1>1, AtWord
<1>5. CASE w.op \in {"b", "adr", "adrp"}
  <2>1. out[k].op = "ldr" /\ out[k].imm = 2 /\ out[k].n = 2
    BY <1>3, <1>5 DEF SequelAt, JumpAt, LoadAt, LdrX, CPU!Word
  <2>2. Lies(k, 2, 2)
    BY <1>3, <1>5 DEF LiteralAt, LiteralSize, LoadOps
  <2> QED BY <1>1, <1>4, <2>1, <2>2, LevelLoad
<1>6. CASE w.op = "bl"
  <2>1. out[k].op = "ldr" /\ out[k].imm = 3 /\ out[k].n = 2
    BY <1>3, <1>6 DEF SequelAt, CallAt, LdrX, CPU!Word
  <2>2. Lies(k, 3, 2)
    BY <1>3, <1>6 DEF LiteralAt, LiteralSize, LoadOps
  <2> QED BY <1>1, <1>4, <2>1, <2>2, LevelLoad
<1>7. CASE w.op \in {"bc", "tbz"} \cup LoadOps
  <2>1. out[k] = [w EXCEPT !.imm = 2]
    BY <1>3, <1>7 DEF SequelAt
  <2>2. w \in Fitting
    BY <1>1, <1>3, NamesAre DEF IInv
  <2>3. out[k].op = w.op /\ out[k].imm = 2 /\ out[k].n = w.n
    BY <2>1, <2>2 DEF Fitting, OutWords
  <2>4. w.op \in LoadOps /\ Lies(k, 2, w.n)
    BY <1>3, <1>4, <1>7, <2>3 DEF LiteralAt, LiteralSize, LoadOps
  <2> QED BY <1>1, <1>4, <2>3, <2>4, LevelLoad DEF LoadOps
<1> QED BY <1>3, <1>5, <1>6, <1>7 DEF Replaceable, JumpOps

\* In the middle of one, only a branch on a condition has a load.
LEMMA MidLevel ==
  ASSUME NEW S, Settled(S), NEW k \in S, FarCore(k, S), Midway(k, org[k], pc, reg, was),
         CPU!Ins.op \in {"ldr", "ldrv"}
  PROVE  Aligned
<1>1. k \in 1..Len(out) /\ IInv /\ Len(out) \in Nat /\ k \in Nat /\ 4 \in Nat
  BY Opening DEF Settled, IInv
<1>2. PICK i : i = org[k]
  OBVIOUS
<1> DEFINE w == code[i + 1]
           n == Len(Sequel(i))
<1>3. /\ SequelAt(k, i) /\ Lies(k, LiteralAt(i), LiteralSize(i)) /\ Midway(k, i, pc, reg, was)
      /\ n \in 3..6 /\ k + n - 1 <= Len(out)
  BY <1>1, <1>2, FarReads DEF FarIs, FarCore
<1>4. /\ w.op \in JumpOps => out[k + 1].op \notin {"ldr", "ldrv"}
      /\ w.op = "bl" => out[k + 2].op = "br"
      /\ w.op \in {"bc", "tbz"} => n = 6 /\ out[k + 2] = LdrX(17, 2) /\ out[k + 2 + 1].op = "br"
      /\ w.op \in {"adr", "adrp"} \cup LoadOps => out[k + 1].op = "b"
  BY <1>3 DEF SequelAt, JumpAt, CallAt, LoadAt, LdrX, B, CPU!Word, JumpOps, LoadOps
<1> HIDE DEF n
<1>5. k + 1 \in 1..Len(out) /\ k + 2 \in 1..Len(out) /\ k + 2 + 1 = k + 3
  BY <1>1, <1>3
<1>6. CASE w.op \in {"bc", "tbz"} /\ pc = AddrOf(k + 2)
  <2>1. PICK m \in 1..Len(out) : m = k + 2
    BY <1>5
  <2>2. out[m].op = "ldr" /\ out[m].imm = 2 /\ out[m].n = 2 /\ pc = AddrOf(m) /\ m + 2 = k + 4
    BY <1>1, <1>4, <1>6, <2>1 DEF LdrX, CPU!Word
  <2>3. Lies(k, 4, 2)
    BY <1>3, <1>6 DEF LiteralAt, LiteralSize, LoadOps
  <2> QED BY <1>1, <2>2, <2>3, LevelLoad
<1>7. ASSUME NEW m \in 1..Len(out), pc = AddrOf(m) PROVE CPU!Ins = out[m]
  BY <1>1, <1>7, AtWord
<1>8. pc # AddrOf(k + 1)
  <2> SUFFICES ASSUME pc = AddrOf(k + 1) PROVE FALSE
    OBVIOUS
  <2>1. CPU!Ins = out[k + 1]
    BY <1>5, <1>7
  <2>2. w.op \in {"adr", "adrp"} \cup LoadOps \cup JumpOps
    BY <1>1, <1>2, FarReads DEF FarIs, Replaceable
  <2> QED BY <1>4, <2>1, <2>2
<1>9. ~(w.op = "bl" /\ pc = AddrOf(k + 2))
  BY <1>4, <1>5, <1>7
<1>10. ~(w.op \in {"bc", "tbz"} /\ pc = AddrOf(k + 3))
  <2>1. w.op \in {"bc", "tbz"} => k + 3 \in 1..Len(out) /\ out[k + 3].op = "br"
    BY <1>1, <1>3, <1>4, <1>5
  <2> QED BY <1>7, <2>1
<1> QED BY <1>3, <1>6, <1>8, <1>9, <1>10 DEF Midway

LEMMA StandsLevel ==
  ASSUME NEW S, Settled(S), Stands(pc, reg, was, S)
  PROVE  LiteralsAligned
<1> SUFFICES ASSUME CPU!Inside(pc), CPU!Ins.op \in {"ldr", "ldrv"}, CPU!Inside(CPU!Target)
             PROVE  Aligned
  BY DEF LiteralsAligned, Aligned
<1>1. IInv /\ AllHandled
  BY DEF Settled
<1>2. ASSUME NEW m \in S, pc = AddrOf(m) PROVE Aligned
  <2>1. m \in 1..Len(out) /\ Opens(m, S) /\ Len(out) \in Nat
    BY Opening DEF Settled, IInv
  <2>2. CPU!Ins = out[m] /\ CPU!Target = Aim(m) /\ m \in Nat /\ 2 \in Nat
    BY <1>1, <1>2, <2>1, AtWord
  <2>3. CASE PadCore(m, S)
    BY <2>2, <2>3 DEF PadCore, Nop, CPU!Word
  <2>4. CASE NearCore(m, S)
    <3>1. PICK i : i = org[m]
      OBVIOUS
    <3>2. PICK to : to = Label(code, i)
      OBVIOUS
    <3>3. code[i + 1].op \in LoadOps /\ Aim(m) = to /\ ~InWindow(to) /\ i < Count
      BY <2>2, <2>4, <3>1, <3>2 DEF NearCore, NearWord, LoadOps
    <3>4. i \in 0..Count - 1
      BY <1>1, <2>1, <3>1, <3>3, WindowFacts DEF IInv
    <3>5. to \in Int /\ \A j \in 0..code[i + 1].n - 1 : to + j \notin Row(outBase)
      BY <1>1, <3>2, <3>3, <3>4, HandledAt
    <3>6. to + 0 \notin Row(outBase)
      <4>1. 0 \in 0..code[i + 1].n - 1
        BY <1>1, <3>3, <3>4, NamesAre DEF IInv
      <4> QED BY <3>5, <4>1
    <3>7. ~CPU!Inside(to)
      BY <1>1, <3>5, <3>6, OutRow
    <3> QED BY <2>2, <3>3, <3>7
  <2>5. CASE FarCore(m, S)
    BY <1>2, <2>5, FarLevel
  <2>6. CASE BackCore(m, S)
    <3>1. Holds(m, FarJump(Callback), 4, S) /\ Lies(m, 2, 2) /\ org[m] = Count
      BY <2>2, <2>6 DEF BackCore
    <3>2. out[m].imm = 2 /\ out[m].n = 2
      BY <2>1, <3>1, BackReads DEF JumpAt, LdrX, CPU!Word
    <3> QED BY <1>1, <1>2, <2>1, <2>2, <3>1, <3>2, LevelLoad
  <2> QED BY <2>1, <2>3, <2>4, <2>5, <2>6 DEF Opens
<1>3. ASSUME NEW k \in S, FarCore(k, S), Midway(k, org[k], pc, reg, was) PROVE Aligned
  BY <1>3, MidLevel
<1>4. ASSUME NEW k \in S, Leaving(k, pc, reg, was, S) PROVE Aligned
  <2>1. k \in 1..Len(out) /\ Len(out) \in Nat
    BY Opening DEF Settled, IInv
  <2>2. JumpAt(k, Callback) /\ k + 3 <= Len(out) /\ pc = AddrOf(k + 1)
    BY <1>4, <2>1, BackReads DEF Leaving
  <2>3. PICK m \in 1..Len(out) : m = k + 1
    BY <2>1, <2>2
  <2>4. CPU!Ins = out[m] /\ out[m].op = "br"
    BY <1>1, <2>2, <2>3, AtWord DEF JumpAt, CPU!Word
  <2> QED BY <2>4
<1> QED BY <1>2, <1>3, <1>4 DEF Stands

LEMMA MInvLevel == MInv => LiteralsAligned
<1> SUFFICES ASSUME MInv PROVE LiteralsAligned
  OBVIOUS
<1>1. PICK S : ShapeInv(S) /\ RunInv(S)
  BY DEF MInv
<1>2. IInv /\ AllHandled /\ Count \in Nat /\ in \in 0..Count + 1
  BY WindowFacts DEF MInv, IInv
<1>3. CASE in <= Count
  <2>1. pc = Base
    BY <1>1, <1>3 DEF RunInv
  <2>2. Base \in Int /\ Base \notin Row(outBase)
    <3>1. Len(code) \in Nat /\ Base \in Nat
      BY <1>2, WidthAssumption DEF Count
    <3>2. Base \in Base..Base + Len(code)
      BY <3>1
    <3> QED BY <1>2, <3>1, <3>2 DEF AllHandled, Handled
  <2> QED BY <1>2, <2>1, <2>2, OutRow DEF LiteralsAligned
<1>4. CASE ~(in <= Count)
  <2>1. in = Count + 1
    BY <1>2, <1>4
  <2> QED BY <1>1, <1>2, <1>4, <2>1, StandsLevel DEF RunInv, Settled
<1> QED BY <1>3, <1>4

\* The NOPs of __fix_branch_imm, __fix_loadlit and __fix_pcreladdr align what they
\* are there to align: whatever literal the processor loads from the trampoline,
\* an address for a branch or data of the function, lies at a multiple of its size.
THEOREM LiteralsAreAligned ==
  ASSUME \A w \in Windows : \A b \in OutBases(w) : Handled(w, b)
  PROVE  Spec => []LiteralsAligned
<1>1. Init => MInv
  BY InitImplements
<1>2. MInv /\ [Next]_vars => MInv'
  BY StepImplements
<1> QED BY <1>1, <1>2, MInvLevel, PTL DEF Spec

=============================================================================
