-------------------------------- MODULE A64 ---------------------------------
(***************************************************************************)
(* The processor, as far as lib/hook/nx64/hook_impl.cpp counts on it: what *)
(* each class of instruction that names an address relative to its own     *)
(* does.  The processor runs the words of text, which start at base, until *)
(* it leaves them.  It is external to the repository; hook_impl.cpp names  *)
(* the classes in its opcode constants.                                    *)
(*                                                                         *)
(* Addresses count words of four bytes; an address in a register counts    *)
(* bytes.  The width of a field is half the number of its values, so that  *)
(* a field of 26 bits has H26 = 2^25.  A word is a record: op, the field   *)
(* imm, the register rd, the two low bits lo of adr, and the number n of   *)
(* words that a load reads.                                                *)
(***************************************************************************)
EXTENDS Integers, Sequences

CONSTANTS
  H26, H21, H19, H14,  \* half the values of a field of 26, 21, 19, 14 bits
  PageWords,           \* words of a page of adrp
  Regs                 \* the registers looked at

VARIABLES
  text,   \* the words the processor runs
  base,   \* the address of the first of them
  pc, reg,
  flag    \* what a condition, a test or a comparison gives

cpu == <<text, base, pc, reg, flag>>

Half(op) ==
  CASE op \in {"b", "bl"} -> H26
    [] op = "adrp"        -> H21
    [] op = "tbz"         -> H14
    [] OTHER              -> H19

\* What a field f means: a number in two's complement.
Signed(f, h) == IF f >= h THEN f - 2 * h ELSE f

Word(op, imm, rd, lo, n) == [op |-> op, imm |-> imm, rd |-> rd, lo |-> lo, n |-> n]

\* An address of eight bytes, as two words.
Address(b) == <<Word("lo", b, 0, 0, 0), Word("hi", b, 0, 0, 0)>>

Inside(a) == a - base \in 0..Len(text)-1
Fetch(a)  == IF Inside(a) THEN text[a - base + 1] ELSE Word("mem", a, 0, 0, 0)

\* A prefetch only warms a cache: the processor passes over it, and to return
\* to one is to return behind it.
Past(a) ==
  IF Fetch(a).op # "prfm" THEN a
  ELSE CHOOSE b \in a..base + Len(text) :
         Fetch(b).op # "prfm" /\ \A c \in a..b-1 : Fetch(c).op = "prfm"

Ins    == Fetch(pc)
Target == pc + Signed(Ins.imm, Half(Ins.op))
Put(r, v) == [s \in Regs |-> IF s = r THEN v ELSE reg[s]]

Running(ops) == Inside(pc) /\ Ins.op \in ops /\ UNCHANGED <<text, base, flag>>

Straight == Running({"plain", "nop"}) /\ pc' = Past(pc + 1) /\ UNCHANGED reg

Branch == Running({"b"}) /\ pc' = Past(Target) /\ UNCHANGED reg

BranchLink == Running({"bl"}) /\ pc' = Past(Target) /\ reg' = Put(30, Address(4 * Past(pc + 1)))

Conditional ==
  /\ Running({"bc", "tbz"})
  /\ pc' = Past(IF flag THEN Target ELSE pc + 1)
  /\ UNCHANGED reg

Load ==
  /\ Running({"ldr", "ldrv", "ldrsw"})
  /\ reg' = Put(Ins.rd, [k \in 1..Ins.n |-> Fetch(Target + k - 1)])
  /\ pc' = Past(pc + 1)

\* What adr and adrp put into their register.
Named ==
  IF Ins.op = "adr"
  THEN 4 * Target + Ins.lo
  ELSE 4 * (pc - (pc % PageWords) + PageWords * Signed(Ins.imm, H21))

NameAddress ==
  /\ Running({"adr", "adrp"})
  /\ reg' = Put(Ins.rd, Address(Named))
  /\ pc' = Past(pc + 1)

BranchRegister ==
  /\ Running({"br"})
  /\ pc' = Past(reg[Ins.rd][1].imm \div 4)
  /\ UNCHANGED reg

Init ==
  /\ pc = Past(base)
  /\ reg = [r \in Regs |-> << >>]
  /\ flag \in BOOLEAN

Next ==
  \/ Straight \/ Branch \/ BranchLink \/ Conditional
  \/ Load \/ NameAddress \/ BranchRegister

Spec == Init /\ [][Next]_cpu /\ WF_cpu(Next)

=============================================================================
