------------------------------ MODULE Patchers ------------------------------
(***************************************************************************)
(* The patchers of lib/patch and lib/replace: code written through the     *)
(* writable alias of the program's own text, and what an instruction fetch *)
(* at the text's own address then sees.                                    *)
(*                                                                         *)
(* A store lands in the data cache; a fetch is answered by the instruction *)
(* cache, which is filled from memory and does not look at the data cache. *)
(* The processor writes a line of data back, and fills a line of           *)
(* instructions, whenever it likes.  A patcher keeps the range it has      *)
(* written and flushes it, line by line (nx/arm/cache.s), when it moves on *)
(* or goes away.  Addresses are words of the range the alias covers, from  *)
(* the start of the module to the end of its constants; the alias has the  *)
(* same lines.                                                             *)
(*                                                                         *)
(* One patcher is at work at a time.  Faulty variants next to definitions  *)
(* are for TLC only.                                                       *)
(***************************************************************************)
EXTENDS Encoders

CONSTANTS
  Size,       \* words the alias covers
  DLine,      \* words of a data cache line
  ILine,      \* words of an instruction cache line
  Palettes,   \* sets of instructions: a run asks for those of one of them
  Data,       \* words written by other means than WriteInst
  Assembly,   \* the words of PATCH_DEFINE_ASM's assembly
  MaxWrites   \* bound on the writes of a run

ASSUME LineAssumption ==
  /\ DLine \in Nat \ {0} /\ ILine \in Nat \ {0} /\ Size \in Nat \ {0}
  /\ Assembly \in Seq(SUBSET Nat) /\ MaxWrites \in Nat

VARIABLES
  palette,   \* the instructions of this run
  data,      \* what loads read and stores write
  memory,    \* what has been written back
  icache,    \* the lines the instruction cache holds
  patcher,   \* the patcher at work, and its m_Start and m_Current, or m_Lowest and m_Highest
  flush,     \* the flush it is in
  asm,       \* AddrRef and OrigData of the assembly patch
  outcome,   \* "fault" when a store went to the read-only text
  writes,    \* how many writes were made
  asked      \* history: the instruction each word was asked to be

caches == <<data, memory, icache>>
vars   == <<palette, caches, patcher, flush, asm, outcome, writes, asked>>

Words       == 0..Size-1
Original(w) == {100 + w}     \* no encoding has such a bit
UIntPtrMax  == -1
NoPatcher   == [kind |-> "none", low |-> 0, high |-> 0]
NoFlush     == [phase |-> "none", at |-> 0, low |-> 0, high |-> 0, next |-> NoPatcher]
NotAsked    == <<>>
Absent      == <<>>

DataLine(a) == {w \in Words : w \div DLine = a \div DLine}
CodeLine(a) == {w \in Words : w \div ILine = a \div ILine}

Init ==
  /\ palette \in Palettes
  /\ data = [w \in Words |-> Original(w)] /\ memory = data
  /\ icache = [l \in {w \in Words : w % ILine = 0} |-> Absent]
  /\ patcher = NoPatcher /\ flush = NoFlush
  /\ asm = [addr |-> 0, orig |-> <<>>]
  /\ outcome = "none" /\ writes = 0 /\ asked = [w \in Words |-> NotAsked]

-----------------------------------------------------------------------------
(* The processor.                                                          *)

WriteBack ==
  /\ \E l \in Words : memory' = [w \in Words |-> IF w \in DataLine(l) THEN data[w] ELSE memory[w]]
  /\ UNCHANGED <<palette, data, icache, patcher, flush, asm, outcome, writes, asked>>

Fill ==
  /\ \E l \in DOMAIN icache : icache' = [icache EXCEPT ![l] = [w \in CodeLine(l) |-> memory[w]]]
  /\ UNCHANGED <<palette, data, memory, patcher, flush, asm, outcome, writes, asked>>

-----------------------------------------------------------------------------
(* armDCacheFlush and armICacheInvalidate: a line, then the next one while *)
(* that starts below the end.                                              *)

LineStartUnrounded(a, line) == a
LineStart(a, line) == a - (a % line)

Flushing(low, high, next) ==
  flush' = [phase |-> "dc", at |-> LineStart(low, DLine), low |-> low, high |-> high, next |-> next]

CleanLine ==
  /\ flush.phase = "dc"
  /\ memory' = [w \in Words |-> IF w \in DataLine(flush.at) THEN data[w] ELSE memory[w]]
  /\ flush' = IF flush.at + DLine < flush.high
              THEN [flush EXCEPT !.at = @ + DLine]
              ELSE [flush EXCEPT !.phase = "ic", !.at = LineStart(flush.low, ILine)]
  /\ UNCHANGED <<palette, data, icache, patcher, asm, outcome, writes, asked>>

InvalidateLine ==
  /\ flush.phase = "ic"
  /\ icache' = [l \in DOMAIN icache |-> IF flush.at \in CodeLine(l) THEN Absent ELSE icache[l]]
  /\ IF flush.at + ILine < flush.high
     THEN flush' = [flush EXCEPT !.at = @ + ILine] /\ UNCHANGED patcher
     ELSE flush' = NoFlush /\ patcher' = flush.next
  /\ UNCHANGED <<palette, data, memory, asm, outcome, writes, asked>>

-----------------------------------------------------------------------------
(* The patchers.                                                           *)

AtWork(kind) == patcher.kind = kind /\ flush.phase = "none" /\ outcome = "none"

Open ==
  /\ AtWork("none") /\ writes < MaxWrites
  /\ \/ \E a \in Words : patcher' = [kind |-> "stream", low |-> a, high |-> a]
     \/ patcher' = [kind |-> "random", low |-> UIntPtrMax, high |-> UIntPtrMax]
  /\ UNCHANGED <<palette, caches, flush, asm, outcome, writes, asked>>

Store(w, v, i) ==
  /\ w \in Words /\ writes < MaxWrites
  /\ data' = [data EXCEPT ![w] = v]
  /\ asked' = [asked EXCEPT ![w] = i]
  /\ writes' = writes + 1
  /\ UNCHANGED <<palette, memory, icache, flush, asm, outcome>>

(* StreamPatcher::Write, with an instruction or with other data; branches  *)
(* are asked for by the word they go to.                                   *)
RelativeAddressFromStart(address) == 4 * (address - patcher.low)
RelativeAddressFromBase(address)  == 4 * (address - patcher.high)
InstAt(i) == IF i[1] \in {"b", "bl"} THEN <<i[1], RelativeAddressFromBase(i[2])>> ELSE i

StreamWrite(v, i) ==
  /\ AtWork("stream")
  /\ Store(patcher.high, v, i)
  /\ patcher' = [patcher EXCEPT !.high = @ + 1]

WriteInst == \E i \in palette : StreamWrite(Encoding(InstAt(i)), i)
WriteData == \E v \in Data : StreamWrite(v, NotAsked)

(* StreamPatcher::Flush, before the patcher becomes what comes next.       *)
FlushThen(next) ==
  IF patcher.low = patcher.high
  THEN patcher' = next /\ UNCHANGED flush
  ELSE Flushing(patcher.low, patcher.high, next) /\ UNCHANGED patcher

Seek ==
  /\ AtWork("stream")
  /\ \E a \in Words : a # patcher.high /\ FlushThen([kind |-> "stream", low |-> a, high |-> a])
  /\ UNCHANGED <<palette, caches, asm, outcome, writes, asked>>

CloseStream ==
  /\ AtWork("stream") /\ FlushThen(NoPatcher)
  /\ UNCHANGED <<palette, caches, asm, outcome, writes, asked>>

(* RandomAccessPatcher: the bounds of what it has written, each unset as   *)
(* long as one of them is.                                                 *)
IsUnset(p)          == p.low = UIntPtrMax \/ p.high = UIntPtrMax
SetLowest(p, a)     == IF IsUnset(p) \/ a < p.low THEN [p EXCEPT !.low = a] ELSE p
SetHighestLast(p, a) == [p EXCEPT !.high = a]
SetHighest(p, a)    == IF IsUnset(p) \/ a > p.high THEN [p EXCEPT !.high = a] ELSE p

RandomWrite ==
  /\ AtWork("random")
  /\ \E a \in Words, v \in Data :
       /\ patcher' = SetHighest(SetLowest(patcher, a), a + 1)
       /\ Store(a, v, NotAsked)

RandomFlush(next) ==
  /\ AtWork("random")
  /\ IF IsUnset(patcher)
     THEN patcher' = next /\ UNCHANGED flush
     ELSE Flushing(patcher.low, patcher.high, next) /\ UNCHANGED patcher
  /\ UNCHANGED <<palette, caches, asm, outcome, writes, asked>>

FlushRandom == RandomFlush(patcher)
CloseRandom == RandomFlush(NoPatcher)

(* PATCH_DEFINE_ASM: installing a second time first copies the original    *)
(* words back, to the text itself, which is not writable.  ReplaceData     *)
(* writes through an alias of its own, whose destructor flushes it.        *)
Installs(t) == {t + k : k \in 0..Len(Assembly)-1}
KeptLate(t) == Assembly
Kept(t)     == [k \in 1..Len(Assembly) |-> data[t + k - 1]]

Install ==
  /\ AtWork("none") /\ asm.addr = 0 /\ writes < MaxWrites
  /\ \E t \in Words \ {0} :
       /\ Installs(t) \subseteq Words
       /\ asm' = [addr |-> t, orig |-> Kept(t)]
       /\ data' = [w \in Words |-> IF w \in Installs(t) THEN Assembly[w - t + 1] ELSE data[w]]
       /\ asked' = [w \in Words |-> IF w \in Installs(t) THEN NotAsked ELSE asked[w]]
       /\ Flushing(t, t + Len(Assembly), NoPatcher)
  /\ writes' = writes + 1
  /\ UNCHANGED <<palette, memory, icache, patcher, outcome>>

Reinstall ==
  /\ AtWork("none") /\ asm.addr # 0
  /\ outcome' = "fault"
  /\ UNCHANGED <<palette, caches, patcher, flush, asm, writes, asked>>

Next ==
  \/ WriteBack \/ Fill \/ CleanLine \/ InvalidateLine
  \/ Open \/ WriteInst \/ WriteData \/ Seek \/ CloseStream
  \/ RandomWrite \/ FlushRandom \/ CloseRandom
  \/ Install \/ Reinstall

Spec == Init /\ [][Next]_vars

-----------------------------------------------------------------------------
TypeOK ==
  /\ patcher.kind \in {"none", "stream", "random"}
  /\ flush.phase \in {"none", "dc", "ic"} /\ flush.at \in Words
  /\ writes \in 0..MaxWrites /\ outcome \in {"none", "fault"}

(* What a patcher has written and flushed is what every fetch sees, from   *)
(* memory or from a line of the instruction cache, whatever the caches did *)
(* in between: only the range a patcher still holds may be seen as it was. *)
Pending(w) ==
  \/ patcher.kind # "none" /\ patcher.low <= w /\ w < patcher.high
  \/ flush.phase # "none" /\ flush.low <= w /\ w < flush.high

FlushedIsFetched ==
  \A w \in Words : ~Pending(w) =>
    /\ memory[w] = data[w]
    /\ \A l \in DOMAIN icache : w \in DOMAIN icache[l] => icache[l][w] = data[w]

(* An adrp to what is behind comes out without the sign of its distance    *)
(* (adrp.hpp:12), and goes 4 GB ahead of where it was to go: SignBit is    *)
(* what the word lacks.                                                    *)
SignBit == 23
LosesSign(i) == i[1] = "adrp" /\ i[3] < 0
Meant(word, i) == IF LosesSign(i) THEN word \cup {SignBit} ELSE word

(* A word that CodePatcher was asked to make an instruction is that        *)
(* instruction, with its operands; a branch goes where it was asked to     *)
(* from where it stands.  Only an adrp that goes back lacks its sign.      *)
Here(i, w) == IF i[1] \in {"b", "bl"} THEN <<i[1], 4 * (i[2] - w)>> ELSE i

WrittenAsAsked ==
  \A w \in Words : asked[w] # NotAsked =>
    LET i == Here(asked[w], w) IN IsInstruction(Meant(data[w], i), i)

(* The original words of a patch that is in force are kept, also when      *)
(* installing it again ends the program; and nothing else does.            *)
OriginalKept ==
  /\ asm.addr # 0 => Len(asm.orig) = Len(Assembly) /\ \A k \in DOMAIN asm.orig : asm.orig[k] # Assembly[k]
  /\ outcome = "fault" => asm.addr # 0

PatchInv == TypeOK /\ OriginalKept

(* What the theorems about these two assume.  Each encoder makes the       *)
(* instruction it is asked for, wherever that stands, but for that sign;   *)
(* the words of the assembly can be told from all others.                  *)
EncodersAreRight ==
  \A i \in UNION Palettes, w \in Words :
    IsInstruction(Meant(Encoding(Here(i, w)), Here(i, w)), Here(i, w))

AssemblyIsNew ==
  \A k \in DOMAIN Assembly :
    /\ Assembly[k] \notin Data
    /\ \A w \in Words : Assembly[k] # Original(w)
    /\ \A i \in UNION Palettes, w \in Words : Assembly[k] # Encoding(Here(i, w))
=============================================================================
