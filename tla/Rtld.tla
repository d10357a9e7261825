-------------------------------- MODULE Rtld --------------------------------
(***************************************************************************)
(* The dynamic linker, lib/reloc: each module's dynamic section is read    *)
(* (ModuleObject::Initialize), its words are moved to where it was loaded  *)
(* (Relocate), and the symbols it asks for are looked up in the modules of *)
(* the load list (ResolveSymbols), or, for a call through the procedure    *)
(* linkage table of a module linked lazily, by the call itself             *)
(* (__rtld_runtime_resolve, __rtld_lazy_bind_symbol).  Built as the        *)
(* entrypoint of the process, the program moves itself (exl_dynamic).      *)
(*                                                                         *)
(* Addresses are counted in words, so that a slot is one address.  Names   *)
(* are compared and never hashed: a module has one bucket, whose chain is  *)
(* the order of its symbols.  The entries of a table ask for words of      *)
(* their own.  Faulty variants next to definitions are for TLC only.       *)
(***************************************************************************)
EXTENDS Integers, Sequences, FiniteSets, Functions, SequencesExt

CONSTANTS
  Programs,  \* [modules, manual]: a load list from its back, and what
             \* g_LookupGlobalManualFunctionPointer knows, name -> address
  Callers    \* the threads that call through the linkage tables

(* A module: [base, dynamic, symbols, chain, table, plt, words].           *)

VARIABLES
  program,  \* the modules as they were loaded
  lazy,     \* do_lazy_got_init
  stage,    \* how far each module is
  object,   \* its ModuleObject
  word,     \* the words of memory that relocations reach, by address
  call,     \* what each thread is doing
  asserted  \* whether an assertion has failed

link == <<program, lazy, stage, object, word, call, asserted>>

Modules  == DOMAIN program.modules
Image(m) == program.modules[m]
Base(m)  == Image(m).base

RelSize == 2    \* sizeof(Elf_Rel), in words
RelaSize == 3   \* sizeof(Elf_Rela)
SymSize == 3    \* sizeof(Elf_Sym)

Cleared == [isRela |-> FALSE, pltSize |-> 0, got |-> 0, owner |-> 0, stub |-> 0, relSize |-> 0, relaSize |-> 0,
            relCount |-> 0, relaCount |-> 0]
Idle == [pc |-> "out"]

RtldInit ==
  /\ program \in Programs /\ lazy \in BOOLEAN
  /\ stage = [m \in Modules |-> "loaded"]
  /\ object = [m \in Modules |-> Cleared]
  /\ word = [a \in UNION {{Base(m) + o : o \in DOMAIN Image(m).words} : m \in Modules} |->
               LET m == CHOOSE n \in Modules : a - Base(n) \in DOMAIN Image(n).words
               IN Image(m).words[a - Base(m)]]
  /\ call = [t \in Callers |-> Idle] /\ asserted = FALSE

-----------------------------------------------------------------------------
(* ModuleObject::Initialize and the first half of exl_dynamic: the last of *)
(* the entries with a tag is the one that counts.                          *)

Tagged(image, tag) == SelectSeq(image.dynamic, LAMBDA d : d[1] = tag)
Value(image, tag, otherwise) == IF Tagged(image, tag) = <<>> THEN otherwise ELSE Last(Tagged(image, tag))[2]

(* The size of a DT_RELA entry is asserted to be a wrong one.              *)
Asserts(m) ==
  \A d \in Range(Image(m).dynamic) :
    /\ d[1] = "RELAENT" => d[2] # RelaSize
    /\ d[1] = "SYMENT" => d[2] = SymSize
    /\ d[1] = "RELENT" => d[2] = RelSize
    /\ d[1] = "PLTREL" => d[2] \in {"REL", "RELA"}

Initialize(m) ==
  /\ stage[m] = "loaded"
  /\ IF Asserts(m)
     THEN /\ object' = [object EXCEPT ![m] = [object[m] EXCEPT
               !.isRela = Value(Image(m), "PLTREL", "REL") = "RELA",
               !.pltSize = Value(Image(m), "PLTRELSZ", 0),
               !.got = IF Tagged(Image(m), "PLTGOT") = <<>> THEN 0 ELSE Base(m) + Value(Image(m), "PLTGOT", 0),
               !.stub = 0,
               !.relSize = Value(Image(m), "RELSZ", 0), !.relaSize = Value(Image(m), "RELASZ", 0),
               !.relCount = Value(Image(m), "RELCOUNT", object[m].relCount),
               !.relaCount = Value(Image(m), "RELACOUNT", object[m].relaCount)]]
          /\ stage' = [stage EXCEPT ![m] = "initialized"] /\ UNCHANGED asserted
     ELSE asserted' = TRUE /\ UNCHANGED <<object, stage>>
  /\ UNCHANGED <<program, lazy, word, call>>

-----------------------------------------------------------------------------
(* ModuleObject::Relocate, and exl_dynamic for the program itself.         *)

Target(m, entry) == Base(m) + entry.offset

(* Memory when the word of each entry in DOMAIN to has been set to to[e].  *)
Placed(m, to) ==
  [a \in DOMAIN word |-> LET asked == {e \in DOMAIN to : Target(m, e) = a}
                         IN IF asked = {} THEN word[a] ELSE to[CHOOSE e \in asked : TRUE]]

First(m, count)   == {Image(m).table[i] : i \in 1..count}
Relative(entries) == {e \in entries : e.type = "relative"}

(* DT_REL and DT_RELA leave one table; a program has one of the two.       *)
RelocateWith(m, rels, relas) ==
  LET rel == Relative(First(m, rels))
  IN word' = Placed(m, [e \in rel \cup Relative(First(m, relas)) |->
                          Base(m) + (IF e \in rel THEN word[Target(m, e)] ELSE e.addend)])

Relocate(m) ==
  /\ stage[m] = "initialized"
  /\ RelocateWith(m, object[m].relCount, object[m].relaCount)
  /\ stage' = [stage EXCEPT ![m] = "relocated"]
  /\ UNCHANGED <<program, lazy, object, call, asserted>>

(* Without a count of the relative ones, all entries are looked at.        *)
Count(m, counted, size, entry, otherwise) ==
  LET n == Value(Image(m), counted, 0)
  IN IF n = 0 THEN Value(Image(m), size, 0) \div Value(Image(m), entry, otherwise) ELSE n

DynamicSelf(m) ==
  /\ stage[m] = "loaded"
  /\ RelocateWith(m, Count(m, "RELCOUNT", "RELSZ", "RELENT", RelSize),
                     Count(m, "RELACOUNT", "RELASZ", "RELAENT", RelaSize))
  /\ stage' = [stage EXCEPT ![m] = "resolved"]
  /\ UNCHANGED <<program, lazy, object, call, asserted>>

-----------------------------------------------------------------------------
(* Looking a symbol up: the set of its address, empty when there is none.  *)

SymbolByName(m, name) ==
  LET at(k) == Image(m).symbols[Image(m).chain[k]]
      found == {k \in DOMAIN Image(m).chain : at(k).section = "defined" /\ at(k).name = name}
  IN {at(k) : k \in {k \in found : \A l \in found : k <= l}}

AddressesIn(m, symbols) == {Base(m) + s.value : s \in symbols}

LookupGlobalAuto(name) ==
  LET in(m) == {s \in SymbolByName(m, name) : s.bind # "local"}
      with  == {m \in Modules : in(m) # {}}
  IN IF with = {} THEN {} ELSE LET m == CHOOSE m \in with : \A n \in with : m <= n
                               IN AddressesIn(m, in(m))

LookupGlobalManual(name) == IF name \in DOMAIN program.manual THEN {program.manual[name]} ELSE {}

TryResolveSymbol(m, s) ==
  IF s.hidden
  THEN LET own == SymbolByName(m, s.name)
       IN IF own = {} /\ s.bind = "weak" THEN {0} ELSE AddressesIn(m, own)
  ELSE IF LookupGlobalAuto(s.name) # {} THEN LookupGlobalAuto(s.name) ELSE LookupGlobalManual(s.name)

Symbol(m, entry)    == Image(m).symbols[entry.sym]
Addresses(m, entry) == TryResolveSymbol(m, Symbol(m, entry))

-----------------------------------------------------------------------------
(* ModuleObject::ResolveSymbols.                                           *)

After(m, counted, size, entry) == {Image(m).table[i] : i \in counted + 1 .. size \div entry}
Absolutes(m) == {e \in After(m, object[m].relCount, object[m].relSize, RelSize)
                         \cup After(m, object[m].relaCount, object[m].relaSize, RelaSize) :
                   e.type \in {"absolute", "globdat"}}
JumpSlots(m) ==
  LET linked == object[m].pltSize \div (IF object[m].isRela THEN RelaSize ELSE RelSize)
  IN {e \in {Image(m).plt[i] : i \in 1..linked} : e.type = "jumpslot"}

(* An entry of a DT_REL table has its addend in the word it asks for.      *)
AbsoluteAdded(m, e) ==
  LET found == Addresses(m, e)
  IN IF found = {} THEN word[Target(m, e)]
     ELSE (CHOOSE a \in found : TRUE) + word[Target(m, e)] + e.addend

Absolute(m, e) ==
  LET found == Addresses(m, e)
  IN IF found = {} THEN word[Target(m, e)]
     ELSE (CHOOSE a \in found : TRUE)
            + (IF Value(Image(m), "RELSZ", 0) > 0 THEN word[Target(m, e)] ELSE e.addend)

StubOf(m, e) == Base(m) + word[Target(m, e)]
JumpSlot(m, e) ==
  LET found == Addresses(m, e)
  IN IF lazy \/ found = {} THEN StubOf(m, e)
     ELSE (CHOOSE a \in found : TRUE) + (IF object[m].isRela THEN e.addend ELSE word[Target(m, e)])

ResolveSymbols(m) ==
  LET stubs == {StubOf(m, e) : e \in JumpSlots(m)}
  IN /\ stage[m] = "relocated" /\ \A n \in Modules : stage[n] \notin {"loaded", "initialized"}
     /\ IF Cardinality(stubs) > 1
        THEN asserted' = TRUE /\ UNCHANGED <<object, word, stage>>
        ELSE /\ word' = Placed(m, [e \in Absolutes(m) \cup JumpSlots(m) |->
                                     IF e.type = "jumpslot" THEN JumpSlot(m, e) ELSE Absolute(m, e)])
             /\ object' = [object EXCEPT ![m].stub = IF stubs = {} THEN @ ELSE CHOOSE a \in stubs : TRUE,
                                           ![m].owner = IF object[m].got = 0 THEN @ ELSE m]
             /\ stage' = [stage EXCEPT ![m] = "resolved"] /\ UNCHANGED asserted
     /\ UNCHANGED <<program, lazy, call>>

Linked == \A m \in Modules : stage[m] = "resolved"

-----------------------------------------------------------------------------
(* A call through the linkage table.  The first one through a slot that    *)
(* still holds the stub comes to __rtld_runtime_resolve with the slot on   *)
(* the stack and &got[2] in x16, and with the registers of its caller.     *)

CallThrough(t, m, e) ==
  LET slot == Target(m, e)
  IN /\ call[t] = Idle /\ Linked /\ ~asserted
     /\ call' = [call EXCEPT ![t] =
          [pc |-> IF word[slot] = object[m].stub THEN "bind" ELSE "arrived",
           module |-> m, entry |-> e, slot |-> slot, address |-> word[slot], regs |-> "kept"]]
     /\ UNCHANGED <<program, lazy, stage, object, word, asserted>>

(* The registers as they are stored, the first pair lowest, and loaded.    *)
Pushes == << <<"x29", "x30">>, <<"x8", "x19">>, <<"x6", "x7">>, <<"x4", "x5">>, <<"x2", "x3">>, <<"x0", "x1">>,
             <<"q6", "q7">>, <<"q4", "q5">>, <<"q2", "q3">>, <<"q0", "q1">> >>
Pops   == << <<"q0", "q1">>, <<"q2", "q3">>, <<"q4", "q5">>, <<"q6", "q7">>, <<"x0", "x1">>, <<"x2", "x3">>,
             <<"x4", "x5">>, <<"x6", "x7">>, <<"x8", "x19">>, <<"x29", "x30">> >>
Restored == \A i \in DOMAIN Pops : Pops[i] = Pushes[Len(Pushes) - i + 1]

IndexOffByOne(m, slot) == slot - (object[m].got + 2)
Index(m, slot) == slot - (object[m].got + 2) - 1

LazyBindSymbol(m, index) ==
  LET e == Image(m).plt[index + 1]
      found == Addresses(m, e)
  IN IF found \subseteq {0} THEN 0
     ELSE (CHOOSE a \in found : TRUE) + (IF object[m].isRela THEN e.addend ELSE 0)

Bind(t) ==
  /\ call[t].pc = "bind"
  /\ LET m == object[call[t].module].owner
         i == Index(m, call[t].slot)
     IN call' = [call EXCEPT ![t].pc = "store",
          ![t].address = IF i + 1 \in DOMAIN Image(m).plt THEN LazyBindSymbol(m, i) ELSE -1]
  /\ UNCHANGED <<program, lazy, stage, object, word, asserted>>

StoreSlot(t) ==
  /\ call[t].pc = "store"
  /\ word' = [word EXCEPT ![call[t].slot] = call[t].address]
  /\ call' = [call EXCEPT ![t].pc = "branch"]
  /\ UNCHANGED <<program, lazy, stage, object, asserted>>

Branch(t) ==
  /\ call[t].pc = "branch"
  /\ call' = [call EXCEPT ![t].pc = "arrived", ![t].regs = IF Restored THEN "kept" ELSE "lost"]
  /\ UNCHANGED <<program, lazy, stage, object, word, asserted>>

ReturnFrom(t) ==
  /\ call[t].pc = "arrived" /\ call[t].address > 0
  /\ call' = [call EXCEPT ![t] = Idle]
  /\ UNCHANGED <<program, lazy, stage, object, word, asserted>>

LinkStep(m) == ~asserted /\ (Initialize(m) \/ Relocate(m) \/ ResolveSymbols(m))
CallStep(t) == Bind(t) \/ StoreSlot(t) \/ Branch(t) \/ ReturnFrom(t)
CallSome(t) == \E m \in Modules : \E e \in JumpSlots(m) : CallThrough(t, m, e)

-----------------------------------------------------------------------------
(* The modules that tools make: one table, of one of the two kinds, with   *)
(* the relative entries first and counted; slots in order behind the three *)
(* words that head the global offset table; an entry for a word at most;   *)
(* in the chain every symbol that is not local, and no name twice.         *)
HasTable(image, size, count, each) ==
  /\ Value(image, size, 0) \in Nat
  /\ DOMAIN image.table = 1..(Value(image, size, 0) \div each)
  /\ Value(image, count, 0) \in 0..(Value(image, size, 0) \div each)
  /\ \A i \in DOMAIN image.table : image.table[i].type = "relative" <=> i <= Value(image, count, 0)

HasNone(image, size, count) == Value(image, size, 0) = 0 /\ Value(image, count, 0) = 0

HasSlots(image) ==
  LET each == IF Value(image, "PLTREL", "REL") = "RELA" THEN RelaSize ELSE RelSize
  IN /\ Value(image, "PLTRELSZ", 0) \in Nat /\ Value(image, "PLTGOT", 0) \in Nat
     /\ DOMAIN image.plt = 1..(Value(image, "PLTRELSZ", 0) \div each)
     /\ \A i \in DOMAIN image.plt :
          /\ Tagged(image, "PLTGOT") # <<>>
          /\ image.plt[i].type = "jumpslot"
          /\ image.plt[i].offset = Value(image, "PLTGOT", 0) + 2 + i

HasSymbols(image) ==
  LET named == {i \in DOMAIN image.symbols : image.symbols[i].bind # "local"}
  IN /\ image.chain \in Seq(DOMAIN image.symbols) /\ Range(image.chain) = named
     /\ \A s \in Range(image.symbols) : s.value \in Nat /\ s.hidden \in BOOLEAN
     /\ \A i, j \in named : /\ image.symbols[i].section = "defined" /\ image.symbols[j].section = "defined"
                            /\ image.symbols[i].name = image.symbols[j].name
                            => i = j

Entries(image) == Range(image.table) \cup Range(image.plt)

HasEntries(image) ==
  /\ \A e \in Entries(image) :
       /\ e.offset \in DOMAIN image.words /\ e.addend \in Int /\ e.sym \in DOMAIN image.symbols
       /\ image.symbols[e.sym].hidden /\ e.type = "jumpslot" => e.addend = 0
  /\ \A e, f \in Entries(image) : e.offset = f.offset => e = f
  /\ \A e \in Range(image.table) : e.type \in {"relative", "absolute", "globdat"}

WellMade(image) ==
  /\ image.base \in Nat \ {0}
  /\ DOMAIN image.words \subseteq Nat /\ \A o \in DOMAIN image.words : image.words[o] \in Int
  /\ Value(image, "RELENT", RelSize) = RelSize /\ Value(image, "RELAENT", RelaSize) = RelaSize
  /\ \/ HasTable(image, "RELSZ", "RELCOUNT", RelSize) /\ HasNone(image, "RELASZ", "RELACOUNT")
     \/ HasTable(image, "RELASZ", "RELACOUNT", RelaSize) /\ HasNone(image, "RELSZ", "RELCOUNT")
  /\ HasSlots(image) /\ HasSymbols(image) /\ HasEntries(image)

(* Loaded modules do not overlap, and nothing is found at zero.            *)
WellLoaded(p) ==
  /\ p.modules \in Seq(Range(p.modules))
  /\ \A m \in DOMAIN p.modules : WellMade(p.modules[m])
  /\ \A m, n \in DOMAIN p.modules : \A o \in DOMAIN p.modules[m].words, q \in DOMAIN p.modules[n].words :
       p.modules[m].base + o = p.modules[n].base + q => m = n
  /\ \A name \in DOMAIN p.manual : p.manual[name] \in Nat \ {0}

ASSUME ProgramsAssumption == \A p \in Programs : WellLoaded(p)

-----------------------------------------------------------------------------
(* What a name means: the definition in the module nearest to the back of  *)
(* the list, whoever asks and whenever; for a hidden one the module's own. *)
Exported(m, name) ==
  {d \in Range(Image(m).symbols) : d.section = "defined" /\ d.name = name /\ d.bind # "local"}

Meaning(m, s) ==
  LET with == {n \in IF s.hidden THEN {m} ELSE Modules : Exported(n, s.name) # {}}
      near == CHOOSE n \in with : \A o \in with : n <= o
  IN IF with # {} THEN Base(near) + (CHOOSE d \in Exported(near, s.name) : TRUE).value
     ELSE IF ~s.hidden /\ s.name \in DOMAIN program.manual THEN program.manual[s.name] ELSE 0

Resolvable(m, e) == Meaning(m, Symbol(m, e)) # 0
OddSlot(m, e)    == ~lazy /\ ~object[m].isRela

Was(m, e)   == Image(m).words[e.offset]
Added(m, e) == IF Value(Image(m), "RELSZ", 0) > 0 THEN Was(m, e) ELSE e.addend

(* What a word of the table holds once its module is linked.               *)
Asked(m, e) ==
  IF e.type = "relative" THEN Base(m) + Added(m, e)
  ELSE IF object[m] # Cleared /\ Resolvable(m, e) THEN Meaning(m, Symbol(m, e)) + Added(m, e)
  ELSE IF object[m] # Cleared /\ Symbol(m, e).hidden /\ Symbol(m, e).bind = "weak" THEN Added(m, e)
  ELSE Was(m, e)

(* What a slot of the linkage table may hold.                              *)
SlotHolds(m, e, now) ==
  \/ now = Base(m) + Was(m, e) /\ (lazy \/ ~Resolvable(m, e))
  \/ now = Meaning(m, Symbol(m, e)) + (IF object[m].isRela THEN e.addend ELSE 0) /\ Resolvable(m, e)
  \/ now \in {0, e.addend} /\ ~Resolvable(m, e)

(* Once linked, every word holds what its relocation asks for, and a slot  *)
(* either still sends its calls to the linker or holds that very address,  *)
(* however many threads are binding it.  Slots of a DT_REL table bound at  *)
(* once are not: the offset of the stub is left in them.                   *)
SlotsLinked ==
  Linked /\ ~asserted => \A m \in Modules :
    /\ \A e \in Range(Image(m).table) : word[Target(m, e)] = Asked(m, e)
    /\ \A e \in JumpSlots(m) : OddSlot(m, e) \/ SlotHolds(m, e, word[Target(m, e)])

(* A call arrives at the function it names, with the arguments and the     *)
(* return address it was made with; one that nothing defines goes to zero. *)
CallsArrive ==
  \A t \in Callers : call[t].pc = "arrived" =>
    LET c == call[t]
        s == Symbol(c.module, c.entry)
    IN \/ OddSlot(c.module, c.entry)
       \/ /\ c.regs = "kept"
          /\ c.address = IF Resolvable(c.module, c.entry)
                         THEN Meaning(c.module, s) + (IF object[c.module].isRela THEN c.entry.addend ELSE 0)
                         ELSE 0

(* Linking holds: before, while and after threads bind the slots through   *)
(* which they call, each word and each call means what the tables say.     *)
LinkSound == SlotsLinked /\ CallsArrive
=============================================================================
