------------------------------- MODULE MCBoot -------------------------------
EXTENDS Boot, SequencesExt

CONSTANTS boot, t1, t2

MCThreads == {boot, t1}
MCCallers == {t1, t2}
MCMaxModules == 3
MCMaxHandles == 2

(* Address spaces: what the kernel can report between a free range at zero *)
(* and one at the end; ranges alike are one range, except free ones.       *)
Blocks == {<<"rx", "r", "rw">>, <<"other">>, <<"rx">>, <<"rx", "r">>, <<"r">>, <<"rw">>, <<"rx", "rw">>}
Spread(b) == <<"other">> \o FlattenSeq(b) \o <<"other">>
MCSpaces == {s \in {Spread(b) : b \in UNION {[1..n -> Blocks] : n \in 1..4}} :
               \A i \in 1..Len(s)-1 : s[i] # s[i+1] \/ s[i] = "other"}
MCKernels == {"regions", "legacy36", "legacy32", "odd"}

Defined(n, b, v)   == [name |-> n, section |-> "defined", bind |-> b, hidden |-> FALSE, value |-> v]
Undefined(n, b)    == [name |-> n, section |-> "undefined", bind |-> b, hidden |-> FALSE, value |-> 0]
Hidden(n, s, b, v) == [name |-> n, section |-> s, bind |-> b, hidden |-> TRUE, value |-> v]
Entry(ty, s, o, a) == [type |-> ty, sym |-> s, offset |-> o, addend |-> a]

(* The tags of a module: its table, with or without counts, and its PLT.   *)
RelaTags(n, count) == << <<"RELA", 1>>, <<"RELASZ", 3 * n>>, <<"SYMENT", 3>>, <<"RELACOUNT", count>> >>
RelTags(n, count)  == << <<"REL", 1>>, <<"RELSZ", 2 * n>>, <<"RELENT", 2>>, <<"RELCOUNT", count>> >>
PltTags(kind, n)   == << <<"PLTREL", kind>>, <<"PLTRELSZ", n * (IF kind = "RELA" THEN 3 ELSE 2)>>,
                         <<"PLTGOT", 20>>, <<"JMPREL", 1>> >>

Module1(base, dynamic, symbols, table, plt, words) ==
  [base |-> base, dynamic |-> dynamic, symbols |-> symbols, chain |-> Reverse([i \in DOMAIN symbols |-> i]),
   table |-> table, plt |-> plt, words |-> words]

(* The program: it calls f and g and takes the address of v.               *)
Needs == << Undefined("f", "global"), Undefined("g", "global"), Undefined("v", "weak"),
            Hidden("h", "defined", "global", 7), Hidden("w", "undefined", "weak", 0) >>
Words(base) == (10 :> 4) @@ (11 :> 0) @@ (12 :> 5) @@ (13 :> 0) @@ (23 :> 2) @@ (24 :> 2)

RelaUser(base, extra) ==
  Module1(base, RelaTags(4, 1) \o PltTags("RELA", 2) \o extra, Needs,
    << Entry("relative", 1, 10, 6), Entry("globdat", 3, 11, 0), Entry("absolute", 4, 12, 1), Entry("absolute", 5, 13, 2) >>,
    << Entry("jumpslot", 1, 23, 0), Entry("jumpslot", 2, 24, 0) >>, Words(base))

RelUser(base) ==
  Module1(base, RelTags(4, 1) \o PltTags("REL", 2), Needs,
    << Entry("relative", 1, 10, 0), Entry("globdat", 3, 11, 0), Entry("absolute", 4, 12, 0), Entry("absolute", 5, 13, 0) >>,
    << Entry("jumpslot", 1, 23, 0), Entry("jumpslot", 2, 24, 0) >>, Words(base))

Library(base, symbols) == Module1(base, <<>>, symbols, <<>>, <<>>, 9 :> 1)

Both  == << Defined("f", "global", 1), Defined("g", "weak", 2), Defined("v", "global", 3) >>
Some  == << Defined("f", "weak", 4), Defined("h", "global", 5) >>
None  == [n \in {} |-> 0]
Manual == "g" :> 900

Prog(ms, manual) == [modules |-> ms, manual |-> manual]

Plain       == Prog(<<Library(200, Both)>>, None)
HomeProgram == Prog(<<RelaUser(100, <<>>), Library(200, Both)>>, None)
HomeSpace   == Spread(<< <<"rx", "r", "rw">>, <<"rx", "r", "rw">>, <<"other">> >>)

MCPrograms ==
  { Plain,
    HomeProgram,
    Prog(<<Library(200, Some), RelaUser(100, <<>>), Library(300, Both)>>, None),
    Prog(<<RelUser(100), Library(200, Both), Library(300, Some)>>, None),
    Prog(<<RelaUser(100, <<>>), RelaUser(400, <<>>), Library(200, Some)>>, Manual),
    Prog(<<RelaUser(100, <<>>)>>, None),
    Prog(<<RelUser(100)>>, None),
    Prog(<<RelaUser(100, << <<"RELAENT", 3>> >>)>>, None) }

(* Every program in one address space, every address space for one that    *)
(* makes no calls.                                                         *)
MCInit ==
  /\ Init
  /\ \/ program = Plain /\ lazy /\ loader = "game"
     \/ space = HomeSpace /\ own = 5 /\ kernel = "regions" /\ mesosphere
MCSpec == MCInit /\ [][Next]_vars /\ Fairness
=============================================================================
