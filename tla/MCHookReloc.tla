---------------------------- MODULE MCHookReloc -----------------------------
(* Instances of HookReloc for TLC: fields of 9, 8 and 7 bits, pages of 64  *)
(* words, and a function at 200, whose instructions name addresses before  *)
(* it, in its window, and behind it.                                       *)
EXTENDS HookReloc

\* The instruction in place p that names the address a.
I(op, p, a) == CPU!Word(op, (a - Base - p) % (2 * CPU!Half(op)), 0, 0, 0)
L(op, p, a, n) == [I(op, p, a) EXCEPT !.n = n]

Plain    == {CPU!Word("plain", 0, 0, 0, 0)}
Prefetch == {CPU!Word("prfm", 0, 0, 0, 0)}
Branches(p) == {I(op, p, a) : op \in {"b", "bl"}, a \in {170, 200, 201, 202, 258}}

\* Ahead only: the field is not taken for a signed one.
Conditionals(p) == {I(op, p, a) : op \in {"bc", "tbz"}, a \in (Base + p)..202 \cup {260}}

\* Ahead only, and behind the trampoline when that is in reach.
Loads(p) == {L(op, p, a, n) : op \in {"ldr", "ldrv"}, a \in {258} \cup (Base + p + 1)..201, n \in {1, 2}}
            \cup {L("ldrv", p, 258, 4), L("ldrsw", p, 258, 1)}

\* Ahead only, and of whole words when the trampoline is in reach.
Adr(p) == {I("adr", p, a) : a \in (Base + p)..202 \cup {260}}
          \cup {[I("adr", p, a) EXCEPT !.lo = 3] : a \in (Base + p)..201}
FarAdr(p) == Adr(p) \cup {[I("adr", p, 258) EXCEPT !.lo = 3]}
Adrp   == {CPU!Word("adrp", f, 0, 0, 0) : f \in {0, 1}}

Place(p) == Plain \cup Branches(p) \cup Conditionals(p) \cup Loads(p) \cup Adr(p)

\* An adrp in the window must not be named by another instruction of it.
AdrpUnnamed(w) ==
  \A j, k \in 1..Len(w) :
    w[k].op = "adrp" /\ w[j].op \in {"b", "bl", "bc", "tbz", "adr"}
      => j - 1 + CPU!Signed(w[j].imm, CPU!Half(w[j].op)) # k - 1

\* Two instructions of every class,
TwoWindows == {<<a, b>> : a \in Place(0), b \in Place(1)}

\* three that branch among each other,
ThreeWindows == {<<a, b, c>> : a \in Branches(0) \cup Conditionals(0),
                               b \in Branches(1) \cup Conditionals(1) \cup Plain,
                               c \in Branches(2) \cup Adr(2)}

\* addresses and pages,
PageWindows == {w \in {<<a, b>> : a \in Adrp \cup FarAdr(0), b \in Adrp \cup FarAdr(1) \cup Branches(1)} : AdrpUnnamed(w)}

\* and five that take the most room and none.
Large(p)   == {L("ldrv", p, 258, 4), I("bl", p, 300)} \cup Prefetch
RowWindows == {<<a, b, c, d, e>> : a \in Large(0), b \in Large(1), c \in Large(2), d \in Large(3), e \in Large(4)}

MCWindows == TwoWindows \cup ThreeWindows \cup PageWindows \cup RowWindows

\* Within reach of every branch, or of the longer ones only, or of none.
MCOutBases(w) ==
  (IF w \in TwoWindows \cup ThreeWindows THEN {208, 390} ELSE {})
  \cup (IF w \notin ThreeWindows THEN {1000, 1002} ELSE {})

\* Each of them is what the fixers take over rightly.
ASSUME MCHandled == \A w \in MCWindows : \A b \in MCOutBases(w) : Handled(w, b)

\* One class each of what the fixers get wrong.
MCBranches  == {<<I(op, 0, 170)>> : op \in {"bc", "tbz"}} \cup {<<a, I("b", 1, 200)>> : a \in Adrp}
MCLiterals  == {<<L("ldr", 0, 170, 2)>>, <<L("ldr", 0, 201, 1)>>}
MCAddresses == {<<I("adr", 0, 170)>>, <<[I("adr", 0, 260) EXCEPT !.lo = 1]>>}
MCNearAndFar(w) == {208, 1000}

=============================================================================
