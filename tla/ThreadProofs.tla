----------------------------- MODULE ThreadProofs -----------------------------
(***************************************************************************)
(* What the threads of the game meet of the mod.                           *)
(*                                                                         *)
(* Hooked functions (HookEngine), for every list of hooks, every number of *)
(* threads and every size of the pools: each call of a function runs its   *)
(* hooks and its instructions once and in order, and meets no fault but    *)
(* that of a hook that is still being installed.                           *)
(*                                                                         *)
(* Exceptions (ExceptionHandler), for every set of threads and every       *)
(* nesting bound: a thread gets back its own registers, and its own        *)
(* handler's verdict.                                                      *)
(***************************************************************************)
EXTENDS ExceptionHandler, HookEngine, SequenceTheorems, FiniteSetTheorems, WellFoundedInduction, TLAPS

(* Calls of hooked functions.  What memory holds is a function of how many *)
(* hooks have been installed, and where a thread is says what its call has *)
(* yet to run.                                                             *)

\* The last of the first n hooks of f, 0 when there is none.
Latest(f, n) ==
  IF HooksOf(f, n) = {} THEN 0
  ELSE CHOOSE j \in HooksOf(f, n) : \A k \in HooksOf(f, n) : k <= j

HasRow(j)   == Jobs[j].kind # "replace"
IsInline(j) == Jobs[j].kind = "inline"
RowOf(j)    == Cardinality({i \in 1..j-1 : HasRow(i)})
EntryOf(j)  == Cardinality({i \in 1..j-1 : IsInline(i)})
DestOf(j)   == IF IsInline(j) THEN Entry(EntryOf(j)) ELSE CallbackOf(j)

\* A far hook begins with a NOP where that aligns its literal.
Aligning(f) == Covered(f) - 4

FarText(f, d) == [i \in 0..BodyWords-1 |->
  CASE i < Aligning(f)     -> <<"nop", 0>>
    [] i = Aligning(f)     -> <<"ldr", 0>>
    [] i = Aligning(f) + 1 -> <<"br", 0>>
    [] i = Aligning(f) + 2 -> <<"low", d>>
    [] i = Aligning(f) + 3 -> <<"high", d>>
    [] OTHER           -> <<"insn", i>>]
NearText(d) == [i \in 0..BodyWords-1 |-> IF i = 0 THEN <<"b", d>> ELSE <<"insn", i>>]
HookText(f, d) == IF f \in Far THEN FarText(f, d) ELSE NearText(d)

\* The words of f, and what moving them makes of them, with n hooks installed.
TextOf(f, n) == IF Latest(f, n) = 0 THEN Body ELSE HookText(f, DestOf(Latest(f, n)))
MovedWord(f, n, i) ==
  IF Latest(f, n) = 0 THEN <<"insn", i>>
  ELSE IF f \notin Far THEN <<"jump", DestOf(Latest(f, n))>>
  ELSE IF i = Aligning(f) THEN <<"load", DestOf(Latest(f, n))>>
  ELSE FarText(f, DestOf(Latest(f, n)))[i]
MovedText(f, n) == [i \in 0..Covered(f) |-> IF i < Covered(f) THEN MovedWord(f, n, i) ELSE Resume(f)]
TrampolineOf(j) == MovedText(Jobs[j].fn, j - 1)
BackOf(j) == IF TrampolineOf(j)[0][1] \in {"insn", "nop", "br"} THEN Moved(RowOf(j), 1) ELSE Junk


-----------------------------------------------------------------------------
(* A set of numbers that is bounded and not empty has a greatest one.      *)
LEMMA GreatestNumber ==
  ASSUME NEW n \in Nat, NEW T, T \subseteq 1..n, T # {}
  PROVE  \E m \in T : \A k \in T : k <= m
<1> DEFINE R == StrictSubsetOrdering(Nat)
<1> DEFINE U == {1..n-m : m \in T}
<1>1. IsWellFoundedOn(R, FiniteSubsetsOf(Nat))
  BY FS_StrictSubsetOrderingWellFounded
<1>2. U \subseteq FiniteSubsetsOf(Nat) /\ U # {}
  <2>1. ASSUME NEW m \in T PROVE 1..n-m \in FiniteSubsetsOf(Nat)
    <3>1. IsFiniteSet(1..n-m)
      BY FS_Interval
    <3>2. 1..n-m \subseteq Nat
      OBVIOUS
    <3> QED BY <3>1, <3>2 DEF FiniteSubsetsOf
  <2> QED BY <2>1
<1>3. \E x \in U : \A y \in U : ~ (<<y, x>> \in R)
  <2> HIDE DEF R, U
  <2> QED BY <1>1, <1>2, WFMin, Zenon
<1>4. PICK m \in T : \A k \in T : ~ (<<1..n-k, 1..n-m>> \in R)
  BY <1>3
<1>5. ASSUME NEW k \in T, m < k PROVE FALSE
  <2>0. k \in 1..n /\ m \in 1..n
    OBVIOUS
  <2>1. n - m \in 1..n-m /\ n - m \notin 1..n-k
    BY <1>5, <2>0
  <2>2. 1..n-k \subseteq 1..n-m
    BY <1>5, <2>0
  <2>3. <<1..n-k, 1..n-m>> \in R
    BY <2>1, <2>2 DEF StrictSubsetOrdering
  <2> QED BY <1>4, <2>3
<1>6. ASSUME NEW k \in T PROVE k <= m
  <2> k \in 1..n /\ m \in 1..n
    OBVIOUS
  <2> QED BY <1>5, <1>6
<1> QED BY <1>6


LEMMA JobsAre ==
  /\ Len(Jobs) \in Nat /\ DOMAIN Jobs = 1..Len(Jobs)
  /\ \A j \in 1..Len(Jobs) : Jobs[j].fn \in Functions /\ Jobs[j].kind \in Kinds
<1> DEFINE J == [fn : Functions, kind : Kinds]
<1>1. \A h \in J : h.fn \in Functions /\ h.kind \in Kinds
  OBVIOUS
<1>2. Jobs \in Seq(J)
  BY JobsAssumption
<1> HIDE DEF J
<1>3. Len(Jobs) \in Nat /\ DOMAIN Jobs = 1..Len(Jobs) /\ \A j \in 1..Len(Jobs) : Jobs[j] \in J
  BY <1>2
<1> QED BY <1>1, <1>3

LEMMA LatestIs ==
  ASSUME NEW f, NEW n \in 0..Len(Jobs)
  PROVE  /\ Latest(f, n) \in 0..n
         /\ Latest(f, n) = 0 <=> HooksOf(f, n) = {}
         /\ Latest(f, n) # 0 =>
              /\ Jobs[Latest(f, n)].fn = f
              /\ \A k \in HooksOf(f, n) : k <= Latest(f, n)
<1>1. n \in Nat /\ HooksOf(f, n) \subseteq 1..n
  BY JobsAre DEF HooksOf
<1>2. CASE HooksOf(f, n) = {}
  BY <1>1, <1>2 DEF Latest
<1>3. CASE HooksOf(f, n) # {}
  <2>1. \E j \in HooksOf(f, n) : \A k \in HooksOf(f, n) : k <= j
    BY <1>1, <1>3, GreatestNumber
  <2>2. Latest(f, n) \in HooksOf(f, n) /\ \A k \in HooksOf(f, n) : k <= Latest(f, n)
    BY <1>3, <2>1 DEF Latest
  <2> QED BY <1>1, <1>3, <2>2 DEF HooksOf
<1> QED BY <1>2, <1>3

(* One more hook.                                                          *)
LEMMA LatestStep ==
  ASSUME NEW f, NEW j \in 1..Len(Jobs)
  PROVE  /\ Jobs[j].fn = f => Latest(f, j) = j
         /\ Jobs[j].fn # f => HooksOf(f, j) = HooksOf(f, j - 1) /\ Latest(f, j) = Latest(f, j - 1)
<1>1. j \in 0..Len(Jobs) /\ j \in Nat
  BY JobsAre
<1>2. CASE Jobs[j].fn = f
  <2>1. j \in HooksOf(f, j)
    BY <1>1, <1>2 DEF HooksOf
  <2>2. Latest(f, j) \in 0..j /\ Latest(f, j) # 0
    BY <1>1, <2>1, LatestIs
  <2>3. j <= Latest(f, j)
    BY <1>1, <2>1, <2>2, LatestIs
  <2> QED BY <1>1, <1>2, <2>2, <2>3
<1>3. CASE Jobs[j].fn # f
  <2>1. HooksOf(f, j) = HooksOf(f, j - 1)
    BY <1>1, <1>3 DEF HooksOf
  <2> QED BY <1>3, <2>1 DEF Latest
<1> QED BY <1>2, <1>3

Instructions == {<<"insn", i>> : i \in 0..BodyWords-1}
AllEvents == {CallbackOf(j) : j \in 1..Len(Jobs)} \cup Instructions
Rest(i) == {<<"insn", k>> : k \in i..BodyWords-1}

LEMMA ExpectedNone ==
  ASSUME NEW f, NEW n, HooksOf(f, n) = {}
  PROVE  Expected(f, n) = Instructions /\ Calls(f, n) = {}
  BY DEF Expected, Calls, Replaced, Instructions

(* A hook of f runs before what there was, or instead of it.               *)
LEMMA ExpectedHook ==
  ASSUME NEW f, NEW j \in 1..Len(Jobs), Jobs[j].fn = f
  PROVE  /\ Expected(f, j) = {CallbackOf(j)} \cup (IF HasRow(j) THEN Expected(f, j - 1) ELSE {})
         /\ Calls(f, j) = {CallbackOf(j)} \cup (IF HasRow(j) THEN Calls(f, j - 1) ELSE {})
<1>1. j \in Nat /\ HooksOf(f, j) = HooksOf(f, j - 1) \cup {j} /\ \A k \in HooksOf(f, j - 1) : k \in Nat /\ k < j
  BY JobsAre DEF HooksOf
<1>2. CASE HasRow(j)
  <2>1. Replaced(f, j) <=> Replaced(f, j - 1)
    BY <1>1, <1>2 DEF Replaced, HasRow
  <2>2. ASSUME NEW i PROVE (i \in HooksOf(f, j) /\ ~\E k \in HooksOf(f, j) : k > i /\ Jobs[k].kind = "replace")
                           <=> (i = j \/ (i \in HooksOf(f, j - 1) /\ ~\E k \in HooksOf(f, j - 1) : k > i /\ Jobs[k].kind = "replace"))
    BY <1>1, <1>2 DEF HasRow
  <2>3. Calls(f, j) = {CallbackOf(j)} \cup Calls(f, j - 1)
    BY <2>2 DEF Calls
  <2> QED BY <1>2, <2>1, <2>3 DEF Expected
<1>3. CASE ~HasRow(j)
  <2>1. Replaced(f, j)
    BY <1>1, <1>3 DEF Replaced, HasRow
  <2>2. ASSUME NEW i PROVE (i \in HooksOf(f, j) /\ ~\E k \in HooksOf(f, j) : k > i /\ Jobs[k].kind = "replace")
                           <=> i = j
    BY <1>1, <1>3 DEF HasRow
  <2>3. Calls(f, j) = {CallbackOf(j)}
    BY <2>2 DEF Calls
  <2> QED BY <1>3, <2>1, <2>3 DEF Expected
<1> QED BY <1>2, <1>3

(* Only the hooks of a function count.                                     *)
LEMMA ExpectedLatest ==
  ASSUME NEW f, NEW n \in 0..Len(Jobs)
  PROVE  /\ Expected(f, n) = Expected(f, Latest(f, n))
         /\ Calls(f, n) = Calls(f, Latest(f, n))
<1> DEFINE j == Latest(f, n)
<1>1. j \in 0..n /\ n \in Nat
  BY LatestIs, JobsAre
<1>2. HooksOf(f, n) = HooksOf(f, j)
  <2>1. CASE j = 0
    BY <2>1, LatestIs DEF HooksOf
  <2>2. CASE j # 0
    <3>1. \A k \in HooksOf(f, n) : k <= j
      BY <2>2, LatestIs
    <3> HIDE DEF j
    <3> QED BY <1>1, <3>1 DEF HooksOf
  <2> QED BY <2>1, <2>2
<1> QED BY <1>2 DEF Expected, Calls, Replaced

LEMMA ExpectedIsEvents ==
  ASSUME NEW f, NEW n \in 0..Len(Jobs)
  PROVE  /\ Expected(f, n) \subseteq AllEvents /\ Calls(f, n) \subseteq Expected(f, n)
         /\ Calls(f, n) = {e \in Expected(f, n) : e[1] = "callback"}
         /\ \A e \in Calls(f, n) : \E k \in 1..n : e = CallbackOf(k)
<1>1. HooksOf(f, n) \subseteq 1..Len(Jobs) /\ HooksOf(f, n) \subseteq 1..n
  BY JobsAre DEF HooksOf
<1>2. \A e \in Calls(f, n) : \E k \in HooksOf(f, n) : e = CallbackOf(k)
  BY DEF Calls
<1>3. \A e \in Calls(f, n) : e[1] = "callback"
  BY <1>2 DEF CallbackOf
<1>4. \A e \in Instructions : e[1] # "callback"
  BY DEF Instructions
<1> QED BY <1>1, <1>2, <1>3, <1>4 DEF Expected, AllEvents, Instructions

-----------------------------------------------------------------------------
(* Rows and entries are given out one after the other.                     *)
LEMMA CountStep ==
  ASSUME NEW j \in Nat \ {0}, NEW P, P \subseteq 1..j
  PROVE  /\ IsFiniteSet(P) /\ Cardinality(P) \in Nat
         /\ Cardinality(P) = Cardinality(P \ {j}) + (IF j \in P THEN 1 ELSE 0)
<1>1. IsFiniteSet(P)
  <2>1. IsFiniteSet(1..j)
    BY FS_Interval
  <2> QED BY <2>1, FS_Subset
<1>2. Cardinality(P) \in Nat
  BY <1>1, FS_CardinalityType
<1>3. Cardinality(P \ {j}) = IF j \in P THEN Cardinality(P) - 1 ELSE Cardinality(P)
  BY <1>1, FS_RemoveElement
<1> QED BY <1>1, <1>2, <1>3

LEMMA RowsAre ==
  ASSUME NEW j \in 1..Len(Jobs)
  PROVE  /\ RowOf(j) \in Nat /\ EntryOf(j) \in Nat
         /\ RowOf(j + 1) = RowOf(j) + (IF HasRow(j) THEN 1 ELSE 0)
         /\ EntryOf(j + 1) = EntryOf(j) + (IF IsInline(j) THEN 1 ELSE 0)
<1>0. j \in Nat \ {0} /\ j + 1 - 1 = j
  BY JobsAre
<1> DEFINE P == {i \in 1..j : HasRow(i)}
           Q == {i \in 1..j : IsInline(i)}
<1>1. P \subseteq 1..j /\ Q \subseteq 1..j /\ (j \in P <=> HasRow(j)) /\ (j \in Q <=> IsInline(j))
  BY <1>0
<1>2. P \ {j} = {i \in 1..j-1 : HasRow(i)} /\ Q \ {j} = {i \in 1..j-1 : IsInline(i)}
  BY <1>0
<1>3. RowOf(j + 1) = Cardinality(P) /\ EntryOf(j + 1) = Cardinality(Q)
  BY <1>0 DEF RowOf, EntryOf
<1>4. RowOf(j) = Cardinality(P \ {j}) /\ EntryOf(j) = Cardinality(Q \ {j})
  BY <1>2 DEF RowOf, EntryOf
<1> HIDE DEF P, Q
<1>5. P \ {j} \subseteq 1..j /\ Q \ {j} \subseteq 1..j
  BY <1>1
<1>6. Cardinality(P \ {j}) \in Nat /\ Cardinality(Q \ {j}) \in Nat
  BY <1>0, <1>5, CountStep
<1>7. Cardinality(P) = Cardinality(P \ {j}) + (IF HasRow(j) THEN 1 ELSE 0)
  BY <1>0, <1>1, CountStep
<1>8. Cardinality(Q) = Cardinality(Q \ {j}) + (IF IsInline(j) THEN 1 ELSE 0)
  BY <1>0, <1>1, CountStep
<1> QED BY <1>3, <1>4, <1>6, <1>7, <1>8

LEMMA RowsDiffer ==
  ASSUME NEW i \in 1..Len(Jobs), NEW j \in 1..Len(Jobs), i < j
  PROVE  /\ HasRow(i) => RowOf(i) < RowOf(j)
         /\ IsInline(i) => EntryOf(i) < EntryOf(j)
<1>0. i \in Nat /\ j \in Nat
  BY JobsAre
<1>1. {k \in 1..i+1-1 : HasRow(k)} \subseteq {k \in 1..j-1 : HasRow(k)}
  BY <1>0
<1>2. {k \in 1..i+1-1 : IsInline(k)} \subseteq {k \in 1..j-1 : IsInline(k)}
  BY <1>0
<1>3. IsFiniteSet({k \in 1..j-1 : HasRow(k)}) /\ IsFiniteSet({k \in 1..j-1 : IsInline(k)})
  <2>1. IsFiniteSet(1..j-1)
    BY <1>0, FS_Interval
  <2> QED BY <2>1, FS_Subset
<1>4. RowOf(i + 1) <= RowOf(j) /\ EntryOf(i + 1) <= EntryOf(j)
  BY <1>1, <1>2, <1>3, FS_Subset DEF RowOf, EntryOf
<1> QED BY <1>4, RowsAre

LEMMA NoRows == RowOf(1) = 0 /\ EntryOf(1) = 0
<1>1. {i \in 1..1-1 : HasRow(i)} = {} /\ {i \in 1..1-1 : IsInline(i)} = {}
  OBVIOUS
<1> QED BY <1>1, FS_EmptySet DEF RowOf, EntryOf

-----------------------------------------------------------------------------
(* Words.                                                                  *)
LEMMA CoveredIs ==
  ASSUME NEW f
  PROVE  /\ Covered(f) \in 1..5 /\ Covered(f) < BodyWords /\ BodyWords \in Nat
         /\ f \notin Far => Covered(f) = 1
         /\ f \in Far => Aligning(f) \in {0, 1} /\ Covered(f) = Aligning(f) + 4
  BY SizesAssumption DEF Covered, Aligning

LEMMA FarTextIs ==
  ASSUME NEW f \in Far, NEW d
  PROVE  /\ DOMAIN FarText(f, d) = 0..BodyWords-1
         /\ Aligning(f) = 1 => FarText(f, d)[0] = <<"nop", 0>>
         /\ FarText(f, d)[Aligning(f)] = <<"ldr", 0>>
         /\ FarText(f, d)[Aligning(f) + 1] = <<"br", 0>>
         /\ FarText(f, d)[Aligning(f) + 2] = <<"low", d>>
         /\ FarText(f, d)[Aligning(f) + 3] = <<"high", d>>
         /\ \A i \in Covered(f)..BodyWords-1 : FarText(f, d)[i] = <<"insn", i>>
  BY CoveredIs DEF FarText

LEMMA DestIs ==
  ASSUME NEW j \in 1..Len(Jobs), IsInline(j) => EntryOf(j) < EntryMax
  PROVE  DestOf(j) \in Destinations
<1>1. EntryOf(j) \in Nat
  BY RowsAre
<1> QED BY <1>1, JobsAre, SizesAssumption DEF DestOf, Destinations

(* The words that a hook does not cover are the function's.                *)
LEMMA TextIs ==
  ASSUME NEW f, NEW n
  PROVE  /\ DOMAIN TextOf(f, n) = 0..BodyWords-1
         /\ \A i \in Covered(f)..BodyWords-1 : TextOf(f, n)[i] = <<"insn", i>>
         /\ Latest(f, n) = 0 => TextOf(f, n) = Body
         /\ \A i \in 0..BodyWords-1 : Body[i] = <<"insn", i>>
         /\ Latest(f, n) # 0 /\ f \notin Far => TextOf(f, n)[0] = <<"b", DestOf(Latest(f, n))>>
         /\ Latest(f, n) # 0 /\ f \in Far => TextOf(f, n) = FarText(f, DestOf(Latest(f, n)))
<1>1. CASE Latest(f, n) = 0
  BY <1>1, CoveredIs DEF TextOf, Body
<1>2. CASE Latest(f, n) # 0 /\ f \notin Far
  BY <1>2, CoveredIs DEF TextOf, HookText, NearText, Body
<1>3. CASE Latest(f, n) # 0 /\ f \in Far
  BY <1>3, FarTextIs, CoveredIs DEF TextOf, HookText, FarText, Body
<1> QED BY <1>1, <1>2, <1>3

(* Moving the words of n hooks.                                            *)
LEMMA MovedIs ==
  ASSUME NEW f \in Functions, NEW n, text[f] = TextOf(f, n)
  PROVE  Trampoline(f) = MovedText(f, n)
<1>1. ASSUME NEW i \in 0..Covered(f), i < Covered(f)
      PROVE  Relocated(f, i) = MovedWord(f, n, i)
  <2>0. i \in 0..BodyWords-1 /\ i \in Nat
    BY <1>1, CoveredIs
  <2>1. CASE Latest(f, n) = 0
    <3>1. text[f][i] = <<"insn", i>>
      BY <2>0, <2>1, TextIs
    <3> QED BY <2>1, <3>1 DEF Relocated, MovedWord
  <2>2. CASE Latest(f, n) # 0 /\ f \notin Far
    <3>1. i = 0 /\ text[f][i] = <<"b", DestOf(Latest(f, n))>>
      BY <1>1, <2>0, <2>2, TextIs, CoveredIs
    <3> QED BY <2>2, <3>1 DEF Relocated, MovedWord
  <2>3. CASE Latest(f, n) # 0 /\ f \in Far
    <3> DEFINE d == DestOf(Latest(f, n))
    <3>1. text[f] = FarText(f, d)
      BY <2>3, TextIs
    <3> HIDE DEF d
    <3>2. CASE i = Aligning(f)
      <4>1. i + 2 + 1 < BodyWords /\ i + 2 = Aligning(f) + 2 /\ i + 2 + 1 = Aligning(f) + 3
        BY <2>0, <2>3, <3>2, CoveredIs
      <4>2. text[f][i] = <<"ldr", 0>> /\ text[f][i + 2] = <<"low", d>> /\ text[f][i + 2 + 1] = <<"high", d>>
        BY <2>3, <3>1, <3>2, <4>1, FarTextIs
      <4>3. Literal(f, i + 2) = d
        BY <4>1, <4>2 DEF Literal
      <4> QED BY <2>3, <3>2, <4>2, <4>3 DEF Relocated, MovedWord, d
    <3>3. CASE i # Aligning(f)
      <4>1. (i = 0 /\ Aligning(f) = 1) \/ i = Aligning(f) + 1 \/ i = Aligning(f) + 2 \/ i = Aligning(f) + 3
        BY <1>1, <2>0, <2>3, <3>3, CoveredIs
      <4>2. text[f][i] \in {<<"nop", 0>>, <<"br", 0>>, <<"low", d>>, <<"high", d>>}
        <5>1. CASE i = 0 /\ Aligning(f) = 1
          BY <2>3, <3>1, <5>1, FarTextIs
        <5>2. CASE i = Aligning(f) + 1
          BY <2>3, <3>1, <5>2, FarTextIs
        <5>3. CASE i = Aligning(f) + 2
          BY <2>3, <3>1, <5>3, FarTextIs
        <5>4. CASE i = Aligning(f) + 3
          BY <2>3, <3>1, <5>4, FarTextIs
        <5> QED BY <4>1, <5>1, <5>2, <5>3, <5>4
      <4>3. Relocated(f, i) = text[f][i]
        BY <4>2 DEF Relocated
      <4> QED BY <2>3, <3>1, <3>3, <4>3 DEF MovedWord, d
    <3> QED BY <3>2, <3>3
  <2> QED BY <2>1, <2>2, <2>3
<1> QED BY <1>1 DEF Trampoline, MovedText

(* The words of a row.                                                     *)
LEMMA RowWordsAre ==
  ASSUME NEW f, NEW n
  PROVE  LET w == MovedText(f, n) d == DestOf(Latest(f, n)) IN
         /\ DOMAIN w = 0..Covered(f) /\ w[Covered(f)] = <<"jump", Word(f, Covered(f))>>
         /\ Latest(f, n) = 0 => \A i \in 0..Covered(f)-1 : w[i] = <<"insn", i>>
         /\ Latest(f, n) # 0 /\ f \notin Far => w[0] = <<"jump", d>>
         /\ Latest(f, n) # 0 /\ f \in Far =>
              /\ Aligning(f) = 1 => w[0] = <<"nop", 0>>
              /\ w[Aligning(f)] = <<"load", d>> /\ w[Aligning(f) + 1] = <<"br", 0>>
              /\ w[Aligning(f) + 2] = <<"low", d>> /\ w[Aligning(f) + 3] = <<"high", d>>
<1> DEFINE w == MovedText(f, n)
           d == DestOf(Latest(f, n))
<1>1. DOMAIN w = 0..Covered(f) /\ \A i \in 0..Covered(f) : w[i] = IF i < Covered(f) THEN MovedWord(f, n, i) ELSE Resume(f)
  BY DEF MovedText
<1> HIDE DEF w
<1>2. w[Covered(f)] = <<"jump", Word(f, Covered(f))>>
  BY <1>1, CoveredIs DEF Resume
<1>3. ASSUME Latest(f, n) = 0 PROVE \A i \in 0..Covered(f)-1 : w[i] = <<"insn", i>>
  BY <1>1, <1>3, CoveredIs DEF MovedWord
<1>4. ASSUME Latest(f, n) # 0, f \notin Far PROVE w[0] = <<"jump", d>>
  BY <1>1, <1>4, CoveredIs DEF MovedWord
<1>5. ASSUME Latest(f, n) # 0, f \in Far
      PROVE  /\ Aligning(f) = 1 => w[0] = <<"nop", 0>>
             /\ w[Aligning(f)] = <<"load", d>> /\ w[Aligning(f) + 1] = <<"br", 0>>
             /\ w[Aligning(f) + 2] = <<"low", d>> /\ w[Aligning(f) + 3] = <<"high", d>>
  <2>1. \A i \in 0..Covered(f)-1 : w[i] = IF i = Aligning(f) THEN <<"load", d>> ELSE FarText(f, d)[i]
    BY <1>1, <1>5, CoveredIs DEF MovedWord
  <2> HIDE DEF d
  <2>2. /\ Aligning(f) = 1 => FarText(f, d)[0] = <<"nop", 0>>
        /\ FarText(f, d)[Aligning(f) + 1] = <<"br", 0>>
        /\ FarText(f, d)[Aligning(f) + 2] = <<"low", d>> /\ FarText(f, d)[Aligning(f) + 3] = <<"high", d>>
    BY <1>5, FarTextIs
  <2>3. Aligning(f) \in {0, 1} /\ Covered(f) = Aligning(f) + 4
    BY <1>5, CoveredIs
  <2> QED BY <2>1, <2>2, <2>3
<1> QED BY <1>1, <1>2, <1>3, <1>4, <1>5 DEF w

-----------------------------------------------------------------------------
(* Memory, as the installation has it.  Of a job that is at work, some     *)
(* parts of memory know already: the words of the function (Live), those   *)
(* that a cache may hold (Held), the trampolines (Filled).                 *)
Placing == {"store", "assign", "entry", "callback"}
Up      == IF step \in Placing THEN job ELSE job - 1
Live    == IF step \in Placing /\ (step = "store" => todo = <<>>) THEN job ELSE job - 1
Held    == IF step \in {"assign", "entry", "callback"} THEN job ELSE job - 1
Filled  == IF step \in {"take", "alloc", "move"} THEN job - 1 ELSE job

BackPlaces == RowPlaces \cup {Junk, Undefined}
RowTexts   == {<<>>} \cup UNION {[0..n -> RowWords] : n \in 1..5}

MemoryTypeOK ==
  /\ text \in [Functions -> [0..BodyWords-1 -> CodeWords]]
  /\ seen \in [Functions -> [0..BodyWords-1 -> CodeWords]]
  /\ rows \in [0..HookMax -> RowTexts]
  /\ entries \in [0..EntryMax-1 -> [written : BOOLEAN, callback : 0..Len(Jobs), back : BackPlaces]]
  /\ orig \in [1..Len(Jobs) -> -1..HookMax]

InstallInv ==
  /\ job \in 1..Len(Jobs) + 1 /\ step \in Steps /\ (step # "take" => job <= Len(Jobs))
  /\ step \in {"alloc", "move"} => HasRow(job)
  /\ step = "assign" => ~IsInline(job)
  /\ step \in {"entry", "callback"} => IsInline(job)

\* Pools are filled one after the other.
IndexInv ==
  /\ index = RowOf(job) + (IF step \notin {"take", "alloc"} /\ HasRow(job) THEN 1 ELSE 0)
  /\ index \in 0..HookMax + 1 /\ row \in -1..HookMax
  /\ step \notin {"take", "alloc"} /\ HasRow(job) => row = RowOf(job)
  /\ entryIndex = EntryOf(job) + (IF step # "take" /\ IsInline(job) THEN 1 ELSE 0)
  /\ entryIndex \in 0..EntryMax

\* What the stores made and those still to be made add up to.
StoreInv ==
  step = "store" =>
    /\ \E S : todo \in Seq(S)
    /\ \A m \in 1..Len(todo) : \A i \in DOMAIN todo[m] : todo[m][i] = TextOf(Fn, job)[i]
    /\ \A i \in 0..BodyWords-1 : (\A m \in 1..Len(todo) : i \notin DOMAIN todo[m]) =>
         text[Fn][i] = TextOf(Fn, job)[i]
    /\ Fn \notin Far => Len(todo) <= 1

TextInv ==
  /\ \A f \in Functions :
       (step = "store" /\ todo # <<>> /\ f = Fn /\ f \in Far) \/ text[f] = TextOf(f, Live)
  /\ \A f \in Functions : seen[f] = TextOf(f, Held)

RowInv == \A j \in 1..Filled : HasRow(j) => RowOf(j) \in 0..HookMax /\ rows[RowOf(j)] = TrampolineOf(j)
OrigInv == \A j \in 1..Len(Jobs) : orig[j] = IF j < job /\ Jobs[j].kind = "trampoline" THEN RowOf(j) ELSE -1

EntryInv ==
  /\ \A j \in 1..job-1 : IsInline(j) =>
       /\ EntryOf(j) \in 0..EntryMax-1 /\ entries[EntryOf(j)].written
       /\ entries[EntryOf(j)].callback = j /\ entries[EntryOf(j)].back = BackOf(j)
  /\ step # "take" /\ IsInline(job) =>
       /\ entries[EntryOf(job)].callback = 0
       /\ entries[EntryOf(job)].written <=> step = "callback"
       /\ step = "callback" => entries[EntryOf(job)].back = BackOf(job)
  /\ \A e \in 0..EntryMax-1 : e >= entryIndex => ~entries[e].written /\ entries[e].callback = 0

MemoryInv ==
  aborted \in BOOLEAN /\ MemoryTypeOK /\ InstallInv /\ IndexInv /\ StoreInv /\ TextInv /\ RowInv /\ OrigInv /\ EntryInv

LEMMA MemoryStarts == EngineInit => MemoryInv
<1> SUFFICES ASSUME EngineInit PROVE MemoryInv
  OBVIOUS
<1>1. /\ job = 1 /\ step = "take" /\ row = -1 /\ index = 0 /\ entryIndex = 0 /\ aborted = FALSE
      /\ text = [f \in Functions |-> Body] /\ seen = text
      /\ rows = [r \in 0..HookMax |-> <<>>] /\ orig = [j \in 1..Len(Jobs) |-> -1]
      /\ entries = [e \in 0..EntryMax-1 |-> [written |-> FALSE, callback |-> 0, back |-> Undefined]]
  BY JobsAre DEF EngineInit
<1>2. Body \in [0..BodyWords-1 -> CodeWords]
  BY DEF Body, CodeWords
<1>3. MemoryTypeOK
  BY <1>1, <1>2, JobsAre, SizesAssumption DEF MemoryTypeOK, RowTexts, BackPlaces
<1>4. InstallInv /\ IndexInv
  BY <1>1, JobsAre, NoRows, SizesAssumption DEF InstallInv, IndexInv, Steps
<1>5. TextInv
  <2>1. \A f : TextOf(f, 0) = Body
    BY DEF TextOf, Latest, HooksOf
  <2> QED BY <1>1, <2>1 DEF TextInv, Live, Held, Placing
<1>6. RowInv /\ OrigInv /\ StoreInv
  BY <1>1 DEF RowInv, OrigInv, StoreInv, Filled
<1>8. aborted \in BOOLEAN
  BY <1>1, Zenon
<1>7. EntryInv
  <2>1. \A e \in 0..EntryMax-1 : ~entries[e].written /\ entries[e].callback = 0
    BY <1>1
  <2> QED BY <1>1, <2>1 DEF EntryInv
<1> QED BY <1>3, <1>4, <1>5, <1>6, <1>7, <1>8 DEF MemoryInv

-----------------------------------------------------------------------------
(* The steps of an installation.                                           *)
LEMMA JobAtWork ==
  ASSUME InstallInv, step # "take"
  PROVE  job \in 1..Len(Jobs) /\ Fn = Jobs[job].fn /\ Fn \in Functions /\ Kind = Jobs[job].kind
  BY JobsAre DEF InstallInv, Fn, Kind

LEMMA MemoryStands ==
  ASSUME MemoryInv, aborted' = TRUE \/ aborted' = aborted,
         UNCHANGED <<job, step, todo, row, index, entryIndex, memory>>
  PROVE  MemoryInv'
<1>1. Live' = Live /\ Held' = Held /\ Filled' = Filled /\ Fn' = Fn
  BY DEF Live, Held, Filled, Fn
<1>2. InstallInv' /\ IndexInv'
  BY DEF MemoryInv, InstallInv, IndexInv
<1>3. MemoryTypeOK'
  BY DEF MemoryInv, MemoryTypeOK, memory
<1>4. StoreInv' /\ TextInv'
  BY <1>1 DEF MemoryInv, StoreInv, TextInv, memory
<1>5. RowInv' /\ OrigInv' /\ EntryInv'
  BY <1>1 DEF MemoryInv, RowInv, OrigInv, EntryInv, memory
<1>6. aborted' \in BOOLEAN
  BY DEF MemoryInv
<1> QED BY <1>2, <1>3, <1>4, <1>5, <1>6 DEF MemoryInv

LEMMA TakeKeeps == MemoryInv /\ Take => MemoryInv'
<1> SUFFICES ASSUME MemoryInv, Take PROVE MemoryInv'
  OBVIOUS
<1> USE DEF MemoryInv
<1>0. job \in 1..Len(Jobs) /\ job \in Nat /\ step = "take" /\ Kind = Jobs[job].kind
  BY JobsAre DEF Take, Installing, InstallInv, Kind
<1>1. CASE IsInline(job) /\ PoolFull
  <2>1. aborted' = TRUE /\ UNCHANGED <<job, step, todo, row, index, entryIndex, memory>>
    BY <1>0, <1>1 DEF Take, GiveUpHook, IsInline
  <2> QED BY <2>1, MemoryStands, Zenon
<1>2. CASE ~(IsInline(job) /\ PoolFull)
  <2>1. /\ entryIndex' = IF IsInline(job) THEN entryIndex + 1 ELSE entryIndex
        /\ step' = IF ~HasRow(job) THEN "cover" ELSE "alloc"
        /\ row' = -1 /\ UNCHANGED <<job, todo, index, aborted, text, seen, rows, entries, orig>>
    BY <1>0, <1>2 DEF Take, IsInline, HasRow, memory
  <2>2. InstallInv'
    BY <1>0, <2>1 DEF InstallInv, Steps
  <2>3. IndexInv'
    BY <1>0, <1>2, <2>1, SizesAssumption, RowsAre DEF IndexInv, PoolFull
  <2>4. Live' = Live /\ Held' = Held /\ StoreInv'
    BY <1>0, <2>1 DEF Live, Held, Placing, StoreInv
  <2>5. MemoryTypeOK' /\ TextInv' /\ OrigInv'
    BY <1>0, <2>1, <2>4 DEF MemoryTypeOK, TextInv, OrigInv
  <2>6. RowInv'
    BY <1>0, <2>1 DEF RowInv, Filled
  <2>7. EntryInv'
    <3>1. IsInline(job) => EntryOf(job) = entryIndex /\ entryIndex \in 0..EntryMax-1
      BY <1>0, <1>2, SizesAssumption, RowsAre DEF IndexInv, PoolFull
    <3>2. /\ \A j \in 1..job-1 : IsInline(j) =>
               /\ EntryOf(j) \in 0..EntryMax-1 /\ entries[EntryOf(j)].written
               /\ entries[EntryOf(j)].callback = j /\ entries[EntryOf(j)].back = BackOf(j)
          /\ \A e \in 0..EntryMax-1 : e >= entryIndex => ~entries[e].written /\ entries[e].callback = 0
      BY DEF EntryInv
    <3>3. IsInline(job) => ~entries[EntryOf(job)].written /\ entries[EntryOf(job)].callback = 0
      BY <3>1, <3>2
    <3>4. entryIndex' >= entryIndex /\ entryIndex \in Nat /\ entryIndex' \in Nat
      BY <2>1, SizesAssumption DEF IndexInv
    <3>5. \A e \in 0..EntryMax-1 : e >= entryIndex' => ~entries[e].written /\ entries[e].callback = 0
      BY <3>2, <3>4, SizesAssumption
    <3> QED BY <2>1, <3>2, <3>3, <3>5 DEF EntryInv
  <2> QED BY <2>1, <2>2, <2>3, <2>4, <2>5, <2>6, <2>7
<1> QED BY <1>1, <1>2

LEMMA AllocKeeps == MemoryInv /\ Alloc => MemoryInv'
<1> SUFFICES ASSUME MemoryInv, Alloc PROVE MemoryInv'
  OBVIOUS
<1> USE DEF MemoryInv
<1>0. job \in 1..Len(Jobs) /\ job \in Nat /\ step = "alloc" /\ HasRow(job)
  BY JobsAre DEF Alloc, Installing, InstallInv
<1>1. CASE RowsOut(index)
  <2>1. aborted' = TRUE /\ UNCHANGED <<job, step, todo, row, index, entryIndex, memory>>
    BY <1>0, <1>1 DEF Alloc, GiveUpHook
  <2> QED BY <2>1, MemoryStands, Zenon
<1>2. CASE ~RowsOut(index)
  <2>1. /\ row' = index /\ index' = index + 1 /\ step' = "move"
        /\ UNCHANGED <<job, todo, entryIndex, aborted, text, seen, rows, entries, orig>>
    BY <1>0, <1>2 DEF Alloc, memory
  <2>2. InstallInv'
    BY <1>0, <2>1 DEF InstallInv, Steps
  <2>3. IndexInv'
    <3>1. index = RowOf(job) /\ index \in 0..HookMax /\ entryIndex \in 0..EntryMax
      BY <1>0, <1>2, SizesAssumption, RowsAre DEF IndexInv, RowsOut
    <3>2. index' = RowOf(job) + 1 /\ index' \in 0..HookMax + 1 /\ row' = RowOf(job) /\ row' \in -1..HookMax
      BY <2>1, <3>1, SizesAssumption
    <3> QED BY <1>0, <2>1, <3>1, <3>2 DEF IndexInv
  <2>4. Live' = Live /\ Held' = Held /\ Filled' = Filled /\ StoreInv'
    BY <1>0, <2>1 DEF Live, Held, Filled, Placing, StoreInv
  <2>5. MemoryTypeOK' /\ TextInv' /\ OrigInv' /\ RowInv' /\ EntryInv'
    BY <1>0, <2>1, <2>4 DEF MemoryTypeOK, TextInv, OrigInv, RowInv, EntryInv
  <2> QED BY <2>1, <2>2, <2>3, <2>4, <2>5
<1> QED BY <1>1, <1>2

(* What is moved to a row is what the hooks before have made of the words. *)
LEMMA MoveWordsKeeps == MemoryInv /\ MoveWords => MemoryInv'
<1> SUFFICES ASSUME MemoryInv, MoveWords PROVE MemoryInv'
  OBVIOUS
<1> USE DEF MemoryInv
<1>0. /\ job \in 1..Len(Jobs) /\ job \in Nat /\ step = "move" /\ HasRow(job)
      /\ Fn = Jobs[job].fn /\ Fn \in Functions
  BY JobsAre DEF MoveWords, Installing, InstallInv, Fn
<1>1. /\ rows' = [rows EXCEPT ![row] = Trampoline(Fn)] /\ step' = "cover"
      /\ UNCHANGED <<job, todo, row, index, entryIndex, aborted, text, seen, entries, orig>>
  BY DEF MoveWords
<1>2. row = RowOf(job) /\ row \in 0..HookMax
  BY <1>0, RowsAre, SizesAssumption DEF IndexInv
<1>3. Trampoline(Fn) = TrampolineOf(job)
  <2>1. text[Fn] = TextOf(Fn, job - 1)
    BY <1>0 DEF TextInv, Live, Placing
  <2> QED BY <1>0, <2>1, MovedIs DEF TrampolineOf
<1>4. Trampoline(Fn) \in RowTexts
  <2>0. \A k \in 0..BodyWords-1 : text[Fn][k] \in CodeWords
    <3>1. text[Fn] \in [0..BodyWords-1 -> CodeWords]
      BY <1>0 DEF MemoryTypeOK
    <3> HIDE DEF CodeWords
    <3> QED BY <3>1
  <2>1. ASSUME NEW i \in 0..Covered(Fn) PROVE (IF i < Covered(Fn) THEN Relocated(Fn, i) ELSE Resume(Fn)) \in RowWords
    <3>1. CASE i = Covered(Fn)
      <4>1. Word(Fn, Covered(Fn)) \in Starts
        BY <1>0, CoveredIs DEF Starts
      <4> QED BY <3>1, <4>1, CoveredIs DEF Resume, RowWords
    <3>2. CASE i < Covered(Fn)
      <4>1. text[Fn][i] \in CodeWords
        BY <2>0, <3>2, CoveredIs
      <4>2. Literal(Fn, i + 2) \in Destinations \cup {Junk}
        <5>1. i + 2 + 1 < BodyWords => text[Fn][i + 2] \in CodeWords
          BY <2>0, <3>2, CoveredIs
        <5> QED BY <5>1 DEF Literal, CodeWords
      <4>3. text[Fn][i][1] = "b" => text[Fn][i][2] \in Destinations
        BY <4>1 DEF CodeWords
      <4> QED BY <3>2, <4>1, <4>2, <4>3 DEF Relocated, RowWords
    <3> QED BY <3>1, <3>2, CoveredIs
  <2>2. Trampoline(Fn) \in [0..Covered(Fn) -> RowWords]
    BY <2>1 DEF Trampoline
  <2> QED BY <2>2, CoveredIs DEF RowTexts
<1>5. MemoryTypeOK'
  BY <1>1, <1>2, <1>4 DEF MemoryTypeOK
<1>6. InstallInv' /\ IndexInv'
  BY <1>0, <1>1 DEF InstallInv, IndexInv, Steps
<1>7. Live' = Live /\ Held' = Held /\ StoreInv'
  BY <1>0, <1>1 DEF Live, Held, Placing, StoreInv
<1>8. TextInv' /\ OrigInv' /\ EntryInv'
  BY <1>0, <1>1, <1>7 DEF TextInv, OrigInv, EntryInv
<1>9. RowInv'
  <2>1. rows'[RowOf(job)] = TrampolineOf(job)
    BY <1>1, <1>2, <1>3 DEF MemoryTypeOK
  <2>2. ASSUME NEW j \in 1..job-1, HasRow(j) PROVE RowOf(j) \in 0..HookMax /\ rows'[RowOf(j)] = TrampolineOf(j)
    <3>1. RowOf(j) \in 0..HookMax /\ rows[RowOf(j)] = TrampolineOf(j)
      BY <1>0, <2>2 DEF RowInv, Filled
    <3>2. RowOf(j) # RowOf(job)
      BY <1>0, <2>2, RowsDiffer, RowsAre
    <3> QED BY <1>1, <1>2, <3>1, <3>2 DEF MemoryTypeOK
  <2> QED BY <1>0, <1>1, <1>2, <2>1, <2>2 DEF RowInv, Filled
<1> QED BY <1>1, <1>5, <1>6, <1>7, <1>8, <1>9

(* The stores of a hook write its words, all of them and no others.        *)
LEMMA StoresAre ==
  ASSUME NEW f, NEW d
  PROVE  LET s == Stores(f, d) IN
         /\ \E S : s \in Seq(S)
         /\ s # <<>> /\ (f \notin Far => Len(s) = 1)
         /\ \A m \in 1..Len(s) : \A i \in DOMAIN s[m] : i \in 0..BodyWords-1 /\ s[m][i] = HookText(f, d)[i]
         /\ \A i \in 0..Covered(f)-1 : \E m \in 1..Len(s) : i \in DOMAIN s[m]
<1>1. CASE f \notin Far
  <2> DEFINE a == [i \in {0} |-> <<"b", d>>]
             s == Stores(f, d)
  <2>1. s = <<a>>
    BY <1>1 DEF Stores, NearHook
  <2>2. DOMAIN a = {0} /\ a[0] = <<"b", d>>
    OBVIOUS
  <2>3. HookText(f, d)[0] = <<"b", d>> /\ 0 \in 0..BodyWords-1 /\ Covered(f) = 1
    BY <1>1, CoveredIs DEF HookText, NearText
  <2> HIDE DEF a, s
  <2>4. s \in Seq({a}) /\ Len(s) = 1 /\ s[1] = a
    BY <2>1
  <2>5. \A m \in 1..Len(s) : s[m] = a
    BY <2>4
  <2>6. \A i \in 0..Covered(f)-1 : i = 0
    BY <2>3
  <2> QED BY <2>2, <2>3, <2>4, <2>5, <2>6 DEF s
<1>2. CASE f \in Far
  <2> DEFINE o == Covered(f) - 4
             n == [i \in {0} |-> <<"nop", 0>>]
             a == [i \in {o} |-> <<"ldr", 0>>]
             b == [i \in {o + 1} |-> <<"br", 0>>]
             c == [i \in {o + 2, o + 3} |-> IF i = o + 2 THEN <<"low", d>> ELSE <<"high", d>>]
             s == Stores(f, d)
  <2>1. s = (IF o = 1 THEN <<n>> ELSE <<>>) \o <<a, b, c>>
    BY <1>2 DEF Stores, FarHook
  <2>2. o \in {0, 1} /\ o = Aligning(f) /\ Covered(f) = o + 4 /\ o + 3 < BodyWords /\ BodyWords \in Nat
    BY <1>2, CoveredIs DEF Aligning
  <2>3. /\ DOMAIN n = {0} /\ n[0] = <<"nop", 0>> /\ DOMAIN a = {o} /\ a[o] = <<"ldr", 0>>
        /\ DOMAIN b = {o + 1} /\ b[o + 1] = <<"br", 0>> /\ DOMAIN c = {o + 2, o + 3}
        /\ c[o + 2] = <<"low", d>> /\ c[o + 3] = <<"high", d>>
    BY <2>2
  <2>4. HookText(f, d) = FarText(f, d)
    BY <1>2 DEF HookText
  <2>5. /\ o = 1 => HookText(f, d)[0] = <<"nop", 0>>
        /\ HookText(f, d)[o] = <<"ldr", 0>> /\ HookText(f, d)[o + 1] = <<"br", 0>>
        /\ HookText(f, d)[o + 2] = <<"low", d>> /\ HookText(f, d)[o + 3] = <<"high", d>>
    <3> HIDE DEF o
    <3>1. o = Aligning(f)
      BY <2>2
    <3> QED BY <1>2, <2>4, <3>1, FarTextIs
  <2> HIDE DEF o, n, a, b, c, s
  <2>6. /\ \A i \in DOMAIN a \cup DOMAIN b \cup DOMAIN c : i \in 0..BodyWords-1
        /\ \A i \in DOMAIN a : a[i] = HookText(f, d)[i]
        /\ \A i \in DOMAIN b : b[i] = HookText(f, d)[i]
        /\ \A i \in DOMAIN c : c[i] = HookText(f, d)[i]
    BY <2>2, <2>3, <2>5
  <2>7. CASE o = 0
    <3>1. s = <<a, b, c>>
      BY <2>1, <2>7
    <3>2. s \in Seq({a, b, c}) /\ Len(s) = 3 /\ s[1] = a /\ s[2] = b /\ s[3] = c
      BY <3>1
    <3>3. \A m \in 1..Len(s) : s[m] = a \/ s[m] = b \/ s[m] = c
      BY <3>2
    <3>4. ASSUME NEW i \in 0..Covered(f)-1 PROVE \E m \in 1..Len(s) : i \in DOMAIN s[m]
      <4>1. i = 0 \/ i = 1 \/ i = 2 \/ i = 3
        BY <2>2, <2>7
      <4> QED BY <2>3, <2>7, <3>2, <4>1
    <3>5. ASSUME NEW m \in 1..Len(s), NEW i \in DOMAIN s[m] PROVE i \in 0..BodyWords-1 /\ s[m][i] = HookText(f, d)[i]
      BY <2>6, <3>3
    <3>6. s # <<>> /\ \E S : s \in Seq(S)
      <4>1. Len(s) # Len(<<>>)
        BY <3>2
      <4> QED BY <3>2, <4>1
    <3>7. \A i \in 0..Covered(f)-1 : \E m \in 1..Len(s) : i \in DOMAIN s[m]
      BY <3>4
    <3>8. \A m \in 1..Len(s) : \A i \in DOMAIN s[m] : i \in 0..BodyWords-1 /\ s[m][i] = HookText(f, d)[i]
      BY <3>5
    <3> QED BY <1>2, <3>6, <3>7, <3>8 DEF s
  <2>8. CASE o = 1
    <3>1. s = <<n>> \o <<a, b, c>>
      BY <2>1, <2>8
    <3>2. s \in Seq({n, a, b, c}) /\ Len(s) = 4 /\ s[1] = n /\ s[2] = a /\ s[3] = b /\ s[4] = c
      BY <3>1
    <3>3. \A m \in 1..Len(s) : s[m] = n \/ s[m] = a \/ s[m] = b \/ s[m] = c
      BY <3>2
    <3>4. ASSUME NEW i \in 0..Covered(f)-1 PROVE \E m \in 1..Len(s) : i \in DOMAIN s[m]
      <4>1. i = 0 \/ i = 1 \/ i = 2 \/ i = 3 \/ i = 4
        BY <2>2, <2>8
      <4> QED BY <2>3, <2>8, <3>2, <4>1
    <3>5. \A i \in DOMAIN n : i \in 0..BodyWords-1 /\ n[i] = HookText(f, d)[i]
      BY <2>2, <2>3, <2>5, <2>8
    <3>6. ASSUME NEW m \in 1..Len(s), NEW i \in DOMAIN s[m] PROVE i \in 0..BodyWords-1 /\ s[m][i] = HookText(f, d)[i]
      BY <2>6, <3>3, <3>5
    <3>7. s # <<>>
      BY <3>2
    <3> QED BY <1>2, <3>2, <3>4, <3>6, <3>7 DEF s
  <2> QED BY <2>2, <2>7, <2>8
<1> QED BY <1>1, <1>2

LEMMA CoverKeeps == MemoryInv /\ Cover => MemoryInv'
<1> SUFFICES ASSUME MemoryInv, Cover PROVE MemoryInv'
  OBVIOUS
<1> USE DEF MemoryInv
<1>0. /\ job \in 1..Len(Jobs) /\ job \in Nat /\ step = "cover"
      /\ Fn = Jobs[job].fn /\ Fn \in Functions /\ Kind = Jobs[job].kind
  BY JobsAre DEF Cover, Installing, InstallInv, Fn, Kind
<1>1. /\ todo' = Stores(Fn, Dest) /\ step' = "store" /\ Fn' = Fn
      /\ UNCHANGED <<job, row, index, entryIndex, aborted, text, seen, rows, entries, orig>>
  BY DEF Cover, memory, Fn
<1>2. Dest = DestOf(job)
  BY <1>0, RowsAre DEF IndexInv, Dest, DestOf, Taken, IsInline
<1>3. TextOf(Fn, job) = HookText(Fn, Dest)
  BY <1>0, <1>2, LatestStep DEF TextOf
<1>4. text[Fn] = TextOf(Fn, job - 1)
  BY <1>0 DEF TextInv, Live, Placing
<1>5. StoreInv'
  <2> DEFINE s == Stores(Fn, Dest)
  <2>1. \A m \in 1..Len(s) : \A i \in DOMAIN s[m] : s[m][i] = TextOf(Fn, job)[i]
    BY <1>3, StoresAre
  <2>2. ASSUME NEW i \in 0..BodyWords-1, \A m \in 1..Len(s) : i \notin DOMAIN s[m]
        PROVE  text[Fn][i] = TextOf(Fn, job)[i]
    <3>1. i \notin 0..Covered(Fn)-1
      BY <2>2, StoresAre
    <3>2. i \in Covered(Fn)..BodyWords-1
      BY <3>1, CoveredIs
    <3> QED BY <1>4, <3>2, TextIs
  <2>3. \E S : s \in Seq(S)
    BY StoresAre
  <2>4. ASSUME Fn \notin Far PROVE Len(s) <= 1
    <3>1. Len(s) = 1
      BY <2>4, StoresAre
    <3> HIDE DEF s
    <3> QED BY <3>1
  <2> HIDE DEF s
  <2>5. todo' = s
    BY <1>1 DEF s
  <2> QED BY <1>1, <2>1, <2>2, <2>3, <2>4, <2>5 DEF StoreInv
<1>6. Stores(Fn, Dest) # <<>>
  BY StoresAre
<1>7. Live' = Live /\ Held' = Held /\ Filled' = Filled
  BY <1>0, <1>1, <1>6 DEF Live, Held, Filled, Placing
<1>8. InstallInv' /\ IndexInv' /\ MemoryTypeOK' /\ aborted' \in BOOLEAN
  BY <1>0, <1>1 DEF InstallInv, IndexInv, Steps, MemoryTypeOK
<1>9. TextInv' /\ OrigInv' /\ RowInv' /\ EntryInv'
  BY <1>0, <1>1, <1>7 DEF TextInv, OrigInv, RowInv, EntryInv
<1> QED BY <1>5, <1>8, <1>9

(* A hook leaves the words of other functions as they are.                 *)
LEMMA OthersKeep ==
  ASSUME NEW j \in 1..Len(Jobs), NEW f, Jobs[j].fn # f
  PROVE  TextOf(f, j) = TextOf(f, j - 1)
  BY LatestStep DEF TextOf

LEMMA WordsAre ==
  ASSUME NEW f, NEW n, Latest(f, n) # 0 => DestOf(Latest(f, n)) \in Destinations
  PROVE  TextOf(f, n) \in [0..BodyWords-1 -> CodeWords]
<1> DEFINE d == DestOf(Latest(f, n))
<1>1. \A i \in 0..BodyWords-1 : <<"insn", i>> \in CodeWords
  BY DEF CodeWords
<1>2. ASSUME Latest(f, n) # 0
      PROVE  {<<"nop", 0>>, <<"ldr", 0>>, <<"br", 0>>, <<"b", d>>, <<"low", d>>, <<"high", d>>} \subseteq CodeWords
  BY <1>2 DEF CodeWords
<1> HIDE DEF CodeWords
<1>3. CASE Latest(f, n) = 0
  BY <1>1, <1>3 DEF TextOf, Body
<1>4. CASE Latest(f, n) # 0 /\ f \notin Far
  BY <1>1, <1>2, <1>4 DEF TextOf, HookText, NearText
<1>5. CASE Latest(f, n) # 0 /\ f \in Far
  <2>1. \A i \in 0..BodyWords-1 : FarText(f, d)[i] \in CodeWords
    BY <1>1, <1>2, <1>5 DEF FarText
  <2>2. FarText(f, d) \in [0..BodyWords-1 -> CodeWords]
    BY <2>1 DEF FarText
  <2> QED BY <1>5, <2>2 DEF TextOf, HookText
<1> QED BY <1>3, <1>4, <1>5

LEMMA SameFunction ==
  ASSUME NEW S, NEW T, NEW a \in [S -> T], NEW b \in [S -> T], \A i \in S : a[i] = b[i]
  PROVE  a = b
  OBVIOUS

(* Each store brings words of the hook; with the last one all are there.   *)
LEMMA StoreKeeps == MemoryInv /\ Store => MemoryInv'
<1> SUFFICES ASSUME MemoryInv, Store PROVE MemoryInv'
  OBVIOUS
<1> USE DEF MemoryInv
<1> DEFINE h == Head(todo)
           g == [i \in 0..BodyWords-1 |-> IF i \in DOMAIN h THEN h[i] ELSE text[Fn][i]]
<1>0. /\ job \in 1..Len(Jobs) /\ job \in Nat /\ step = "store" /\ todo # <<>>
      /\ Fn = Jobs[job].fn /\ Fn \in Functions
  BY JobsAre DEF Store, Installing, InstallInv, Fn
<1>1. /\ text' = [text EXCEPT ![Fn] = g] /\ todo' = Tail(todo) /\ Fn' = Fn
      /\ UNCHANGED <<job, step, row, index, entryIndex, aborted, seen, rows, entries, orig>>
  BY <1>0 DEF Store, Fn, MemoryTypeOK
<1>2. /\ h = todo[1] /\ Len(todo) \in Nat /\ Len(todo) >= 1
      /\ \E S : Tail(todo) \in Seq(S)
      /\ Len(Tail(todo)) = Len(todo) - 1 /\ \A m \in 1..Len(todo)-1 : Tail(todo)[m] = todo[m+1]
  <2>1. PICK S : todo \in Seq(S)
    BY <1>0 DEF StoreInv
  <2> QED BY <1>0, <2>1
<1>3. /\ \A m \in 1..Len(todo) : \A i \in DOMAIN todo[m] : todo[m][i] = TextOf(Fn, job)[i]
      /\ \A i \in 0..BodyWords-1 : (\A m \in 1..Len(todo) : i \notin DOMAIN todo[m]) =>
           text[Fn][i] = TextOf(Fn, job)[i]
      /\ Fn \notin Far => Len(todo) <= 1
  BY <1>0 DEF StoreInv
<1>4. \A i \in DOMAIN h : h[i] = TextOf(Fn, job)[i]
  BY <1>2, <1>3
<1>5. text'[Fn] = g /\ \A f \in Functions : f # Fn => text'[f] = text[f]
  BY <1>0, <1>1 DEF MemoryTypeOK
<1> HIDE DEF h
<1>6. StoreInv'
  <2>1. ASSUME NEW m \in 1..Len(todo)-1, NEW i \in DOMAIN Tail(todo)[m]
        PROVE  Tail(todo)[m][i] = TextOf(Fn, job)[i]
    <3>1. m + 1 \in 1..Len(todo) /\ Tail(todo)[m] = todo[m+1]
      BY <1>2
    <3> QED BY <1>3, <2>1, <3>1
  <2>2. ASSUME NEW i \in 0..BodyWords-1, \A m \in 1..Len(todo)-1 : i \notin DOMAIN Tail(todo)[m]
        PROVE  g[i] = TextOf(Fn, job)[i]
    <3>1. CASE i \in DOMAIN h
      BY <1>4, <3>1
    <3>2. CASE i \notin DOMAIN h
      <4>1. ASSUME NEW m \in 1..Len(todo) PROVE i \notin DOMAIN todo[m]
        <5>1. CASE m = 1
          BY <1>2, <3>2, <5>1
        <5>2. CASE m # 1
          <6>1. m - 1 \in 1..Len(todo)-1 /\ (m - 1) + 1 = m
            BY <1>2, <5>2
          <6> QED BY <1>2, <2>2, <6>1
        <5> QED BY <5>1, <5>2
      <4> QED BY <1>3, <3>2, <4>1
    <3> QED BY <3>1, <3>2
  <2>3. ASSUME Fn \notin Far PROVE Len(Tail(todo)) <= 1
    BY <1>2, <1>3, <2>3
  <2> HIDE DEF g
  <2> QED BY <1>0, <1>1, <1>2, <1>5, <2>1, <2>2, <2>3 DEF StoreInv
<1>12. TextOf(Fn, job) \in [0..BodyWords-1 -> CodeWords]
  <2>1. Latest(Fn, job) = job
    BY <1>0, LatestStep
  <2>2. DestOf(job) \in Destinations
    BY <1>0, DestIs, RowsAre, SizesAssumption DEF IndexInv
  <2> QED BY <2>1, <2>2, WordsAre
<1>7. text' \in [Functions -> [0..BodyWords-1 -> CodeWords]]
  <2>3. TextOf(Fn, job) \in [0..BodyWords-1 -> CodeWords] /\ text[Fn] \in [0..BodyWords-1 -> CodeWords]
    BY <1>0, <1>12 DEF MemoryTypeOK
  <2> HIDE DEF CodeWords
  <2>4. g \in [0..BodyWords-1 -> CodeWords]
    BY <1>4, <2>3
  <2> HIDE DEF g
  <2> QED BY <1>0, <1>1, <2>4 DEF MemoryTypeOK
<1>8. TextInv'
  <2>1. ASSUME NEW f \in Functions, f # Fn PROVE text'[f] = TextOf(f, Live')
    <3>1. text[f] = TextOf(f, job - 1) /\ TextOf(f, job) = TextOf(f, job - 1)
      BY <1>0, <2>1, OthersKeep DEF TextInv, Live
    <3> QED BY <1>0, <1>1, <1>5, <2>1, <3>1 DEF Live
  <2>2. ASSUME todo' = <<>> PROVE text'[Fn] = TextOf(Fn, Live')
    <3>1. Live' = job
      BY <1>0, <1>1, <2>2 DEF Live, Placing
    <3>2. \A m \in 1..Len(todo') : FALSE
      <4>1. Len(todo') = 0
        BY <2>2
      <4> HIDE <2>2
      <4> QED BY <4>1
    <3>3. \A i \in 0..BodyWords-1 : text'[Fn][i] = TextOf(Fn, job)[i]
      BY <1>0, <1>1, <1>6, <3>2 DEF StoreInv
    <3>4. text'[Fn] \in [0..BodyWords-1 -> CodeWords] /\ TextOf(Fn, job) \in [0..BodyWords-1 -> CodeWords]
      BY <1>0, <1>7, <1>12
    <3>6. text'[Fn] = TextOf(Fn, job)
      <4> DEFINE a == text'[Fn]
                 b == TextOf(Fn, job)
                 S == 0..BodyWords-1
      <4>1. a \in [S -> CodeWords] /\ b \in [S -> CodeWords] /\ \A i \in S : a[i] = b[i]
        BY <3>3, <3>4
      <4> HIDE DEF a, b, S
      <4>2. a = b
        BY <4>1, SameFunction
      <4> QED BY <4>2 DEF a, b
    <3> QED BY <1>5, <3>1, <3>6
  <2>3. ASSUME Fn \notin Far PROVE todo' = <<>>
    BY <1>1, <1>2, <1>3, <2>3
  <2>4. \A f \in Functions : seen'[f] = TextOf(f, Held')
    BY <1>0, <1>1 DEF TextInv, Held
  <2> QED BY <1>0, <1>1, <2>1, <2>2, <2>3, <2>4 DEF TextInv
<1>9. Filled' = Filled
  BY <1>1 DEF Filled
<1>10. InstallInv' /\ IndexInv' /\ RowInv' /\ OrigInv' /\ EntryInv'
  BY <1>0, <1>1, <1>9 DEF InstallInv, IndexInv, RowInv, OrigInv, EntryInv
<1>11. MemoryTypeOK' /\ aborted' \in BOOLEAN
  BY <1>1, <1>7 DEF MemoryTypeOK
<1> QED BY <1>6, <1>8, <1>10, <1>11

(* With the flush, no cache holds what was there before.                   *)
LEMMA FlushKeeps == MemoryInv /\ Flush => MemoryInv'
<1> SUFFICES ASSUME MemoryInv, Flush PROVE MemoryInv'
  OBVIOUS
<1> USE DEF MemoryInv
<1>0. /\ job \in 1..Len(Jobs) /\ job \in Nat /\ step = "store" /\ todo = <<>>
      /\ Fn = Jobs[job].fn /\ Fn \in Functions /\ Kind = Jobs[job].kind
  BY JobsAre DEF Flush, Installing, InstallInv, Fn, Kind
<1>1. /\ seen' = [seen EXCEPT ![Fn] = text[Fn]] /\ step' = IF IsInline(job) THEN "entry" ELSE "assign"
      /\ UNCHANGED <<job, todo, row, index, entryIndex, aborted, text, rows, entries, orig>> /\ Fn' = Fn
  BY <1>0 DEF Flush, Flushed, IsInline, Fn
<1>2. Live = job /\ Live' = job /\ Held' = job /\ Filled' = Filled
  BY <1>0, <1>1 DEF Live, Held, Filled, Placing
<1>3. text[Fn] = TextOf(Fn, job)
  BY <1>0, <1>2 DEF TextInv
<1>4. ASSUME NEW f \in Functions PROVE seen'[f] = TextOf(f, job)
  <2>1. CASE f = Fn
    BY <1>0, <1>1, <1>3, <2>1 DEF MemoryTypeOK
  <2>2. CASE f # Fn
    <3>1. seen[f] = TextOf(f, job - 1)
      BY <1>0 DEF TextInv, Held
    <3>2. TextOf(f, job) = TextOf(f, job - 1)
      BY <1>0, <2>2, OthersKeep
    <3> QED BY <1>0, <1>1, <2>2, <3>1, <3>2 DEF MemoryTypeOK
  <2> QED BY <2>1, <2>2
<1>5. TextInv'
  BY <1>0, <1>1, <1>2, <1>4 DEF TextInv
<1>6. InstallInv' /\ IndexInv' /\ StoreInv'
  BY <1>0, <1>1 DEF InstallInv, IndexInv, StoreInv, Steps
<1>7. seen' \in [Functions -> [0..BodyWords-1 -> CodeWords]]
  <2>1. text[Fn] \in [0..BodyWords-1 -> CodeWords]
    BY <1>0 DEF MemoryTypeOK
  <2> HIDE DEF CodeWords
  <2> QED BY <1>0, <1>1, <2>1 DEF MemoryTypeOK
<1>8. MemoryTypeOK' /\ RowInv' /\ OrigInv' /\ EntryInv'
  BY <1>0, <1>1, <1>2, <1>7 DEF MemoryTypeOK, RowInv, OrigInv, EntryInv
<1>9. aborted' \in BOOLEAN
  BY <1>1
<1> QED BY <1>5, <1>6, <1>8, <1>9

LEMMA AssignKeeps == MemoryInv /\ Assign => MemoryInv'
<1> SUFFICES ASSUME MemoryInv, Assign PROVE MemoryInv'
  OBVIOUS
<1> USE DEF MemoryInv
<1>0. /\ job \in 1..Len(Jobs) /\ job \in Nat /\ Len(Jobs) \in Nat /\ step = "assign" /\ ~IsInline(job)
      /\ Kind = Jobs[job].kind
  BY JobsAre DEF Assign, Installing, InstallInv, Kind
<1>1. /\ orig' = IF Jobs[job].kind = "trampoline" THEN [orig EXCEPT ![job] = row] ELSE orig
      /\ job' = job + 1 /\ step' = "take"
      /\ UNCHANGED <<todo, row, index, entryIndex, aborted, text, seen, rows, entries>>
  BY <1>0 DEF Assign, OrigAssigned
<1>2. Live = job /\ Live' = job /\ Held = job /\ Held' = job /\ Filled = job /\ Filled' = job
  BY <1>0, <1>1 DEF Live, Held, Filled, Placing
<1>3. HasRow(job) => row = RowOf(job)
  BY <1>0 DEF IndexInv
<1>4. InstallInv'
  BY <1>0, <1>1 DEF InstallInv, Steps
<1>5. IndexInv'
  BY <1>0, <1>1, RowsAre DEF IndexInv
<1>6. TextInv' /\ RowInv' /\ StoreInv'
  BY <1>0, <1>1, <1>2 DEF TextInv, RowInv, StoreInv
<1>7. OrigInv'
  BY <1>0, <1>1, <1>3 DEF OrigInv, MemoryTypeOK, HasRow
<1>8. EntryInv'
  <2>1. \A j \in 1..job'-1 : j \in 1..job-1 \/ j = job
    BY <1>0, <1>1
  <2> QED BY <1>0, <1>1, <2>1 DEF EntryInv
<1>9. orig' \in [1..Len(Jobs) -> -1..HookMax]
  BY <1>0, <1>1 DEF MemoryTypeOK, IndexInv
<1>10. MemoryTypeOK' /\ aborted' \in BOOLEAN
  BY <1>1, <1>9 DEF MemoryTypeOK
<1> QED BY <1>4, <1>5, <1>6, <1>7, <1>8, <1>10

(* The entry of an inline hook that is at work is the one it took.         *)
LEMMA EntryTaken ==
  ASSUME IndexInv, job \in 1..Len(Jobs), IsInline(job), step # "take"
  PROVE  /\ Taken = EntryOf(job) /\ EntryOf(job) \in 0..EntryMax-1 /\ entryIndex = EntryOf(job) + 1
         /\ \A j \in 1..job-1 : IsInline(j) => EntryOf(j) < EntryOf(job)
<1>1. entryIndex = EntryOf(job) + 1 /\ EntryOf(job) \in Nat /\ entryIndex \in 0..EntryMax
  BY RowsAre DEF IndexInv
<1>2. job \in Nat /\ Len(Jobs) \in Nat /\ EntryMax \in Nat
  BY JobsAre, SizesAssumption
<1>3. \A j \in 1..job-1 : IsInline(j) => EntryOf(j) < EntryOf(job)
  BY <1>2, RowsDiffer
<1> QED BY <1>1, <1>2, <1>3 DEF Taken

LEMMA WriteEntryKeeps == MemoryInv /\ WriteEntry => MemoryInv'
<1> SUFFICES ASSUME MemoryInv, WriteEntry PROVE MemoryInv'
  OBVIOUS
<1> USE DEF MemoryInv
<1>0. job \in 1..Len(Jobs) /\ job \in Nat /\ step = "entry" /\ IsInline(job) /\ HasRow(job)
  BY JobsAre DEF WriteEntry, Installing, InstallInv, IsInline, HasRow
<1>1. /\ entries' = [entries EXCEPT ![Taken] = [@ EXCEPT !.written = TRUE, !.back = EntryBranch(row)]]
      /\ step' = "callback"
      /\ UNCHANGED <<job, todo, row, index, entryIndex, aborted, text, seen, rows, orig>>
  BY DEF WriteEntry
<1> DEFINE e == EntryOf(job)
<1>2. Taken = e /\ e \in 0..EntryMax-1 /\ entryIndex = e + 1 /\ \A j \in 1..job-1 : IsInline(j) => EntryOf(j) < e
  BY <1>0, EntryTaken
<1>3. EntryBranch(row) = BackOf(job)
  <2>1. row = RowOf(job)
    BY <1>0 DEF IndexInv
  <2>2. rows[RowOf(job)] = TrampolineOf(job)
    BY <1>0 DEF RowInv, Filled
  <2> QED BY <2>1, <2>2 DEF EntryBranch, BackOf
<1>4. BackOf(job) \in BackPlaces
  <2>1. RowOf(job) \in 0..HookMax
    BY <1>0 DEF RowInv, Filled
  <2> QED BY <2>1 DEF BackOf, BackPlaces, RowPlaces
<1>5. entries[e].written = FALSE /\ entries[e].callback = 0
  <2>1. entries[e].written \in BOOLEAN
    BY <1>2 DEF MemoryTypeOK
  <2>2. ~entries[e].written /\ entries[e].callback = 0
    BY <1>0 DEF EntryInv
  <2> QED BY <2>1, <2>2
<1> HIDE DEF e
<1>6. /\ entries'[e].written = TRUE /\ entries'[e].back = BackOf(job) /\ entries'[e].callback = 0
      /\ \A k \in 0..EntryMax-1 : k # e => entries'[k] = entries[k]
      /\ entries' \in [0..EntryMax-1 -> [written : BOOLEAN, callback : 0..Len(Jobs), back : BackPlaces]]
  <2> DEFINE E == [written : BOOLEAN, callback : 0..Len(Jobs), back : BackPlaces]
             w == [[entries[e] EXCEPT !.written = TRUE] EXCEPT !.back = BackOf(job)]
  <2> HIDE DEF BackPlaces
  <2>1. entries \in [0..EntryMax-1 -> E]
    BY DEF MemoryTypeOK
  <2>2. w \in E /\ w.written = TRUE /\ w.back = BackOf(job) /\ w.callback = entries[e].callback
    BY <1>2, <1>4, <2>1
  <2>3. entries' = [entries EXCEPT ![e] = w]
    BY <1>1, <1>2, <1>3, <2>1
  <2> HIDE DEF E, w
  <2>4. entries'[e] = w /\ entries' \in [0..EntryMax-1 -> E] /\ \A k \in 0..EntryMax-1 : k # e => entries'[k] = entries[k]
    BY <1>2, <2>1, <2>2, <2>3
  <2> QED BY <1>5, <2>2, <2>4 DEF E
<1>7. EntryInv'
  <2>1. ASSUME NEW j \in 1..job-1, IsInline(j)
        PROVE  /\ EntryOf(j) \in 0..EntryMax-1 /\ entries'[EntryOf(j)].written
               /\ entries'[EntryOf(j)].callback = j /\ entries'[EntryOf(j)].back = BackOf(j)
    <3>1. /\ EntryOf(j) \in 0..EntryMax-1 /\ entries[EntryOf(j)].written
          /\ entries[EntryOf(j)].callback = j /\ entries[EntryOf(j)].back = BackOf(j)
      BY <2>1 DEF EntryInv
    <3>2. EntryOf(j) # e
      BY <1>2, <2>1, <3>1, SizesAssumption
    <3> QED BY <1>6, <3>1, <3>2
  <2>2. ASSUME NEW k \in 0..EntryMax-1, k >= entryIndex PROVE ~entries'[k].written /\ entries'[k].callback = 0
    <3>1. ~entries[k].written /\ entries[k].callback = 0
      BY <2>2 DEF EntryInv
    <3>2. k # e
      BY <1>2, <2>2, SizesAssumption
    <3> QED BY <1>6, <3>1, <3>2
  <2> QED BY <1>1, <1>6, <2>1, <2>2 DEF EntryInv, e
<1>8. Live' = Live /\ Held' = Held /\ Filled' = Filled
  BY <1>0, <1>1 DEF Live, Held, Filled, Placing
<1>9. InstallInv' /\ IndexInv' /\ StoreInv'
  BY <1>0, <1>1 DEF InstallInv, IndexInv, StoreInv, Steps
<1>10. MemoryTypeOK' /\ aborted' \in BOOLEAN
  BY <1>1, <1>6 DEF MemoryTypeOK
<1>11. TextInv' /\ RowInv' /\ OrigInv'
  BY <1>0, <1>1, <1>8 DEF TextInv, RowInv, OrigInv
<1> QED BY <1>7, <1>9, <1>10, <1>11

LEMMA WriteCallbackKeeps == MemoryInv /\ WriteCallback => MemoryInv'
<1> SUFFICES ASSUME MemoryInv, WriteCallback PROVE MemoryInv'
  OBVIOUS
<1> USE DEF MemoryInv
<1>0. /\ job \in 1..Len(Jobs) /\ job \in Nat /\ Len(Jobs) \in Nat /\ step = "callback"
      /\ IsInline(job) /\ HasRow(job) /\ Jobs[job].kind # "trampoline"
  BY JobsAre DEF WriteCallback, Installing, InstallInv, IsInline, HasRow
<1>1. /\ entries' = [entries EXCEPT ![Taken].callback = job] /\ job' = job + 1 /\ step' = "take"
      /\ UNCHANGED <<todo, row, index, entryIndex, aborted, text, seen, rows, orig>>
  BY DEF WriteCallback
<1> DEFINE e == EntryOf(job)
<1>2. Taken = e /\ e \in 0..EntryMax-1 /\ entryIndex = e + 1 /\ \A j \in 1..job-1 : IsInline(j) => EntryOf(j) < e
  BY <1>0, EntryTaken
<1>3. entries[e].written /\ entries[e].back = BackOf(job)
  BY <1>0 DEF EntryInv
<1> HIDE DEF e
<1>4. /\ entries'[e].written = entries[e].written /\ entries'[e].back = entries[e].back /\ entries'[e].callback = job
      /\ \A k \in 0..EntryMax-1 : k # e => entries'[k] = entries[k]
      /\ entries' \in [0..EntryMax-1 -> [written : BOOLEAN, callback : 0..Len(Jobs), back : BackPlaces]]
  <2> DEFINE E == [written : BOOLEAN, callback : 0..Len(Jobs), back : BackPlaces]
             w == [entries[e] EXCEPT !.callback = job]
  <2> HIDE DEF BackPlaces
  <2>1. entries \in [0..EntryMax-1 -> E]
    BY DEF MemoryTypeOK
  <2>2. w \in E /\ w.written = entries[e].written /\ w.back = entries[e].back /\ w.callback = job
    BY <1>0, <1>2, <2>1
  <2>3. entries' = [entries EXCEPT ![e] = w]
    BY <1>1, <1>2, <2>1
  <2> HIDE DEF E, w
  <2>4. entries'[e] = w /\ entries' \in [0..EntryMax-1 -> E] /\ \A k \in 0..EntryMax-1 : k # e => entries'[k] = entries[k]
    BY <1>2, <2>1, <2>2, <2>3
  <2> QED BY <2>2, <2>4 DEF E
<1>7. EntryInv'
  <2>1. ASSUME NEW j \in 1..job, IsInline(j)
        PROVE  /\ EntryOf(j) \in 0..EntryMax-1 /\ entries'[EntryOf(j)].written
               /\ entries'[EntryOf(j)].callback = j /\ entries'[EntryOf(j)].back = BackOf(j)
    <3>1. CASE j = job
      <4>1. EntryOf(j) = e
        BY <3>1 DEF e
      <4>2. entries'[e].written
        BY <1>3, <1>4
      <4> QED BY <1>2, <1>3, <1>4, <3>1, <4>1, <4>2
    <3>2. CASE j # job
      <4>0. j \in 1..job-1
        BY <1>0, <3>2
      <4>1. /\ EntryOf(j) \in 0..EntryMax-1 /\ entries[EntryOf(j)].written
            /\ entries[EntryOf(j)].callback = j /\ entries[EntryOf(j)].back = BackOf(j)
        BY <2>1, <4>0 DEF EntryInv
      <4>2. EntryOf(j) # e
        BY <1>2, <2>1, <4>0, <4>1, SizesAssumption
      <4> QED BY <1>4, <4>1, <4>2
    <3> QED BY <3>1, <3>2
  <2>2. ASSUME NEW k \in 0..EntryMax-1, k >= entryIndex PROVE ~entries'[k].written /\ entries'[k].callback = 0
    <3>1. ~entries[k].written /\ entries[k].callback = 0
      BY <2>2 DEF EntryInv
    <3>2. k # e
      BY <1>2, <2>2, SizesAssumption
    <3> QED BY <1>4, <3>1, <3>2
  <2>3. job' - 1 = job /\ step' = "take" /\ entryIndex' = entryIndex
    BY <1>0, <1>1
  <2> QED BY <2>1, <2>2, <2>3 DEF EntryInv
<1>8. Live = job /\ Live' = job /\ Held = job /\ Held' = job /\ Filled = job /\ Filled' = job
  BY <1>0, <1>1 DEF Live, Held, Filled, Placing
<1>9. InstallInv' /\ StoreInv'
  BY <1>0, <1>1 DEF InstallInv, StoreInv, Steps
<1>12. IndexInv'
  BY <1>0, <1>1, RowsAre DEF IndexInv
<1>10. MemoryTypeOK' /\ aborted' \in BOOLEAN
  BY <1>1, <1>4 DEF MemoryTypeOK
<1>11. TextInv' /\ RowInv' /\ OrigInv'
  BY <1>0, <1>1, <1>8 DEF TextInv, RowInv, OrigInv
<1> QED BY <1>7, <1>9, <1>10, <1>11, <1>12

(* No thread writes what an installation does.                             *)
LEMMA MemoryKept == MemoryInv /\ (Install \/ UNCHANGED <<install, memory>>) => MemoryInv'
<1>1. MemoryInv /\ UNCHANGED <<install, memory>> => MemoryInv'
  BY MemoryStands DEF install
<1> QED BY <1>1, TakeKeeps, AllocKeeps, MoveWordsKeeps, CoverKeeps, StoreKeeps, FlushKeeps, AssignKeeps,
           WriteEntryKeeps, WriteCallbackKeeps DEF Install

-----------------------------------------------------------------------------
(* Where a call is says what it has yet to run: the rest of the body, the  *)
(* header of a hook, a hook's callback or entry, or words that were moved. *)
(* The first n hooks are complete and the first u may have been met.       *)
Toward(f, i, x, d) == i \in 0..Aligning(f) + 1 /\ (i = Aligning(f) + 1 => x = d)

InBody(p, f, n, S) ==
  \E i \in 0..BodyWords-1 :
    p = Word(f, i) /\ S = Rest(i) /\ (i >= Covered(f) \/ (f \in Far /\ Latest(f, n) = 0))
InHeader(p, x, f, n, S) ==
  /\ f \in Far /\ Latest(f, n) # 0 /\ S = Expected(f, Latest(f, n))
  /\ \E i \in 0..BodyWords-1 : p = Word(f, i) /\ Toward(f, i, x, DestOf(Latest(f, n)))
InHook(p, f, u, S) ==
  \E j \in 1..u :
    /\ Jobs[j].fn = f /\ S = Expected(f, j)
    /\ p = DestOf(j) \/ (IsInline(j) /\ p = Impl(EntryOf(j)))
InRow(p, x, f, u, S) ==
  \E j \in 1..u, i \in 0..Covered(f) :
    /\ Jobs[j].fn = f /\ HasRow(j) /\ p = Moved(RowOf(j), i)
    /\ Latest(f, j - 1) = 0 => S = Rest(i)
    /\ Latest(f, j - 1) # 0 =>
         /\ S = Expected(f, j - 1)
         /\ f \in Far => Toward(f, i, x, DestOf(Latest(f, j - 1)))
         /\ f \notin Far => i = 0
Ahead(p, x, f, n, u, S) ==
  (p = End /\ S = {}) \/ InBody(p, f, n, S) \/ InHeader(p, x, f, n, S) \/ InHook(p, f, u, S) \/ InRow(p, x, f, u, S)

\* What a call has run and what it has yet to run are the events of the
\* first v hooks; an inline hook may have lost an instruction.
Split(f, v, tr, S) ==
  /\ InOrder(tr) /\ \A a \in Events(tr), b \in S : Before(a, b)
  /\ {e \in Events(tr) \cup S : e[1] = "callback"} = Calls(f, v)
  /\ ~HasInline(f) => Events(tr) \cup S = Expected(f, v)

CanFault(p, f, s) ==
  \/ p = Junk /\ ~InlineFirst
  \/ p \in {Undefined, NullCall} /\ \E j \in 1..Len(Jobs) : j > s /\ Jobs[j].fn = f /\ HasRow(j)

Inside(p, x, f, s, tr, n, u) ==
  \/ f \notin Far /\ p = Word(f, 0) /\ tr = <<>>
  \/ \E v \in s..u, S \in SUBSET AllEvents : Ahead(p, x, f, n, u, S) /\ Split(f, v, tr, S)
  \/ CanFault(p, f, s)

Registers == Destinations \cup Starts \cup Faults

ThreadInv(t) ==
  /\ callee[t] \in Functions /\ trace[t] \in Seq(AllEvents) /\ x17[t] \in Registers
  /\ since[t] \in 0..job-1
  /\ at[t] = Idle \/ (job > BootJobs /\ Inside(at[t], x17[t], callee[t], since[t], trace[t], job - 1, Up))

CallsInv ==
  /\ at \in [Callers -> Places] /\ x17 \in [Callers -> Registers] /\ callee \in [Callers -> Functions]
  /\ since \in [Callers -> 0..Len(Jobs)] /\ trace \in [Callers -> Seq(AllEvents)]
  /\ \A t \in Callers : ThreadInv(t)

EngineInv == MemoryInv /\ CallsInv

-----------------------------------------------------------------------------
(* A call's events.                                                        *)
Rank(e) == IF e[1] = "callback" THEN e[2] ELSE Len(Jobs) + 1 + e[2]

LEMMA RankIs ==
  ASSUME NEW e \in AllEvents
  PROVE  Rank(e) \in 1..Len(Jobs) + BodyWords /\ ~Before(e, e)
<1>1. CASE e \in Instructions
  <2>1. PICK i \in 0..BodyWords-1 : e = <<"insn", i>>
    BY <1>1 DEF Instructions
  <2> QED BY <2>1, JobsAre, SizesAssumption DEF Rank, Before
<1>2. CASE e \notin Instructions
  <2>1. PICK j \in 1..Len(Jobs) : e = <<"callback", j, 0>>
    BY <1>2 DEF AllEvents, CallbackOf
  <2> QED BY <2>1, JobsAre, SizesAssumption DEF Rank, Before
<1> QED BY <1>1, <1>2

LEMMA RanksDiffer ==
  ASSUME NEW a \in AllEvents, NEW b \in AllEvents, Before(a, b)
  PROVE  Rank(a) # Rank(b)
<1>1. ASSUME NEW e \in AllEvents
      PROVE  \/ \E i \in 0..BodyWords-1 : e = <<"insn", i>>
             \/ \E j \in 1..Len(Jobs) : e = <<"callback", j, 0>>
  BY <1>1 DEF AllEvents, Instructions, CallbackOf
<1>2. CASE \E i \in 0..BodyWords-1 : a = <<"insn", i>>
  <2>1. PICK i \in 0..BodyWords-1 : a = <<"insn", i>>
    BY <1>2
  <2>2. CASE \E k \in 0..BodyWords-1 : b = <<"insn", k>>
    <3>1. PICK k \in 0..BodyWords-1 : b = <<"insn", k>>
      BY <2>2
    <3>2. i < k
      BY <2>1, <3>1 DEF Before
    <3> QED BY <2>1, <3>1, <3>2, JobsAre, SizesAssumption DEF Rank
  <2>3. CASE \E j \in 1..Len(Jobs) : b = <<"callback", j, 0>>
    BY <2>1, <2>3 DEF Before
  <2> QED BY <1>1, <2>2, <2>3
<1>3. CASE \E j \in 1..Len(Jobs) : a = <<"callback", j, 0>>
  <2>1. PICK j \in 1..Len(Jobs) : a = <<"callback", j, 0>>
    BY <1>3
  <2>2. CASE \E k \in 0..BodyWords-1 : b = <<"insn", k>>
    <3>1. PICK k \in 0..BodyWords-1 : b = <<"insn", k>>
      BY <2>2
    <3> QED BY <2>1, <3>1, JobsAre, SizesAssumption DEF Rank
  <2>3. CASE \E k \in 1..Len(Jobs) : b = <<"callback", k, 0>>
    <3>1. PICK k \in 1..Len(Jobs) : b = <<"callback", k, 0>>
      BY <2>3
    <3>2. j > k
      BY <2>1, <3>1 DEF Before
    <3> QED BY <2>1, <3>1, <3>2, JobsAre DEF Rank
  <2> QED BY <1>1, <2>2, <2>3
<1> QED BY <1>1, <1>2, <1>3

(* No event is met twice, so that no call's history is cut off.            *)
LEMMA TraceShort ==
  ASSUME NEW tr \in Seq(AllEvents), InOrder(tr)
  PROVE  Len(tr) <= MaxTrace
<1> DEFINE m == Len(tr)
           N == Len(Jobs) + BodyWords
           r == [i \in 1..m |-> Rank(tr[i])]
<1>1. m \in Nat /\ N \in Nat /\ MaxTrace \in Nat /\ N <= MaxTrace /\ \A i \in 1..m : tr[i] \in AllEvents
  BY JobsAre, SizesAssumption
<1>2. r \in [1..m -> 1..N]
  <2>1. \A i \in 1..m : Rank(tr[i]) \in 1..N
    BY <1>1, RankIs
  <2> HIDE DEF m, N
  <2> QED BY <2>1
<1>3. ASSUME NEW i \in 1..m, NEW k \in 1..m, i # k PROVE r[i] # r[k]
  <2>0. i \in DOMAIN tr /\ k \in DOMAIN tr
    OBVIOUS
  <2>1. tr[i] \in AllEvents /\ tr[k] \in AllEvents
    BY <1>1
  <2>2. Before(tr[i], tr[k]) \/ Before(tr[k], tr[i])
    BY <1>1, <1>3, <2>0 DEF InOrder
  <2>3. Rank(tr[i]) # Rank(tr[k])
    BY <2>1, <2>2, RanksDiffer
  <2> QED BY <2>3
<1> HIDE DEF m, N, r
<1>4. m <= N
  <2>1. IsFiniteSet(1..m) /\ IsFiniteSet(1..N) /\ Cardinality(1..m) = m /\ Cardinality(1..N) = N
    BY <1>1, FS_Interval
  <2>2. ASSUME N < m PROVE FALSE
    <3>1. \E i, k \in 1..m : i # k /\ r[i] = r[k]
      BY <1>2, <2>1, <2>2, FS_PigeonHole
    <3> QED BY <1>3, <3>1
  <2> QED BY <1>1, <2>2
<1> QED BY <1>1, <1>4 DEF m

(* An event that is next and is recorded.                                  *)
LEMMA RecordKeeps ==
  ASSUME NEW f, NEW v, NEW tr \in Seq(AllEvents), NEW S \in SUBSET AllEvents, Split(f, v, tr, S),
         NEW e \in S, NEW R \in SUBSET S, \A b \in R : Before(e, b),
         \A b \in S : b[1] = "callback" => b = e \/ b \in R,
         ~HasInline(f) => S = {e} \cup R
  PROVE  /\ Append(tr, e) \in Seq(AllEvents) /\ Split(f, v, Append(tr, e), R)
         /\ Len(tr) < MaxTrace /\ R \in SUBSET AllEvents
<1> DEFINE q == Append(tr, e)
<1>1. /\ q \in Seq(AllEvents) /\ Len(q) = Len(tr) + 1 /\ Len(tr) \in Nat /\ q[Len(tr) + 1] = e
      /\ \A i \in 1..Len(tr) : q[i] = tr[i]
  OBVIOUS
<1>2. DOMAIN q = 1..Len(tr) + 1 /\ DOMAIN tr = 1..Len(tr)
  OBVIOUS
<1> HIDE DEF q
<1>3. Events(q) = Events(tr) \cup {e}
  <2>1. \A a \in Events(tr) : a \in Events(q)
    BY <1>1, <1>2 DEF Events
  <2>2. e \in Events(q)
    BY <1>1, <1>2 DEF Events
  <2>3. ASSUME NEW i \in DOMAIN q PROVE q[i] \in Events(tr) \cup {e}
    <3>1. i \in 1..Len(tr) \/ i = Len(tr) + 1
      BY <1>1, <1>2
    <3> QED BY <1>1, <1>2, <3>1 DEF Events
  <2> QED BY <2>1, <2>2, <2>3 DEF Events
<1>4. InOrder(q)
  <2> SUFFICES ASSUME NEW i \in DOMAIN q, NEW k \in DOMAIN q, i < k PROVE Before(q[i], q[k])
    BY DEF InOrder
  <2>1. i \in 1..Len(tr) /\ tr[i] \in Events(tr) /\ q[i] = tr[i]
    BY <1>1, <1>2 DEF Events
  <2>2. CASE k \in 1..Len(tr)
    BY <1>1, <1>2, <2>1, <2>2 DEF Split, InOrder
  <2>3. CASE k = Len(tr) + 1
    BY <1>1, <2>1, <2>3 DEF Split
  <2> QED BY <1>1, <1>2, <2>2, <2>3
<1>5. \A a \in Events(q), b \in R : Before(a, b)
  BY <1>3 DEF Split
<1>6. {x \in Events(q) \cup R : x[1] = "callback"} = Calls(f, v)
  <2>1. \A x : x[1] = "callback" => (x \in Events(q) \cup R <=> x \in Events(tr) \cup S)
    BY <1>3
  <2> QED BY <2>1 DEF Split
<1>7. ~HasInline(f) => Events(q) \cup R = Expected(f, v)
  BY <1>3 DEF Split
<1>8. Len(tr) < MaxTrace
  <2>1. Len(q) <= MaxTrace
    BY <1>1, <1>4, TraceShort
  <2> QED BY <1>1, <2>1, SizesAssumption
<1> QED BY <1>1, <1>4, <1>5, <1>6, <1>7, <1>8 DEF Split, q

LEMMA StartSplit ==
  ASSUME NEW f, NEW n \in 0..Len(Jobs)
  PROVE  Split(f, n, <<>>, Expected(f, n)) /\ Expected(f, n) \in SUBSET AllEvents
<1>1. Events(<<>>) = {} /\ InOrder(<<>>)
  BY DEF Events, InOrder
<1> QED BY <1>1, ExpectedIsEvents DEF Split

(* The events of the body and of a hook, in order.                         *)
LEMMA RestIs ==
  ASSUME NEW i \in 0..BodyWords-1
  PROVE  /\ Rest(i) = {<<"insn", i>>} \cup Rest(i + 1) /\ Rest(i) \in SUBSET AllEvents
         /\ \A b \in Rest(i + 1) : Before(<<"insn", i>>, b)
         /\ \A b \in Rest(i) : b[1] # "callback"
         /\ Rest(0) = Instructions /\ Rest(BodyWords) = {}
<1>1. Rest(i) = {<<"insn", i>>} \cup Rest(i + 1)
  BY SizesAssumption DEF Rest
<1>2. \A b \in Rest(i + 1) : Before(<<"insn", i>>, b)
  BY SizesAssumption DEF Rest, Before
<1>3. Rest(i) \in SUBSET AllEvents
  BY DEF Rest, AllEvents, Instructions
<1> QED BY <1>1, <1>2, <1>3, SizesAssumption DEF Rest, Instructions

LEMMA HookIsFirst ==
  ASSUME NEW f, NEW j \in 1..Len(Jobs)
  PROVE  \A b \in Expected(f, j - 1) : Before(CallbackOf(j), b) /\ b # CallbackOf(j)
<1>1. j \in Nat /\ j - 1 \in 0..Len(Jobs)
  BY JobsAre
<1>2. \A b \in Calls(f, j - 1) : \E k \in 1..j-1 : b = CallbackOf(k)
  BY <1>1, ExpectedIsEvents
<1>3. \A b \in Expected(f, j - 1) : b \in Calls(f, j - 1) \/ \E i \in 0..BodyWords-1 : b = <<"insn", i>>
  BY DEF Expected
<1> QED BY <1>1, <1>2, <1>3 DEF Before, CallbackOf

-----------------------------------------------------------------------------
(* What a thread meets.                                                    *)
LEMMA UpIs ==
  ASSUME InstallInv
  PROVE  /\ job \in 1..Len(Jobs) + 1 /\ Len(Jobs) \in Nat /\ job - 1 \in 0..Len(Jobs)
         /\ Up \in 0..Len(Jobs) /\ job - 1 <= Up /\ Up <= job
         /\ Live \in {job - 1, Up} /\ Held \in {job - 1, Up} /\ Up <= Filled
         /\ Up = job => step \in Placing
<1>1. job \in 1..Len(Jobs) + 1 /\ Len(Jobs) \in Nat /\ step \in Steps /\ (step # "take" => job <= Len(Jobs))
  BY JobsAre DEF InstallInv
<1> QED BY <1>1 DEF Up, Live, Held, Filled, Placing, Steps

(* Fetched words are those of the hooks that are complete, or of one more; *)
(* for a function that is out of reach the two are the same by then.       *)
LEMMA TextMet ==
  ASSUME MemoryInv, FarAtBoot, job > BootJobs, NEW f \in Functions
  PROVE  /\ \A i : \A w \in {text[f][i], seen[f][i]} : \E m \in {job - 1, Up} : w = TextOf(f, m)[i]
         /\ f \in Far => /\ Latest(f, Up) = Latest(f, job - 1) /\ HooksOf(f, Up) = HooksOf(f, job - 1)
                         /\ text[f] = TextOf(f, job - 1) /\ seen[f] = TextOf(f, job - 1)
<1> USE DEF MemoryInv
<1>1. /\ job \in 1..Len(Jobs) + 1 /\ Len(Jobs) \in Nat /\ job - 1 <= Up /\ Up <= job /\ Up \in 0..Len(Jobs)
      /\ Live \in {job - 1, Up} /\ Held \in {job - 1, Up}
  BY UpIs
<1>2. ASSUME job \in 1..Len(Jobs) PROVE Fn \notin Far
  BY <1>2, JobsAre, SizesAssumption DEF FarAtBoot, Fn
<1>3. step = "store" => job \in 1..Len(Jobs)
  BY <1>1 DEF InstallInv
<1>4. text[f] = TextOf(f, Live) /\ seen[f] = TextOf(f, Held)
  BY <1>2, <1>3 DEF TextInv
<1>5. ASSUME f \in Far PROVE Latest(f, Up) = Latest(f, job - 1) /\ HooksOf(f, Up) = HooksOf(f, job - 1)
  <2>1. CASE Up = job - 1
    BY <2>1
  <2>2. CASE Up = job
    <3>1. job \in 1..Len(Jobs) /\ Jobs[job].fn # f
      BY <1>1, <1>2, <1>5, <2>2 DEF Fn
    <3> QED BY <2>2, <3>1, LatestStep
  <2> QED BY <1>1, <2>1, <2>2
<1>6. ASSUME f \in Far PROVE TextOf(f, Up) = TextOf(f, job - 1)
  BY <1>5, <1>6 DEF TextOf
<1> QED BY <1>1, <1>4, <1>5, <1>6

Goes(t, p, x, tr) ==
  /\ at' = [at EXCEPT ![t] = p] /\ x17' = [x17 EXCEPT ![t] = x] /\ trace' = [trace EXCEPT ![t] = tr]
  /\ UNCHANGED <<callee, since, install, memory>>

LEMMA Executed ==
  ASSUME CallsInv, NEW t \in Callers, NEW p, NEW w, Execute(t, p, w)
  PROVE  /\ w[1] = "insn" /\ Len(trace[t]) < MaxTrace => Goes(t, NextPlace(p), x17[t], Append(trace[t], w))
         /\ w[1] = "nop" => Goes(t, NextPlace(p), x17[t], trace[t])
         /\ w[1] = "ldr" => Goes(t, NextPlace(p), Literal(p[2], p[3] + 2), trace[t])
         /\ w[1] = "load" => Goes(t, NextPlace(p), w[2], trace[t])
         /\ w[1] = "b" => Goes(t, w[2], x17[t], trace[t])
         /\ w[1] = "jump" => Goes(t, w[2], IF callee[t] \in Far THEN w[2] ELSE x17[t], trace[t])
         /\ w[1] = "br" => Goes(t, x17[t], x17[t], trace[t])
<1>1. /\ x17 = [x17 EXCEPT ![t] = x17[t]] /\ trace = [trace EXCEPT ![t] = trace[t]]
  BY DEF CallsInv
<1>2. /\ at' = [at EXCEPT ![t] = CASE w[1] \in {"b", "jump"} -> w[2] [] w[1] = "br" -> x17[t]
                                   [] w[1] \in {"low", "high"} -> Undefined [] OTHER -> NextPlace(p)]
      /\ x17' = [x17 EXCEPT ![t] = CASE w[1] = "ldr" -> Literal(p[2], p[3] + 2) [] w[1] = "load" -> w[2]
                                     [] w[1] = "jump" /\ callee[t] \in Far -> w[2] [] OTHER -> x17[t]]
      /\ w[1] = "insn" => trace' = [trace EXCEPT ![t] = IF Len(trace[t]) < MaxTrace THEN Append(trace[t], w) ELSE trace[t]]
      /\ w[1] # "insn" => trace' = trace
      /\ UNCHANGED <<callee, since, install, memory>>
  BY DEF Execute, GoTo, Recorded, CallsInv
<1>3. ASSUME w[1] = "insn", Len(trace[t]) < MaxTrace PROVE Goes(t, NextPlace(p), x17[t], Append(trace[t], w))
  BY <1>1, <1>2, <1>3 DEF Goes
<1>4. ASSUME w[1] = "nop" PROVE Goes(t, NextPlace(p), x17[t], trace[t])
  BY <1>1, <1>2, <1>4 DEF Goes
<1>5. ASSUME w[1] = "ldr" PROVE Goes(t, NextPlace(p), Literal(p[2], p[3] + 2), trace[t])
  BY <1>1, <1>2, <1>5 DEF Goes
<1>6. ASSUME w[1] = "load" PROVE Goes(t, NextPlace(p), w[2], trace[t])
  BY <1>1, <1>2, <1>6 DEF Goes
<1>7. ASSUME w[1] = "b" PROVE Goes(t, w[2], x17[t], trace[t])
  BY <1>1, <1>2, <1>7 DEF Goes
<1>8. ASSUME w[1] = "jump" PROVE Goes(t, w[2], IF callee[t] \in Far THEN w[2] ELSE x17[t], trace[t])
  BY <1>1, <1>2, <1>8 DEF Goes
<1>9. ASSUME w[1] = "br" PROVE Goes(t, x17[t], x17[t], trace[t])
  BY <1>1, <1>2, <1>9 DEF Goes
<1> QED BY <1>3, <1>4, <1>5, <1>6, <1>7, <1>8, <1>9

(* A row and an entry that may be met are in their pools.                  *)
LEMMA HookMet ==
  ASSUME MemoryInv, NEW j \in 1..Up
  PROVE  /\ j \in 1..Len(Jobs) /\ j \in 1..job
         /\ HasRow(j) => RowOf(j) \in 0..HookMax /\ rows[RowOf(j)] = TrampolineOf(j)
         /\ IsInline(j) => EntryOf(j) \in 0..EntryMax-1
         /\ DestOf(j) \in Destinations
<1> USE DEF MemoryInv
<1>1. /\ job \in 1..Len(Jobs) + 1 /\ Len(Jobs) \in Nat /\ Up \in 0..Len(Jobs) /\ Up <= job /\ Up <= Filled
      /\ Up = job => step \in Placing
  BY UpIs
<1>2. Filled \in Nat
  BY <1>1 DEF Filled
<1>3. HasRow(j) => RowOf(j) \in 0..HookMax /\ rows[RowOf(j)] = TrampolineOf(j)
  BY <1>1, <1>2 DEF RowInv
<1>4. IsInline(j) => EntryOf(j) \in 0..EntryMax-1
  <2>1. CASE j = job
    <3>1. step # "take" /\ job \in 1..Len(Jobs)
      BY <1>1, <2>1 DEF Placing
    <3> QED BY <2>1, <3>1, EntryTaken
  <2>2. CASE j # job
    BY <1>1, <2>2 DEF EntryInv
  <2> QED BY <2>1, <2>2
<1>5. DestOf(j) \in Destinations
  <2>1. j \in 1..Len(Jobs)
    BY <1>1
  <2>2. IsInline(j) => EntryOf(j) < EntryMax
    BY <1>4, SizesAssumption
  <2> QED BY <2>1, <2>2, DestIs
<1> QED BY <1>1, <1>3, <1>4, <1>5

LEMMA InsidePlaces ==
  ASSUME MemoryInv, NEW p, NEW x, NEW f \in Functions, NEW s, NEW tr, Inside(p, x, f, s, tr, job - 1, Up)
  PROVE  p \in Places
<1>1. CASE f \notin Far /\ p = Word(f, 0)
  BY <1>1, SizesAssumption DEF Places, Starts
<1>2. CASE CanFault(p, f, s)
  BY <1>2 DEF CanFault, Places, Faults
<1>3. ASSUME NEW S, Ahead(p, x, f, job - 1, Up, S) PROVE p \in Places
  <2>1. CASE p = End
    BY <2>1 DEF Places
  <2>2. CASE InBody(p, f, job - 1, S) \/ InHeader(p, x, f, job - 1, S)
    BY <2>2 DEF InBody, InHeader, Places, Starts
  <2>3. CASE InHook(p, f, Up, S)
    <3>1. PICK j \in 1..Up : p = DestOf(j) \/ (IsInline(j) /\ p = Impl(EntryOf(j)))
      BY <2>3 DEF InHook
    <3>2. DestOf(j) \in Destinations /\ (IsInline(j) => EntryOf(j) \in 0..EntryMax-1)
      BY HookMet
    <3>3. CASE p = DestOf(j)
      BY <3>2, <3>3 DEF Places
    <3>4. CASE IsInline(j) /\ p = Impl(EntryOf(j))
      BY <3>2, <3>4 DEF Places
    <3> QED BY <3>1, <3>3, <3>4
  <2>4. CASE InRow(p, x, f, Up, S)
    <3>1. PICK j \in 1..Up, i \in 0..Covered(f) : HasRow(j) /\ p = Moved(RowOf(j), i)
      BY <2>4 DEF InRow
    <3>2. RowOf(j) \in 0..HookMax /\ i \in 0..5
      BY <3>1, HookMet, CoveredIs
    <3> QED BY <3>1, <3>2 DEF Places, RowPlaces
  <2> QED BY <1>3, <2>1, <2>2, <2>3, <2>4 DEF Ahead
<1> QED BY <1>1, <1>2, <1>3 DEF Inside

(* A step of a thread concerns it alone.                                   *)
LEMMA ThreadMoves ==
  ASSUME EngineInv, NEW t \in Callers, NEW p, NEW x \in Registers, NEW tr \in Seq(AllEvents), Goes(t, p, x, tr),
         p = Idle \/ (job > BootJobs /\ Inside(p, x, callee[t], since[t], tr, job - 1, Up))
  PROVE  CallsInv'
<1> USE DEF EngineInv
<1>1. /\ at' = [at EXCEPT ![t] = p] /\ x17' = [x17 EXCEPT ![t] = x] /\ trace' = [trace EXCEPT ![t] = tr]
      /\ callee' = callee /\ since' = since /\ job' = job /\ step' = step /\ Up' = Up
  BY DEF Goes, install, Up
<1>2. /\ at \in [Callers -> Places] /\ x17 \in [Callers -> Registers] /\ callee \in [Callers -> Functions]
      /\ since \in [Callers -> 0..Len(Jobs)] /\ trace \in [Callers -> Seq(AllEvents)]
      /\ \A k \in Callers : ThreadInv(k)
  BY DEF CallsInv
<1>3. p \in Places
  <2>1. callee[t] \in Functions
    BY <1>2
  <2>2. CASE p = Idle
    BY <2>2 DEF Places
  <2> QED BY <2>1, <2>2, InsidePlaces
<1>4. at' \in [Callers -> Places]
  <2> HIDE DEF Places
  <2> QED BY <1>1, <1>2, <1>3
<1>5. x17' \in [Callers -> Registers] /\ trace' \in [Callers -> Seq(AllEvents)]
  <2> HIDE DEF Registers, AllEvents
  <2> QED BY <1>1, <1>2
<1>6. /\ at'[t] = p /\ x17'[t] = x /\ trace'[t] = tr
      /\ \A k \in Callers : k # t => at'[k] = at[k] /\ x17'[k] = x17[k] /\ trace'[k] = trace[k]
  BY <1>1, <1>2
<1>7. ASSUME NEW k \in Callers PROVE ThreadInv(k)'
  <2>0. callee[k] \in Functions /\ since[k] \in 0..job-1
    BY <1>2 DEF ThreadInv
  <2>1. CASE k = t
    BY <1>1, <1>6, <2>0, <2>1 DEF ThreadInv
  <2>2. CASE k # t
    BY <1>1, <1>2, <1>6, <2>2 DEF ThreadInv
  <2> QED BY <2>1, <2>2
<1>8. callee' \in [Callers -> Functions] /\ since' \in [Callers -> 0..Len(Jobs)]
  BY <1>1, <1>2
<1> QED BY <1>4, <1>5, <1>7, <1>8 DEF CallsInv

(* What an installation adds is more for a call to meet, and no less.      *)
LEMMA InstallAdds ==
  ASSUME MemoryInv, Install
  PROVE  /\ job' - 1 \in {job - 1, Up} /\ Up <= Up' /\ UNCHANGED threads
         /\ job <= job' /\ Up' \in Nat /\ job' \in Nat
<1>0. job \in 1..Len(Jobs) + 1 /\ job \in Nat /\ step \in Steps
  BY JobsAre DEF MemoryInv, InstallInv
<1>1. CASE Take
  BY <1>0, <1>1 DEF Take, Installing, GiveUpHook, Up, Placing
<1>2. CASE Alloc
  BY <1>0, <1>2 DEF Alloc, Installing, GiveUpHook, Up, Placing
<1>3. CASE MoveWords
  BY <1>0, <1>3 DEF MoveWords, Installing, Up, Placing
<1>4. CASE Cover
  BY <1>0, <1>4 DEF Cover, Installing, Up, Placing
<1>5. CASE Store
  BY <1>0, <1>5 DEF Store, Installing, Up, Placing
<1>6. CASE Flush
  BY <1>0, <1>6 DEF Flush, Installing, Up, Placing
<1>7. CASE Assign
  BY <1>0, <1>7 DEF Assign, Installing, Up, Placing
<1>8. CASE WriteEntry
  BY <1>0, <1>8 DEF WriteEntry, Installing, Up, Placing
<1>9. CASE WriteCallback
  BY <1>0, <1>9 DEF WriteCallback, Installing, Up, Placing
<1> QED BY <1>1, <1>2, <1>3, <1>4, <1>5, <1>6, <1>7, <1>8, <1>9 DEF Install

LEMMA AheadStays ==
  ASSUME NEW p, NEW x, NEW f, NEW n, NEW u \in Nat, NEW S, NEW m, NEW w \in Nat,
         Ahead(p, x, f, n, u, S), u <= w, f \in Far => Latest(f, m) = Latest(f, n)
  PROVE  Ahead(p, x, f, m, w, S)
<1>1. 1..u \subseteq 1..w
  OBVIOUS
<1>2. InBody(p, f, n, S) => InBody(p, f, m, S)
  BY DEF InBody
<1>3. InHeader(p, x, f, n, S) => InHeader(p, x, f, m, S)
  BY DEF InHeader
<1>4. InHook(p, f, u, S) => InHook(p, f, w, S)
  BY <1>1 DEF InHook
<1>5. InRow(p, x, f, u, S) => InRow(p, x, f, w, S)
  BY <1>1 DEF InRow
<1> QED BY <1>2, <1>3, <1>4, <1>5 DEF Ahead

LEMMA InstallKeepsCalls == FarAtBoot /\ EngineInv /\ Install => CallsInv'
<1> SUFFICES ASSUME FarAtBoot, EngineInv, Install PROVE CallsInv'
  OBVIOUS
<1> USE DEF EngineInv
<1>1. /\ job' - 1 \in {job - 1, Up} /\ Up <= Up' /\ UNCHANGED <<at, x17, callee, since, trace>>
      /\ job <= job' /\ Up' \in Nat /\ job' \in Nat
  BY InstallAdds DEF threads
<1>2. Up \in Nat /\ job \in Nat
  BY UpIs DEF MemoryInv
<1>3. ASSUME NEW t \in Callers PROVE ThreadInv(t)'
  <2>1. ThreadInv(t) /\ callee[t] \in Functions /\ since[t] \in 0..job-1
    BY DEF CallsInv, ThreadInv
  <2>2. ASSUME job > BootJobs, Inside(at[t], x17[t], callee[t], since[t], trace[t], job - 1, Up)
        PROVE  Inside(at[t], x17[t], callee[t], since[t], trace[t], job' - 1, Up')
    <3>1. callee[t] \in Far => Latest(callee[t], job' - 1) = Latest(callee[t], job - 1)
      <4>1. callee[t] \in Far => Latest(callee[t], Up) = Latest(callee[t], job - 1)
        BY <2>1, <2>2, TextMet
      <4> QED BY <1>1, <4>1
    <3>2. ASSUME NEW v \in since[t]..Up, NEW S \in SUBSET AllEvents,
                 Ahead(at[t], x17[t], callee[t], job - 1, Up, S), Split(callee[t], v, trace[t], S)
          PROVE  Inside(at[t], x17[t], callee[t], since[t], trace[t], job' - 1, Up')
      <4>1. Ahead(at[t], x17[t], callee[t], job' - 1, Up', S)
        BY <1>1, <1>2, <3>1, <3>2, AheadStays
      <4>2. v \in since[t]..Up'
        BY <1>1, <1>2, <2>1
      <4> QED BY <3>2, <4>1, <4>2 DEF Inside
    <3> QED BY <2>2, <3>2 DEF Inside
  <2>3. job > BootJobs => job' > BootJobs
    BY <1>1, <1>2, SizesAssumption
  <2>4. since[t] \in 0..job'-1
    BY <1>1, <1>2, <2>1
  <2> QED BY <1>1, <2>1, <2>2, <2>3, <2>4 DEF ThreadInv
<1> QED BY <1>1, <1>3 DEF CallsInv

-----------------------------------------------------------------------------
(* The steps of a thread.                                                  *)
LEMMA GoesOn ==
  ASSUME EngineInv, job > BootJobs, NEW t \in Callers, NEW v \in since[t]..Up, NEW R \in SUBSET AllEvents,
         NEW p, NEW x \in Registers, NEW tr \in Seq(AllEvents), Goes(t, p, x, tr),
         Ahead(p, x, callee[t], job - 1, Up, R), Split(callee[t], v, tr, R)
  PROVE  CallsInv'
<1>1. Inside(p, x, callee[t], since[t], tr, job - 1, Up)
  BY DEF Inside
<1> QED BY <1>1, ThreadMoves

LEMMA ThreadIs ==
  ASSUME EngineInv, NEW t \in Callers
  PROVE  /\ MemoryInv /\ callee[t] \in Functions /\ trace[t] \in Seq(AllEvents) /\ x17[t] \in Registers
         /\ since[t] \in 0..job-1 /\ since[t] \in 0..Len(Jobs) /\ CallsInv
         /\ at[t] # Idle => job > BootJobs /\ Inside(at[t], x17[t], callee[t], since[t], trace[t], job - 1, Up)
  BY DEF EngineInv, CallsInv, ThreadInv

(* An event is the next one, and the rest is ahead.                        *)
LEMMA Records ==
  ASSUME EngineInv, job > BootJobs, NEW t \in Callers, NEW v \in since[t]..Up, NEW S \in SUBSET AllEvents,
         Split(callee[t], v, trace[t], S), NEW e \in S, NEW R \in SUBSET S, \A b \in R : Before(e, b),
         \A b \in S : b[1] = "callback" => b = e \/ b \in R, ~HasInline(callee[t]) => S = {e} \cup R,
         NEW p, Len(trace[t]) < MaxTrace => Goes(t, p, x17[t], Append(trace[t], e)),
         Ahead(p, x17[t], callee[t], job - 1, Up, R)
  PROVE  CallsInv'
<1>1. trace[t] \in Seq(AllEvents) /\ x17[t] \in Registers
  BY ThreadIs
<1>2. /\ Append(trace[t], e) \in Seq(AllEvents) /\ Split(callee[t], v, Append(trace[t], e), R)
      /\ Len(trace[t]) < MaxTrace /\ R \in SUBSET AllEvents
  BY <1>1, RecordKeeps
<1> QED BY <1>1, <1>2, GoesOn

LEMMA NextPlaceIs ==
  /\ \A f, i : NextPlace(Word(f, i)) = IF i = BodyWords - 1 THEN End ELSE Word(f, i + 1)
  /\ \A r, i : NextPlace(Moved(r, i)) = Moved(r, i + 1)
  BY DEF NextPlace, Word, Moved

LEMMA BodyGoesOn ==
  ASSUME EngineInv, job > BootJobs, NEW t \in Callers, NEW v \in since[t]..Up, NEW i \in 0..BodyWords-1,
         i + 1 >= Covered(callee[t]) \/ (callee[t] \in Far /\ Latest(callee[t], job - 1) = 0),
         Split(callee[t], v, trace[t], Rest(i)), Execute(t, Word(callee[t], i), <<"insn", i>>)
  PROVE  CallsInv'
<1> DEFINE e == <<"insn", i>>
           p == NextPlace(Word(callee[t], i))
<1>1. /\ Rest(i) = {e} \cup Rest(i + 1) /\ Rest(i) \in SUBSET AllEvents
      /\ \A b \in Rest(i + 1) : Before(e, b)
      /\ \A b \in Rest(i) : b[1] # "callback"
      /\ Rest(BodyWords) = {}
  BY RestIs
<1>2. Ahead(p, x17[t], callee[t], job - 1, Up, Rest(i + 1))
  <2>1. CASE i = BodyWords - 1
    <3>1. p = End /\ i + 1 = BodyWords
      BY <2>1, NextPlaceIs, SizesAssumption
    <3> QED BY <1>1, <3>1 DEF Ahead
  <2>2. CASE i # BodyWords - 1
    <3>1. p = Word(callee[t], i + 1) /\ i + 1 \in 0..BodyWords-1
      BY <2>2, NextPlaceIs, SizesAssumption
    <3>2. InBody(p, callee[t], job - 1, Rest(i + 1))
      BY <3>1 DEF InBody
    <3> QED BY <3>2 DEF Ahead
  <2> QED BY <2>1, <2>2
<1>3. Len(trace[t]) < MaxTrace => Goes(t, p, x17[t], Append(trace[t], e))
  BY ThreadIs, Executed
<1> HIDE DEF e, p
<1>4. e \in Rest(i) /\ Rest(i + 1) \in SUBSET Rest(i)
  BY <1>1
<1> QED BY <1>1, <1>2, <1>3, <1>4, Records

LEMMA HookEntered ==
  ASSUME EngineInv, job > BootJobs, NEW t \in Callers, NEW v \in since[t]..Up, NEW j \in 1..Up,
         Jobs[j].fn = callee[t], Split(callee[t], v, trace[t], Expected(callee[t], j)),
         NEW x \in Registers, Goes(t, DestOf(j), x, trace[t])
  PROVE  CallsInv'
<1>1. j \in 1..Len(Jobs) /\ trace[t] \in Seq(AllEvents)
  BY ThreadIs, HookMet
<1>2. Expected(callee[t], j) \in SUBSET AllEvents
  BY <1>1, ExpectedIsEvents, JobsAre
<1>3. Ahead(DestOf(j), x, callee[t], job - 1, Up, Expected(callee[t], j))
  BY DEF Ahead, InHook
<1> QED BY <1>1, <1>2, <1>3, GoesOn

(* A function within reach is met as it is before or after a hook.         *)
LEMMA FetchStart ==
  ASSUME EngineInv, FarAtBoot, job > BootJobs, NEW t \in Callers, callee[t] \notin Far, trace[t] = <<>>,
         NEW w \in {text[callee[t]][0], seen[callee[t]][0]}, Execute(t, Word(callee[t], 0), w)
  PROVE  CallsInv'
<1> DEFINE f == callee[t]
<1>1. MemoryInv /\ f \in Functions /\ since[t] \in 0..job-1 /\ CallsInv /\ x17[t] \in Registers
  BY ThreadIs
<1>2. job \in 1..Len(Jobs) + 1 /\ Len(Jobs) \in Nat /\ job - 1 <= Up /\ Up \in 0..Len(Jobs)
  BY <1>1, UpIs DEF MemoryInv
<1>3. PICK m \in {job - 1, Up} : w = TextOf(f, m)[0]
  BY <1>1, TextMet
<1>4. m \in 0..Len(Jobs) /\ m \in since[t]..Up
  BY <1>1, <1>2
<1>5. Split(f, m, <<>>, Expected(f, m)) /\ 0 \in 0..BodyWords-1
  BY <1>4, StartSplit, SizesAssumption
<1>6. CASE Latest(f, m) = 0
  <2>1. HooksOf(f, m) = {}
    BY <1>4, <1>6, LatestIs
  <2>2. Expected(f, m) = Rest(0) /\ w = <<"insn", 0>> /\ 0 + 1 >= Covered(f)
    <3>1. Expected(f, m) = Instructions /\ Rest(0) = Instructions
      BY <1>5, <2>1, ExpectedNone, RestIs
    <3>2. TextOf(f, m) = Body /\ Body[0] = <<"insn", 0>>
      BY <1>5, <1>6, TextIs
    <3>3. Covered(f) = 1
      BY CoveredIs
    <3> QED BY <1>3, <3>1, <3>2, <3>3
  <2>3. Split(callee[t], m, trace[t], Rest(0)) /\ Execute(t, Word(callee[t], 0), <<"insn", 0>>)
    BY <1>5, <2>2
  <2> HIDE DEF f
  <2>4. 0 + 1 >= Covered(callee[t])
    BY <2>2 DEF f
  <2> QED BY <1>4, <1>5, <2>3, <2>4, BodyGoesOn
<1>7. CASE Latest(f, m) # 0
  <2> DEFINE j == Latest(f, m)
  <2>1. w = <<"b", DestOf(j)>>
    BY <1>3, <1>7, TextIs
  <2>2. Jobs[j].fn = f /\ j \in 1..Up
    <3>1. j \in 0..m /\ Jobs[j].fn = f
      BY <1>4, <1>7, LatestIs
    <3> HIDE DEF j
    <3> QED BY <1>2, <1>4, <1>7, <3>1 DEF j
  <2>3. Split(f, m, trace[t], Expected(f, j))
    BY <1>4, <1>5, ExpectedLatest
  <2>4. Goes(t, DestOf(j), x17[t], trace[t])
    BY <1>1, <2>1, Executed
  <2> HIDE DEF j
  <2> QED BY <1>1, <1>4, <2>2, <2>3, <2>4, HookEntered
<1> QED BY <1>6, <1>7

LEMMA FetchBody ==
  ASSUME EngineInv, FarAtBoot, job > BootJobs, NEW t \in Callers, NEW v \in since[t]..Up, NEW S,
         NEW p, InBody(p, callee[t], job - 1, S), Split(callee[t], v, trace[t], S),
         NEW w \in {text[p[2]][p[3]], seen[p[2]][p[3]]}, Execute(t, p, w)
  PROVE  CallsInv'
<1> DEFINE f == callee[t]
<1>1. PICK i \in 0..BodyWords-1 :
        p = Word(f, i) /\ S = Rest(i) /\ (i >= Covered(f) \/ (f \in Far /\ Latest(f, job - 1) = 0))
  BY DEF InBody
<1>2. w \in {text[f][i], seen[f][i]}
  BY <1>1 DEF Word
<1>3. MemoryInv /\ f \in Functions
  BY ThreadIs
<1>4. w = <<"insn", i>>
  <2>1. CASE i >= Covered(f)
    <3>1. PICK m \in {job - 1, Up} : w = TextOf(f, m)[i]
      BY <1>2, <1>3, TextMet
    <3>2. i \in Covered(f)..BodyWords-1
      BY <2>1, CoveredIs
    <3> QED BY <3>1, <3>2, TextIs
  <2>2. CASE f \in Far /\ Latest(f, job - 1) = 0
    <3>1. text[f] = TextOf(f, job - 1) /\ seen[f] = TextOf(f, job - 1)
      BY <1>3, <2>2, TextMet
    <3>2. TextOf(f, job - 1) = Body /\ Body[i] = <<"insn", i>>
      BY <2>2, TextIs
    <3> QED BY <1>2, <3>1, <3>2
  <2> QED BY <1>1, <2>1, <2>2
<1>5. i + 1 >= Covered(f) \/ (f \in Far /\ Latest(f, job - 1) = 0)
  BY <1>1, CoveredIs
<1> QED BY <1>1, <1>4, <1>5, BodyGoesOn

LEMMA AligningIs ==
  ASSUME NEW f \in Far, NEW i \in 0..Aligning(f) + 1
  PROVE  /\ Aligning(f) \in {0, 1} /\ Covered(f) = Aligning(f) + 4 /\ Covered(f) < BodyWords
         /\ i \in 0..BodyWords-1 /\ i \in 0..Covered(f)-1 /\ (i = BodyWords - 1 <=> FALSE)
         /\ (i = 0 /\ Aligning(f) = 1) \/ i = Aligning(f) \/ i = Aligning(f) + 1
         /\ i # Aligning(f) + 1 => i + 1 \in 0..Aligning(f) + 1 /\ i + 1 \in 0..BodyWords-1 /\ i + 1 \in 0..Covered(f)
         /\ i # Aligning(f) + 1 /\ i # Aligning(f) => i + 1 # Aligning(f) + 1
  BY CoveredIs

(* The words that load and take a far branch.                              *)
LEMMA FetchHeader ==
  ASSUME EngineInv, FarAtBoot, job > BootJobs, NEW t \in Callers, NEW v \in since[t]..Up, NEW S \in SUBSET AllEvents,
         NEW p, InHeader(p, x17[t], callee[t], job - 1, S), Split(callee[t], v, trace[t], S),
         NEW w \in {text[p[2]][p[3]], seen[p[2]][p[3]]}, Execute(t, p, w)
  PROVE  CallsInv'
<1> DEFINE f == callee[t]
           j == Latest(f, job - 1)
           d == DestOf(j)
<1>1. f \in Far /\ j # 0 /\ S = Expected(f, j)
  BY DEF InHeader
<1>2. PICK i \in 0..BodyWords-1 : p = Word(f, i) /\ Toward(f, i, x17[t], d)
  BY DEF InHeader
<1>3. MemoryInv /\ f \in Functions /\ CallsInv /\ trace[t] \in Seq(AllEvents) /\ x17[t] \in Registers
  BY ThreadIs
<1>4. job - 1 \in 0..Len(Jobs) /\ job - 1 <= Up /\ Up \in 0..Len(Jobs) /\ Len(Jobs) \in Nat
  BY <1>3, UpIs DEF MemoryInv
<1>5. Jobs[j].fn = f /\ j \in 1..Up
  <2>1. j \in 0..job-1 /\ Jobs[j].fn = f
    BY <1>1, <1>4, LatestIs
  <2> HIDE DEF j
  <2> QED BY <1>1, <1>4, <2>1
<1>6. d \in Registers
  BY <1>3, <1>5, HookMet DEF Registers
<1>7. text[f] = FarText(f, d) /\ seen[f] = FarText(f, d)
  <2>1. text[f] = TextOf(f, job - 1) /\ seen[f] = TextOf(f, job - 1)
    BY <1>1, <1>3, TextMet
  <2> QED BY <1>1, <2>1, TextIs
<1>8. w = FarText(f, d)[i]
  <2>1. p[2] = f /\ p[3] = i
    BY <1>2 DEF Word
  <2> QED BY <1>7, <2>1
<1>9. i \in 0..Aligning(f) + 1 /\ (i = Aligning(f) + 1 => x17[t] = d)
  BY <1>2 DEF Toward
<1>10. ASSUME NEW x \in Registers, i # Aligning(f) + 1, i + 1 = Aligning(f) + 1 => x = d, Goes(t, Word(f, i + 1), x, trace[t])
       PROVE  CallsInv'
  <2>1. InHeader(Word(f, i + 1), x, f, job - 1, S)
    <3>1. i + 1 \in 0..Aligning(f) + 1 /\ i + 1 \in 0..BodyWords-1
      BY <1>1, <1>9, <1>10, AligningIs
    <3>2. Toward(f, i + 1, x, d)
      BY <1>10, <3>1 DEF Toward
    <3> QED BY <1>1, <3>1, <3>2 DEF InHeader
  <2>2. Ahead(Word(f, i + 1), x, f, job - 1, Up, S)
    BY <2>1 DEF Ahead
  <2> HIDE DEF d, j
  <2> QED BY <1>3, <1>10, <2>2, GoesOn
<1> HIDE DEF j, d
<1>11. NextPlace(p) = Word(f, i + 1) /\ (i = Aligning(f) => i + 1 = Aligning(f) + 1)
  <2>1. i # BodyWords - 1
    BY <1>1, <1>9, AligningIs
  <2> QED BY <1>2, <2>1, NextPlaceIs
<1>12. CASE i # Aligning(f) /\ i # Aligning(f) + 1
  <2>1. i = 0 /\ Aligning(f) = 1 /\ i + 1 # Aligning(f) + 1
    BY <1>1, <1>9, <1>12, AligningIs
  <2>2. w = <<"nop", 0>>
    BY <1>1, <1>8, <2>1, FarTextIs
  <2>3. Goes(t, Word(f, i + 1), x17[t], trace[t])
    BY <1>3, <1>11, <2>2, Executed
  <2> QED BY <1>3, <1>10, <1>12, <2>1, <2>3
<1>13. CASE i = Aligning(f)
  <2>0. Aligning(f) + 1 # Aligning(f) /\ p[2] = f /\ p[3] + 2 = Aligning(f) + 2 /\ Aligning(f) + 3 < BodyWords /\ Aligning(f) + 2 + 1 = Aligning(f) + 3
    <3>1. p[2] = f /\ p[3] = i
      BY <1>2 DEF Word
    <3>2. Aligning(f) \in {0, 1} /\ Covered(f) = Aligning(f) + 4 /\ Covered(f) < BodyWords /\ BodyWords \in Nat
      BY <1>1, CoveredIs
    <3> QED BY <1>13, <3>1, <3>2
  <2>1. w = <<"ldr", 0>>
    BY <1>1, <1>8, <1>13, FarTextIs
  <2>2. FarText(f, d)[Aligning(f) + 2] = <<"low", d>> /\ FarText(f, d)[Aligning(f) + 3] = <<"high", d>>
    BY <1>1, FarTextIs
  <2>3. Literal(p[2], p[3] + 2) = d
    BY <1>7, <2>0, <2>2 DEF Literal
  <2>4. Goes(t, Word(f, i + 1), d, trace[t])
    <3>1. w[1] = "ldr"
      BY <2>1
    <3>2. Goes(t, NextPlace(p), Literal(p[2], p[3] + 2), trace[t])
      BY <1>3, <3>1, Executed
    <3> QED BY <1>11, <2>3, <3>2
  <2> QED BY <1>6, <1>10, <1>13, <2>0, <2>4
<1>14. CASE i = Aligning(f) + 1
  <2>1. w = <<"br", 0>>
    BY <1>1, <1>8, <1>14, FarTextIs
  <2>2. Goes(t, d, d, trace[t])
    BY <1>3, <1>9, <1>14, <2>1, Executed
  <2> QED BY <1>1, <1>5, <1>6, <2>2, HookEntered DEF d
<1> QED BY <1>12, <1>13, <1>14

(* Words that were moved do what they did where they were.                 *)
LEMMA FetchRow ==
  ASSUME EngineInv, job > BootJobs, NEW t \in Callers, NEW v \in since[t]..Up, NEW S \in SUBSET AllEvents,
         NEW p, InRow(p, x17[t], callee[t], Up, S), Split(callee[t], v, trace[t], S),
         Execute(t, p, rows[p[2]][p[3]])
  PROVE  CallsInv'
<1> DEFINE f == callee[t]
           w == rows[p[2]][p[3]]
<1>1. PICK j \in 1..Up, i \in 0..Covered(f) :
        /\ Jobs[j].fn = f /\ HasRow(j) /\ p = Moved(RowOf(j), i)
        /\ Latest(f, j - 1) = 0 => S = Rest(i)
        /\ Latest(f, j - 1) # 0 =>
             /\ S = Expected(f, j - 1)
             /\ f \in Far => Toward(f, i, x17[t], DestOf(Latest(f, j - 1)))
             /\ f \notin Far => i = 0
  BY DEF InRow
<1> DEFINE b == Latest(f, j - 1)
           d == DestOf(b)
<1>2. MemoryInv /\ f \in Functions /\ CallsInv /\ trace[t] \in Seq(AllEvents) /\ x17[t] \in Registers
  BY ThreadIs
<1>3. /\ j \in 1..Len(Jobs) /\ j \in Nat /\ j - 1 \in 0..Len(Jobs) /\ rows[RowOf(j)] = TrampolineOf(j)
      /\ Up \in 0..Len(Jobs) /\ Len(Jobs) \in Nat
  BY <1>1, <1>2, HookMet, JobsAre, UpIs DEF MemoryInv
<1>4. w = MovedText(f, j - 1)[i]
  <2>1. p[2] = RowOf(j) /\ p[3] = i
    BY <1>1 DEF Moved
  <2> QED BY <1>1, <1>3, <2>1 DEF TrampolineOf
<1>5. NextPlace(p) = Moved(RowOf(j), i + 1) /\ Covered(f) \in 1..5 /\ Covered(f) < BodyWords /\ BodyWords \in Nat
  BY <1>1, NextPlaceIs, CoveredIs
<1> HIDE DEF w, b, d
<1>6. CASE b = 0 /\ i # Covered(f)
  <2> DEFINE e == <<"insn", i>>
  <2>0. i \in 0..Covered(f)-1 /\ i \in 0..BodyWords-1 /\ i + 1 \in 0..Covered(f)
    BY <1>5, <1>6
  <2>1. w = e
    BY <1>4, <1>6, <2>0, RowWordsAre DEF b
  <2>2. Len(trace[t]) < MaxTrace => Goes(t, Moved(RowOf(j), i + 1), x17[t], Append(trace[t], e))
    <3>1. Execute(t, p, e)
      BY <2>1 DEF w
    <3> QED BY <1>2, <1>5, <3>1, Executed
  <2>3. S = Rest(i)
    BY <1>1, <1>6 DEF b
  <2>4. /\ S = {e} \cup Rest(i + 1) /\ \A c \in Rest(i + 1) : Before(e, c)
        /\ \A c \in S : c[1] # "callback"
    BY <2>0, <2>3, RestIs
  <2>5. Ahead(Moved(RowOf(j), i + 1), x17[t], f, job - 1, Up, Rest(i + 1))
    <3>1. InRow(Moved(RowOf(j), i + 1), x17[t], f, Up, Rest(i + 1))
      BY <1>1, <1>6, <2>0 DEF InRow, b
    <3> QED BY <3>1 DEF Ahead
  <2> HIDE DEF e
  <2>6. e \in S /\ Rest(i + 1) \in SUBSET S
    BY <2>4
  <2> QED BY <2>2, <2>4, <2>5, <2>6, Records
<1>7. CASE b = 0 /\ i = Covered(f)
  <2>1. w = <<"jump", Word(f, i)>> /\ i \in 0..BodyWords-1
    BY <1>4, <1>5, <1>7, RowWordsAre
  <2>2. S = Rest(i)
    BY <1>1, <1>7 DEF b
  <2>3. Word(f, i) \in Registers
    BY <1>2, <2>1 DEF Registers, Starts
  <2>4. \E x \in Registers : Goes(t, Word(f, i), x, trace[t])
    <3>1. Execute(t, p, <<"jump", Word(f, i)>>)
      BY <2>1 DEF w
    <3>2. Goes(t, Word(f, i), IF f \in Far THEN Word(f, i) ELSE x17[t], trace[t])
      BY <1>2, <3>1, Executed
    <3> QED BY <1>2, <2>3, <3>2
  <2>5. PICK x \in Registers : Goes(t, Word(f, i), x, trace[t])
    BY <2>4
  <2>6. Ahead(Word(f, i), x, f, job - 1, Up, S)
    <3>1. InBody(Word(f, i), f, job - 1, S)
      BY <1>5, <1>7, <2>1, <2>2 DEF InBody
    <3> QED BY <3>1 DEF Ahead
  <2> QED BY <1>2, <2>5, <2>6, GoesOn
<1>8. ASSUME b # 0 PROVE /\ b \in 1..Up /\ Jobs[b].fn = f /\ d \in Registers /\ S = Expected(f, b)
  <2>1. b \in 0..j-1 /\ Jobs[b].fn = f
    BY <1>3, <1>8, LatestIs DEF b
  <2>2. b \in 1..Up
    BY <1>1, <1>3, <1>8, <2>1
  <2>3. d \in Registers
    BY <1>2, <2>2, HookMet DEF Registers, d
  <2>4. S = Expected(f, b)
    <3>1. S = Expected(f, j - 1)
      BY <1>1, <1>8 DEF b
    <3> QED BY <1>3, <3>1, ExpectedLatest DEF b
  <2> QED BY <2>1, <2>2, <2>3, <2>4
<1>9. CASE b # 0 /\ f \notin Far
  <2>1. i = 0
    BY <1>1, <1>9 DEF b
  <2>2. w = <<"jump", d>>
    BY <1>4, <1>9, <2>1, RowWordsAre DEF b, d
  <2>3. Goes(t, d, x17[t], trace[t])
    <3>1. Execute(t, p, <<"jump", d>>)
      BY <2>2 DEF w
    <3> QED BY <1>2, <1>9, <3>1, Executed
  <2>4. Goes(t, DestOf(b), x17[t], trace[t]) /\ b \in 1..Up /\ Jobs[b].fn = callee[t]
        /\ Split(callee[t], v, trace[t], Expected(callee[t], b))
    BY <1>8, <1>9, <2>3 DEF d
  <2> QED BY <1>2, <2>4, HookEntered
<1>10. CASE b # 0 /\ f \in Far
  <2>1. i \in 0..Aligning(f) + 1 /\ (i = Aligning(f) + 1 => x17[t] = d) /\ S = Expected(f, j - 1)
    BY <1>1, <1>10 DEF b, d, Toward
  <2>2. /\ Aligning(f) = 1 => MovedText(f, j - 1)[0] = <<"nop", 0>>
        /\ MovedText(f, j - 1)[Aligning(f)] = <<"load", d>> /\ MovedText(f, j - 1)[Aligning(f) + 1] = <<"br", 0>>
    BY <1>10, RowWordsAre DEF b, d
  <2>3. ASSUME NEW x \in Registers, i # Aligning(f) + 1, i + 1 = Aligning(f) + 1 => x = d,
               Goes(t, Moved(RowOf(j), i + 1), x, trace[t])
        PROVE  CallsInv'
    <3>1. i + 1 \in 0..Aligning(f) + 1 /\ i + 1 \in 0..Covered(f)
      BY <1>10, <2>1, <2>3, AligningIs
    <3>2. Toward(f, i + 1, x, DestOf(Latest(f, j - 1)))
      BY <2>3, <3>1 DEF Toward, d, b
    <3>3. InRow(Moved(RowOf(j), i + 1), x, f, Up, S)
      BY <1>1, <1>10, <2>1, <3>1, <3>2 DEF InRow, b
    <3>4. Ahead(Moved(RowOf(j), i + 1), x, f, job - 1, Up, S)
      BY <3>3 DEF Ahead
    <3> QED BY <1>2, <2>3, <3>4, GoesOn
  <2>4. CASE i # Aligning(f) /\ i # Aligning(f) + 1
    <3>1. i = 0 /\ Aligning(f) = 1 /\ i + 1 # Aligning(f) + 1
      BY <1>10, <2>1, <2>4, AligningIs
    <3>2. Execute(t, p, <<"nop", 0>>)
      BY <1>4, <2>2, <3>1 DEF w
    <3>3. Goes(t, Moved(RowOf(j), i + 1), x17[t], trace[t])
      BY <1>2, <1>5, <3>2, Executed
    <3> QED BY <1>2, <2>3, <2>4, <3>1, <3>3
  <2>5. CASE i = Aligning(f)
    <3>1. Aligning(f) + 1 # Aligning(f)
      BY <1>10, CoveredIs
    <3>2. Execute(t, p, <<"load", d>>)
      BY <1>4, <2>2, <2>5 DEF w
    <3>3. Goes(t, Moved(RowOf(j), i + 1), d, trace[t])
      BY <1>2, <1>5, <3>2, Executed
    <3> QED BY <1>8, <1>10, <2>3, <2>5, <3>1, <3>3
  <2>6. CASE i = Aligning(f) + 1
    <3>1. Execute(t, p, <<"br", 0>>)
      BY <1>4, <2>2, <2>6 DEF w
    <3>2. Goes(t, d, d, trace[t])
      BY <1>2, <2>1, <2>6, <3>1, Executed
    <3>3. Goes(t, DestOf(b), d, trace[t]) /\ b \in 1..Up /\ Jobs[b].fn = callee[t] /\ d \in Registers
          /\ Split(callee[t], v, trace[t], Expected(callee[t], b))
      BY <1>8, <1>10, <3>2 DEF d
    <3> QED BY <3>3, HookEntered
  <2> QED BY <2>4, <2>5, <2>6
<1> QED BY <1>6, <1>7, <1>9, <1>10

(* The sort of place tells where a call is.                                *)
LEMMA Sorts ==
  /\ Idle[1] = "idle" /\ End[1] = "end" /\ Junk[1] = "fault" /\ Undefined[1] = "fault" /\ NullCall[1] = "fault"
  /\ \A f, i : Word(f, i)[1] = "fn" /\ Word(f, i)[2] = f /\ Word(f, i)[3] = i
  /\ \A r, i : Moved(r, i)[1] = "row"
  /\ \A j : CallbackOf(j)[1] = "callback" /\ CallbackOf(j)[2] = j
  /\ \A e : Entry(e)[1] = "entry" /\ Entry(e)[2] = e /\ Impl(e)[1] = "impl" /\ Impl(e)[2] = e
  /\ \A j : DestOf(j)[1] = IF IsInline(j) THEN "entry" ELSE "callback"
  BY DEF Idle, End, Junk, Undefined, NullCall, Word, Moved, CallbackOf, Entry, Impl, DestOf

LEMMA AheadIs ==
  ASSUME NEW p, NEW x, NEW f, NEW n, NEW u, NEW S, Ahead(p, x, f, n, u, S)
  PROVE  /\ p[1] = "end" => S = {}
         /\ p[1] = "fn" => InBody(p, f, n, S) \/ InHeader(p, x, f, n, S)
         /\ p[1] = "row" => InRow(p, x, f, u, S)
         /\ p[1] \in {"callback", "entry", "impl"} => InHook(p, f, u, S)
         /\ p[1] # "fault"
<1>1. CASE p = End /\ S = {}
  BY <1>1, Sorts
<1>2. CASE InBody(p, f, n, S)
  <2>1. p[1] = "fn"
    BY <1>2, Sorts DEF InBody
  <2> QED BY <1>2, <2>1
<1>3. CASE InHeader(p, x, f, n, S)
  <2>1. p[1] = "fn"
    BY <1>3, Sorts DEF InHeader
  <2> QED BY <1>3, <2>1
<1>4. CASE InHook(p, f, u, S)
  <2>1. p[1] \in {"callback", "entry", "impl"}
    BY <1>4, Sorts DEF InHook
  <2> QED BY <1>4, <2>1
<1>5. CASE InRow(p, x, f, u, S)
  <2>1. p[1] = "row"
    BY <1>5, Sorts DEF InRow
  <2> QED BY <1>5, <2>1
<1> QED BY <1>1, <1>2, <1>3, <1>4, <1>5 DEF Ahead

LEMMA FetchKeeps ==
  ASSUME EngineInv, FarAtBoot, NEW t \in Callers, Fetch(t)
  PROVE  CallsInv'
<1> DEFINE p == at[t]
<1>1. p[1] \in {"fn", "row"}
  BY DEF Fetch
<1>2. job > BootJobs /\ Inside(p, x17[t], callee[t], since[t], trace[t], job - 1, Up)
  <2>1. p # Idle
    BY <1>1, Sorts
  <2> QED BY <2>1, ThreadIs
<1>3. ~CanFault(p, callee[t], since[t])
  BY <1>1, Sorts DEF CanFault
<1>4. CASE callee[t] \notin Far /\ p = Word(callee[t], 0) /\ trace[t] = <<>>
  <2>1. p[1] = "fn" /\ p[2] = callee[t] /\ p[3] = 0
    BY <1>4, Sorts
  <2>2. PICK w \in {text[callee[t]][0], seen[callee[t]][0]} : Execute(t, Word(callee[t], 0), w)
    BY <1>4, <2>1 DEF Fetch
  <2> QED BY <1>2, <1>4, <2>2, FetchStart
<1>5. ASSUME NEW v \in since[t]..Up, NEW S \in SUBSET AllEvents,
             Ahead(p, x17[t], callee[t], job - 1, Up, S), Split(callee[t], v, trace[t], S)
      PROVE  CallsInv'
  <2>1. CASE p[1] = "fn"
    <3>1. PICK w \in {text[p[2]][p[3]], seen[p[2]][p[3]]} : Execute(t, p, w)
      BY <2>1 DEF Fetch
    <3>2. InBody(p, callee[t], job - 1, S) \/ InHeader(p, x17[t], callee[t], job - 1, S)
      BY <1>5, <2>1, AheadIs
    <3> HIDE DEF p
    <3> QED BY <1>2, <1>5, <3>1, <3>2, FetchBody, FetchHeader
  <2>2. CASE p[1] = "row"
    <3>1. Execute(t, p, rows[p[2]][p[3]])
      BY <2>2 DEF Fetch
    <3>2. InRow(p, x17[t], callee[t], Up, S)
      BY <1>5, <2>2, AheadIs
    <3> HIDE DEF p
    <3> QED BY <1>2, <1>5, <3>1, <3>2, FetchRow
  <2> QED BY <1>1, <2>1, <2>2
<1> QED BY <1>2, <1>3, <1>4, <1>5 DEF Inside

(* What is recorded, and a fault that a call meets.                        *)
LEMMA Recording ==
  ASSUME CallsInv, NEW t \in Callers, NEW p, NEW e, GoTo(t, p), Recorded(t, e),
         UNCHANGED <<x17, callee, since, install, memory>>
  PROVE  /\ Len(trace[t]) < MaxTrace => Goes(t, p, x17[t], Append(trace[t], e))
         /\ e \in AllEvents => \E tr \in Seq(AllEvents) : Goes(t, p, x17[t], tr)
<1>1. x17 = [x17 EXCEPT ![t] = x17[t]] /\ trace[t] \in Seq(AllEvents)
  BY DEF CallsInv
<1>2. trace' = [trace EXCEPT ![t] = IF Len(trace[t]) < MaxTrace THEN Append(trace[t], e) ELSE trace[t]]
  BY DEF Recorded, CallsInv
<1>3. at' = [at EXCEPT ![t] = p] /\ x17' = [x17 EXCEPT ![t] = x17[t]]
  BY <1>1 DEF GoTo
<1>4. CASE Len(trace[t]) < MaxTrace
  <2>1. Goes(t, p, x17[t], Append(trace[t], e))
    BY <1>2, <1>3, <1>4 DEF Goes
  <2>2. e \in AllEvents => Append(trace[t], e) \in Seq(AllEvents)
    BY <1>1
  <2> QED BY <2>1, <2>2
<1>5. CASE ~(Len(trace[t]) < MaxTrace)
  <2>1. Goes(t, p, x17[t], trace[t])
    BY <1>2, <1>3, <1>5 DEF Goes
  <2> QED BY <1>1, <1>5, <2>1
<1> QED BY <1>4, <1>5

LEMMA Faulted ==
  ASSUME EngineInv, job > BootJobs, NEW t \in Callers, NEW p, NEW tr \in Seq(AllEvents), Goes(t, p, x17[t], tr),
         CanFault(p, callee[t], since[t])
  PROVE  CallsInv'
<1>1. Inside(p, x17[t], callee[t], since[t], tr, job - 1, Up)
  BY DEF Inside
<1>2. x17[t] \in Registers
  BY ThreadIs
<1> QED BY <1>1, <1>2, ThreadMoves

\* A call that is at a hook j, or at its entry.
AtHook(t, j, v) ==
  /\ job > BootJobs /\ j \in 1..Up /\ v \in since[t]..Up /\ Jobs[j].fn = callee[t]
  /\ Split(callee[t], v, trace[t], Expected(callee[t], j))
  /\ at[t] = DestOf(j) \/ (IsInline(j) /\ at[t] = Impl(EntryOf(j)))

LEMMA HookReached ==
  ASSUME EngineInv, NEW t \in Callers, at[t][1] \in {"callback", "entry", "impl"}
  PROVE  \E j, v : AtHook(t, j, v)
<1>1. at[t] # Idle /\ at[t] # Word(callee[t], 0) /\ ~CanFault(at[t], callee[t], since[t])
  BY Sorts DEF CanFault
<1>2. job > BootJobs /\ Inside(at[t], x17[t], callee[t], since[t], trace[t], job - 1, Up)
  BY <1>1, ThreadIs
<1>3. PICK v \in since[t]..Up, S \in SUBSET AllEvents :
        Ahead(at[t], x17[t], callee[t], job - 1, Up, S) /\ Split(callee[t], v, trace[t], S)
  BY <1>1, <1>2 DEF Inside
<1>4. InHook(at[t], callee[t], Up, S)
  BY <1>3, AheadIs
<1> QED BY <1>2, <1>3, <1>4 DEF InHook, AtHook

LEMMA HookIs ==
  ASSUME EngineInv, NEW t \in Callers, NEW j, NEW v, AtHook(t, j, v)
  PROVE  /\ j \in 1..Len(Jobs) /\ j \in 1..job /\ j \in Nat /\ j - 1 \in 0..Len(Jobs) /\ MemoryInv
         /\ Expected(callee[t], j) \in SUBSET AllEvents
         /\ Expected(callee[t], j) = {CallbackOf(j)} \cup (IF HasRow(j) THEN Expected(callee[t], j - 1) ELSE {})
         /\ \A b \in Expected(callee[t], j - 1) : Before(CallbackOf(j), b) /\ b # CallbackOf(j)
         /\ CallbackOf(j) \in AllEvents
         /\ j = job => step \in Placing /\ j > since[t]
<1>1. MemoryInv /\ since[t] \in 0..job-1
  BY ThreadIs
<1>2. j \in 1..Len(Jobs) /\ j \in 1..job /\ Jobs[j].fn = callee[t]
  BY <1>1, HookMet DEF AtHook
<1>3. j \in Nat /\ j - 1 \in 0..Len(Jobs) /\ job \in Nat
  BY <1>1, <1>2, JobsAre DEF MemoryInv, InstallInv
<1>4. Expected(callee[t], j) \in SUBSET AllEvents
  BY <1>2, ExpectedIsEvents, JobsAre
<1>5. j = job => step \in Placing
  <2>1. /\ Up <= job /\ Up \in 0..Len(Jobs) /\ (Up = job => step \in Placing) /\ j \in 1..Up
    BY <1>1, UpIs DEF MemoryInv, AtHook
  <2> QED BY <1>3, <2>1, JobsAre
<1>6. Expected(callee[t], j) = {CallbackOf(j)} \cup (IF HasRow(j) THEN Expected(callee[t], j - 1) ELSE {})
  BY <1>2, ExpectedHook
<1>7. \A b \in Expected(callee[t], j - 1) : Before(CallbackOf(j), b) /\ b # CallbackOf(j)
  BY <1>2, HookIsFirst
<1>8. CallbackOf(j) \in AllEvents
  BY <1>4, <1>6
<1>9. j = job => step \in Placing /\ j > since[t]
  BY <1>1, <1>3, <1>5
<1> QED BY <1>1, <1>2, <1>3, <1>4, <1>6, <1>7, <1>8, <1>9

(* A callback runs and calls the original.                                 *)
LEMMA RunCallbackKeeps ==
  ASSUME EngineInv, NEW t \in Callers, RunCallback(t)
  PROVE  CallsInv'
<1> DEFINE f == callee[t]
<1>1. PICK j, v : AtHook(t, j, v)
  BY HookReached DEF RunCallback
<1>2. /\ job > BootJobs /\ j \in 1..Up /\ v \in since[t]..Up /\ Jobs[j].fn = f
      /\ Split(f, v, trace[t], Expected(f, j))
  BY <1>1 DEF AtHook
<1> DEFINE e == CallbackOf(j)
<1>3. at[t] = e /\ at[t][2] = j /\ ~IsInline(j)
  <2>1. at[t][1] = "callback"
    BY DEF RunCallback
  <2>2. ~IsInline(j) /\ at[t] = DestOf(j)
    BY <1>1, <2>1, Sorts DEF AtHook
  <2> QED BY <2>2, Sorts DEF DestOf
<1>4. /\ j \in 1..Len(Jobs) /\ j \in 1..job /\ j \in Nat /\ j - 1 \in 0..Len(Jobs) /\ MemoryInv
      /\ Expected(f, j) \in SUBSET AllEvents /\ e \in AllEvents
      /\ Expected(f, j) = {e} \cup (IF HasRow(j) THEN Expected(f, j - 1) ELSE {})
      /\ \A b \in Expected(f, j - 1) : Before(e, b) /\ b # e
      /\ j = job => j > since[t]
  BY <1>1, HookIs
<1> DEFINE p == IF Jobs[j].kind = "replace" THEN End ELSE IF orig[j] = -1 THEN NullCall ELSE Moved(orig[j], 0)
<1>5. Recorded(t, e) /\ GoTo(t, p) /\ UNCHANGED <<x17, callee, since, install, memory>> /\ CallsInv
  <2>1. Recorded(t, at[t]) /\ UNCHANGED <<x17, callee, since, install, memory>>
    BY DEF RunCallback
  <2>2. GoTo(t, IF Jobs[at[t][2]].kind = "replace" THEN End
                ELSE IF orig[at[t][2]] = -1 THEN NullCall ELSE Moved(orig[at[t][2]], 0))
    BY DEF RunCallback
  <2> QED BY <1>3, <2>1, <2>2, ThreadIs
<1>6. Jobs[j].kind \in Kinds
  BY <1>4, JobsAre
<1>7. ASSUME NEW R \in SUBSET Expected(f, j), Expected(f, j) = {e} \cup R, \A b \in R : Before(e, b),
             Ahead(p, x17[t], f, job - 1, Up, R)
      PROVE  CallsInv'
  <2> HIDE DEF p, e
  <2>1. Len(trace[t]) < MaxTrace => Goes(t, p, x17[t], Append(trace[t], e))
    BY <1>5, Recording
  <2>2. e \in Expected(f, j)
    BY <1>7
  <2> QED BY <1>2, <1>4, <1>7, <2>1, <2>2, Records
<1>8. CASE ~HasRow(j)
  <2>1. p = End /\ Expected(f, j) = {e} \cup {}
    BY <1>4, <1>8 DEF HasRow
  <2>2. Ahead(p, x17[t], f, job - 1, Up, {})
    BY <2>1 DEF Ahead
  <2> HIDE DEF p, e
  <2> QED BY <1>7, <2>1, <2>2
<1>9. CASE HasRow(j) /\ j # job
  <2>0. Jobs[j].kind = "trampoline"
    BY <1>3, <1>6, <1>9 DEF HasRow, IsInline, Kinds
  <2>1. orig[j] = RowOf(j) /\ RowOf(j) \in Nat
    <3>1. j < job
      BY <1>4, <1>9, JobsAre DEF MemoryInv, InstallInv
    <3> QED BY <1>4, <2>0, <3>1, RowsAre DEF MemoryInv, OrigInv
  <2>2. p = Moved(RowOf(j), 0)
    BY <2>0, <2>1
  <2>3. Latest(f, j - 1) = 0 => Expected(f, j - 1) = Rest(0)
    <3>1. Latest(f, j - 1) = 0 => HooksOf(f, j - 1) = {}
      BY <1>4, LatestIs
    <3>2. Rest(0) = Instructions
      BY DEF Rest, Instructions
    <3> QED BY <3>1, <3>2, ExpectedNone
  <2>4. InRow(p, x17[t], f, Up, Expected(f, j - 1))
    <3>1. 0 \in 0..Covered(f) /\ (f \in Far => Toward(f, 0, x17[t], DestOf(Latest(f, j - 1))))
      BY CoveredIs DEF Toward
    <3> HIDE DEF p
    <3> QED BY <1>2, <1>9, <2>2, <2>3, <3>1 DEF InRow
  <2>5. Ahead(p, x17[t], f, job - 1, Up, Expected(f, j - 1))
    BY <2>4 DEF Ahead
  <2>6. Expected(f, j) = {e} \cup Expected(f, j - 1)
    BY <1>4, <1>9
  <2> HIDE DEF p, e
  <2> QED BY <1>4, <1>7, <2>5, <2>6
<1>10. CASE HasRow(j) /\ j = job
  <2>1. orig[j] = -1
    BY <1>4, <1>10 DEF MemoryInv, OrigInv
  <2>2. p = NullCall
    BY <1>10, <2>1 DEF HasRow
  <2>3. CanFault(p, f, since[t])
    BY <1>2, <1>4, <1>10, <2>2 DEF CanFault
  <2> HIDE DEF p, e
  <2>4. PICK tr \in Seq(AllEvents) : Goes(t, p, x17[t], tr)
    BY <1>4, <1>5, Recording
  <2> QED BY <1>2, <2>3, <2>4, Faulted
<1> QED BY <1>8, <1>9, <1>10

(* The words of an entry are run: they may be missing yet.                 *)
LEMMA RunEntryKeeps ==
  ASSUME EngineInv, NEW t \in Callers, RunEntry(t)
  PROVE  CallsInv'
<1> DEFINE f == callee[t]
<1>1. PICK j, v : AtHook(t, j, v)
  BY HookReached DEF RunEntry
<1>2. /\ job > BootJobs /\ j \in 1..Up /\ v \in since[t]..Up /\ Jobs[j].fn = f
      /\ Split(f, v, trace[t], Expected(f, j))
  BY <1>1 DEF AtHook
<1>3. IsInline(j) /\ at[t][2] = EntryOf(j)
  <2>1. at[t][1] = "entry"
    BY DEF RunEntry
  <2>2. IsInline(j) /\ at[t] = DestOf(j)
    BY <1>1, <2>1, Sorts DEF AtHook
  <2> QED BY <2>2, Sorts DEF DestOf
<1>4. /\ j \in 1..Len(Jobs) /\ MemoryInv /\ Expected(f, j) \in SUBSET AllEvents
      /\ j = job => step \in Placing /\ j > since[t]
      /\ j \in 1..job /\ j \in Nat
  BY <1>1, HookIs
<1> DEFINE p == IF entries[EntryOf(j)].written THEN Impl(EntryOf(j)) ELSE Undefined
<1>5. Goes(t, p, x17[t], trace[t]) /\ trace[t] \in Seq(AllEvents) /\ x17[t] \in Registers
  <2>1. GoTo(t, p) /\ UNCHANGED <<x17, callee, since, trace, install, memory>>
    BY <1>3 DEF RunEntry
  <2>2. x17 = [x17 EXCEPT ![t] = x17[t]] /\ trace = [trace EXCEPT ![t] = trace[t]]
    BY DEF EngineInv, CallsInv
  <2> HIDE DEF p
  <2> QED BY <2>1, <2>2, ThreadIs DEF Goes, GoTo
<1>6. CASE entries[EntryOf(j)].written
  <2>1. Ahead(p, x17[t], f, job - 1, Up, Expected(f, j))
    BY <1>2, <1>3, <1>6 DEF Ahead, InHook
  <2> HIDE DEF p
  <2> QED BY <1>2, <1>4, <1>5, <2>1, GoesOn
<1>7. CASE ~entries[EntryOf(j)].written
  <2>1. j = job
    <3>1. \A k \in 1..job-1 : IsInline(k) => entries[EntryOf(k)].written
      BY <1>4 DEF MemoryInv, EntryInv
    <3>2. ~(j \in 1..job-1)
      BY <1>3, <1>7, <3>1
    <3> QED BY <1>4, <3>2, JobsAre DEF MemoryInv, InstallInv
  <2>2. HasRow(j)
    BY <1>3 DEF IsInline, HasRow
  <2>3. CanFault(p, f, since[t])
    BY <1>2, <1>4, <1>7, <2>1, <2>2 DEF CanFault
  <2> HIDE DEF p
  <2> QED BY <1>2, <1>5, <2>3, Faulted
<1> QED BY <1>6, <1>7

(* The callback of an inline hook runs and returns to the entry, which     *)
(* branches to the second word of the trampoline.                          *)
LEMMA BackIs ==
  ASSUME NEW j \in 1..Len(Jobs), NEW f, Jobs[j].fn = f, IsInline(j)
  PROVE  /\ Latest(f, j - 1) = 0 => BackOf(j) = Moved(RowOf(j), 1)
         /\ Latest(f, j - 1) # 0 => \/ BackOf(j) = Junk
                                    \/ f \in Far /\ Aligning(f) = 1 /\ BackOf(j) = Moved(RowOf(j), 1)
<1> DEFINE w == MovedText(f, j - 1)
           d == DestOf(Latest(f, j - 1))
<1>1. /\ Latest(f, j - 1) = 0 => \A i \in 0..Covered(f)-1 : w[i] = <<"insn", i>>
      /\ Latest(f, j - 1) # 0 /\ f \notin Far => w[0] = <<"jump", d>>
      /\ Latest(f, j - 1) # 0 /\ f \in Far => (Aligning(f) = 1 => w[0] = <<"nop", 0>>) /\ w[Aligning(f)] = <<"load", d>>
  BY RowWordsAre
<1>2. BackOf(j) = IF w[0][1] \in {"insn", "nop", "br"} THEN Moved(RowOf(j), 1) ELSE Junk
  BY DEF BackOf, TrampolineOf
<1> HIDE DEF w, d
<1>3. CASE Latest(f, j - 1) = 0
  <2>1. w[0] = <<"insn", 0>>
    BY <1>1, <1>3, CoveredIs
  <2> QED BY <1>2, <1>3, <2>1
<1>4. CASE Latest(f, j - 1) # 0 /\ f \notin Far
  BY <1>1, <1>2, <1>4
<1>5. CASE Latest(f, j - 1) # 0 /\ f \in Far
  <2>1. CASE Aligning(f) = 1
    BY <1>2, <1>5, <2>1
  <2>2. CASE Aligning(f) = 0
    BY <1>1, <1>2, <1>5, <2>2
  <2> QED BY <1>5, <2>1, <2>2, CoveredIs
<1> QED BY <1>3, <1>4, <1>5

LEMMA RunImplKeeps ==
  ASSUME EngineInv, NEW t \in Callers, RunImpl(t)
  PROVE  CallsInv'
<1> DEFINE f == callee[t]
<1>1. PICK j, v : AtHook(t, j, v)
  BY HookReached DEF RunImpl
<1>2. /\ job > BootJobs /\ j \in 1..Up /\ v \in since[t]..Up /\ Jobs[j].fn = f
      /\ Split(f, v, trace[t], Expected(f, j))
  BY <1>1 DEF AtHook
<1>3. IsInline(j) /\ at[t][2] = EntryOf(j)
  <2>1. at[t][1] = "impl"
    BY DEF RunImpl
  <2>2. IsInline(j) /\ at[t] = Impl(EntryOf(j))
    BY <1>1, <2>1, Sorts DEF AtHook
  <2> QED BY <2>2, Sorts
<1> DEFINE e == CallbackOf(j)
           a == entries[EntryOf(j)]
<1>4. /\ j \in 1..Len(Jobs) /\ j \in 1..job /\ j \in Nat /\ j - 1 \in 0..Len(Jobs) /\ MemoryInv
      /\ Expected(f, j) \in SUBSET AllEvents /\ e \in AllEvents
      /\ Expected(f, j) = {e} \cup (IF HasRow(j) THEN Expected(f, j - 1) ELSE {})
      /\ \A b \in Expected(f, j - 1) : Before(e, b) /\ b # e
      /\ j = job => step \in Placing /\ j > since[t]
  BY <1>1, HookIs
<1>5. HasRow(j) /\ HasInline(f)
  <2>1. DOMAIN Jobs = 1..Len(Jobs)
    BY JobsAre
  <2> QED BY <1>2, <1>3, <1>4, <2>1 DEF HasRow, IsInline, HasInline
<1>6. /\ j \in 1..job-1 => a.callback = j /\ a.back = BackOf(j)
      /\ j = job => a.callback = 0
  <2>1. j = job => step # "take"
    BY <1>4 DEF Placing
  <2> QED BY <1>3, <1>4, <2>1 DEF MemoryInv, EntryInv
<1>7. CASE j = job
  <2>1. GoTo(t, NullCall) /\ trace' = trace /\ UNCHANGED <<x17, callee, since, install, memory>>
    BY <1>3, <1>6, <1>7 DEF RunImpl
  <2>2. /\ x17 = [x17 EXCEPT ![t] = x17[t]] /\ trace = [trace EXCEPT ![t] = trace[t]]
        /\ trace[t] \in Seq(AllEvents)
    BY DEF EngineInv, CallsInv
  <2>3. Goes(t, NullCall, x17[t], trace[t])
    BY <2>1, <2>2 DEF Goes, GoTo
  <2>4. CanFault(NullCall, f, since[t])
    BY <1>2, <1>4, <1>5, <1>7 DEF CanFault
  <2> QED BY <1>2, <2>2, <2>3, <2>4, Faulted
<1>8. CASE j # job
  <2>1. j \in 1..job-1
    BY <1>4, <1>8, JobsAre DEF MemoryInv, InstallInv
  <2> DEFINE p == BackOf(j)
  <2>2. Recorded(t, e) /\ GoTo(t, p) /\ UNCHANGED <<x17, callee, since, install, memory>> /\ CallsInv
    <3>1. a.callback = j /\ a.back = p /\ j # 0
      BY <1>4, <1>6, <2>1
    <3>2. GoTo(t, a.back) /\ Recorded(t, CallbackOf(a.callback)) /\ UNCHANGED <<x17, callee, since, install, memory>>
      BY <1>3, <3>1 DEF RunImpl
    <3> QED BY <3>1, <3>2, ThreadIs
  <2>3. 1 \in 0..Covered(f)
    BY CoveredIs
  <2>4. ASSUME NEW R \in SUBSET Expected(f, j), \A b \in R : Before(e, b),
               \A b \in Expected(f, j) : b[1] = "callback" => b = e \/ b \in R,
               InRow(p, x17[t], f, Up, R)
        PROVE  CallsInv'
    <3> HIDE DEF p, e
    <3>1. Len(trace[t]) < MaxTrace => Goes(t, p, x17[t], Append(trace[t], e))
      BY <2>2, Recording
    <3>2. e \in Expected(f, j)
      BY <1>4
    <3>3. Ahead(p, x17[t], f, job - 1, Up, R)
      BY <2>4 DEF Ahead
    <3> QED BY <1>2, <1>4, <1>5, <2>4, <3>1, <3>2, <3>3, Records
  <2>5. Expected(f, j) = {e} \cup Expected(f, j - 1)
    BY <1>4, <1>5
  <2>6. CASE Latest(f, j - 1) = 0
    <3>1. Expected(f, j - 1) = Rest(0)
      <4>1. HooksOf(f, j - 1) = {}
        BY <1>4, <2>6, LatestIs
      <4>2. Rest(0) = Instructions
        BY DEF Rest, Instructions
      <4> QED BY <4>1, <4>2, ExpectedNone
    <3>2. Rest(0) = {<<"insn", 0>>} \cup Rest(0 + 1) /\ \A b \in Rest(0) : b[1] # "callback"
      <4>1. 0 \in 0..BodyWords-1
        BY SizesAssumption
      <4> QED BY <4>1, RestIs
    <3>3. InRow(p, x17[t], f, Up, Rest(1))
      BY <1>2, <1>4, <1>5, <1>3, <2>3, <2>6, BackIs DEF InRow
    <3> HIDE DEF p, e
    <3>4. /\ Rest(1) \in SUBSET Expected(f, j) /\ \A b \in Rest(1) : Before(e, b)
          /\ \A b \in Expected(f, j) : b[1] = "callback" => b = e \/ b \in Rest(1)
      <4>1. Rest(0 + 1) = Rest(1)
        OBVIOUS
      <4> QED BY <1>4, <2>5, <3>1, <3>2, <4>1
    <3> QED BY <2>4, <3>3, <3>4
  <2>7. CASE Latest(f, j - 1) # 0 /\ f \in Far /\ Aligning(f) = 1 /\ p = Moved(RowOf(j), 1)
    <3>1. Toward(f, 1, x17[t], DestOf(Latest(f, j - 1)))
      BY <2>7 DEF Toward
    <3> HIDE DEF p, e
    <3>2. InRow(p, x17[t], f, Up, Expected(f, j - 1))
      BY <1>2, <1>5, <2>3, <2>7, <3>1 DEF InRow
    <3>3. /\ Expected(f, j - 1) \in SUBSET Expected(f, j)
          /\ \A b \in Expected(f, j) : b[1] = "callback" => b = e \/ b \in Expected(f, j - 1)
      BY <2>5
    <3> QED BY <1>4, <2>4, <3>2, <3>3
  <2>8. CASE Latest(f, j - 1) # 0 /\ p = Junk
    <3>1. HooksOf(Jobs[j].fn, j - 1) # {} /\ DOMAIN Jobs = 1..Len(Jobs)
      BY <1>2, <1>4, <2>8, LatestIs, JobsAre
    <3>2. ~InlineFirst
      BY <1>3, <1>4, <3>1 DEF InlineFirst, IsInline
    <3>3. CanFault(p, f, since[t])
      BY <2>8, <3>2 DEF CanFault
    <3> HIDE DEF p, e
    <3>4. PICK tr \in Seq(AllEvents) : Goes(t, p, x17[t], tr)
      BY <1>4, <2>2, Recording
    <3> QED BY <1>2, <3>3, <3>4, Faulted
  <2> QED BY <1>2, <1>3, <1>4, <2>6, <2>7, <2>8, BackIs
<1> QED BY <1>7, <1>8

LEMMA EndCallKeeps ==
  ASSUME EngineInv, NEW t \in Callers, EndCall(t)
  PROVE  CallsInv'
<1>1. x17 = [x17 EXCEPT ![t] = x17[t]] /\ trace = [trace EXCEPT ![t] = trace[t]]
  BY DEF EngineInv, CallsInv
<1>2. Goes(t, Idle, x17[t], trace[t])
  BY <1>1 DEF EndCall, GoTo, Goes
<1> QED BY <1>2, ThreadIs, ThreadMoves

(* A call sees the hooks that are complete, and may see one more.          *)
LEMMA CallKeeps ==
  ASSUME EngineInv, FarAtBoot, NEW t \in Callers, NEW f \in Functions, Call(t, f)
  PROVE  CallsInv'
<1>1. /\ job > BootJobs /\ at' = [at EXCEPT ![t] = Word(f, 0)] /\ callee' = [callee EXCEPT ![t] = f]
      /\ since' = [since EXCEPT ![t] = job - 1] /\ trace' = [trace EXCEPT ![t] = <<>>]
      /\ x17' = x17 /\ job' = job /\ step' = step /\ Up' = Up
  BY DEF Call, Running, GoTo, install, Up
<1>2. /\ at \in [Callers -> Places] /\ x17 \in [Callers -> Registers] /\ callee \in [Callers -> Functions]
      /\ since \in [Callers -> 0..Len(Jobs)] /\ trace \in [Callers -> Seq(AllEvents)]
      /\ \A k \in Callers : ThreadInv(k)
  BY DEF EngineInv, CallsInv
<1>3. /\ MemoryInv /\ job \in 1..Len(Jobs) + 1 /\ Len(Jobs) \in Nat /\ job - 1 \in 0..Len(Jobs)
      /\ job - 1 <= Up /\ Up \in 0..Len(Jobs)
  BY UpIs DEF EngineInv, MemoryInv
<1>4. Inside(Word(f, 0), x17[t], f, job - 1, <<>>, job - 1, Up)
  <2> DEFINE n == job - 1
             S == Expected(f, n)
  <2>1. n \in n..Up /\ n \in 0..Len(Jobs)
    BY <1>3
  <2>2. S \in SUBSET AllEvents /\ Split(f, n, <<>>, S)
    BY <2>1, StartSplit
  <2>3. 0 \in 0..BodyWords-1
    BY SizesAssumption
  <2>4. CASE f \notin Far
    BY <2>4 DEF Inside
  <2>5. CASE f \in Far /\ Latest(f, n) = 0
    <3>1. S = Rest(0)
      <4>1. HooksOf(f, n) = {}
        BY <2>1, <2>5, LatestIs
      <4>2. Rest(0) = Instructions
        BY DEF Rest, Instructions
      <4> QED BY <4>1, <4>2, ExpectedNone
    <3>2. InBody(Word(f, 0), f, n, S)
      BY <2>3, <2>5, <3>1 DEF InBody
    <3>3. Ahead(Word(f, 0), x17[t], f, n, Up, S)
      BY <3>2 DEF Ahead
    <3> HIDE DEF n, S
    <3> QED BY <2>1, <2>2, <3>3 DEF Inside, n
  <2>6. CASE f \in Far /\ Latest(f, n) # 0
    <3>1. S = Expected(f, Latest(f, n))
      BY <2>1, ExpectedLatest
    <3>2. Toward(f, 0, x17[t], DestOf(Latest(f, n)))
      BY <2>6, CoveredIs DEF Toward
    <3>3. InHeader(Word(f, 0), x17[t], f, n, S)
      BY <2>3, <2>6, <3>1, <3>2 DEF InHeader
    <3>4. Ahead(Word(f, 0), x17[t], f, n, Up, S)
      BY <3>3 DEF Ahead
    <3> HIDE DEF n, S
    <3> QED BY <2>1, <2>2, <3>4 DEF Inside, n
  <2> QED BY <2>4, <2>5, <2>6
<1>5. Word(f, 0) \in Places
  BY SizesAssumption DEF Places, Starts
<1>6. at' \in [Callers -> Places]
  <2> HIDE DEF Places
  <2> QED BY <1>1, <1>2, <1>5
<1>7. trace' \in [Callers -> Seq(AllEvents)]
  <2> HIDE DEF AllEvents
  <2>1. <<>> \in Seq(AllEvents)
    OBVIOUS
  <2> QED BY <1>1, <1>2, <2>1
<1>8. x17' \in [Callers -> Registers] /\ callee' \in [Callers -> Functions] /\ since' \in [Callers -> 0..Len(Jobs)]
  <2> HIDE DEF Registers
  <2> QED BY <1>1, <1>2, <1>3
<1>9. /\ at'[t] = Word(f, 0) /\ callee'[t] = f /\ since'[t] = job - 1 /\ trace'[t] = <<>>
      /\ \A k \in Callers : k # t => /\ at'[k] = at[k] /\ callee'[k] = callee[k] /\ since'[k] = since[k]
                                     /\ trace'[k] = trace[k]
  BY <1>1, <1>2
<1>10. ASSUME NEW k \in Callers PROVE ThreadInv(k)'
  <2>1. CASE k = t
    <3>1. callee'[k] \in Functions /\ trace'[k] \in Seq(AllEvents) /\ x17'[k] \in Registers
      BY <1>7, <1>8
    <3>2. since'[k] \in 0..job'-1
      BY <1>1, <1>3, <1>9, <2>1
    <3>3. Inside(at'[k], x17'[k], callee'[k], since'[k], trace'[k], job' - 1, Up')
      BY <1>1, <1>4, <1>9, <2>1
    <3> QED BY <1>1, <3>1, <3>2, <3>3 DEF ThreadInv
  <2>2. CASE k # t
    BY <1>1, <1>2, <1>9, <2>2 DEF ThreadInv
  <2> QED BY <2>1, <2>2
<1> QED BY <1>6, <1>7, <1>8, <1>10 DEF CallsInv

LEMMA CallsStart == EngineInit => CallsInv
<1> SUFFICES ASSUME EngineInit PROVE CallsInv
  OBVIOUS
<1>1. /\ job = 1 /\ at = [t \in Callers |-> Idle] /\ x17 = [t \in Callers |-> Junk]
      /\ callee \in [Callers -> Functions] /\ since = [t \in Callers |-> 0] /\ trace = [t \in Callers |-> <<>>]
  BY DEF EngineInit
<1>2. Idle \in Places /\ Junk \in Registers /\ 0 \in 0..Len(Jobs) /\ 0 \in 0..job-1 /\ <<>> \in Seq(AllEvents)
  BY <1>1, JobsAre DEF Places, Registers, Faults
<1> HIDE DEF Places, Registers, AllEvents
<1>3. /\ at \in [Callers -> Places] /\ x17 \in [Callers -> Registers]
      /\ since \in [Callers -> 0..Len(Jobs)] /\ trace \in [Callers -> Seq(AllEvents)]
  BY <1>1, <1>2
<1>4. ASSUME NEW t \in Callers PROVE ThreadInv(t)
  <2>1. at[t] = Idle /\ since[t] = 0
    BY <1>1
  <2> QED BY <1>1, <1>2, <1>3, <2>1 DEF ThreadInv
<1> QED BY <1>1, <1>3, <1>4 DEF CallsInv

LEMMA EngineKeeps ==
  ASSUME FarAtBoot, EngineInv, [EngineNext]_engine
  PROVE  EngineInv'
<1>1. ASSUME NEW t \in Callers, ThreadStep(t) \/ \E f \in Functions : Call(t, f)
      PROVE  UNCHANGED <<install, memory>> /\ CallsInv'
  <2>1. CASE Fetch(t)
    <3>1. UNCHANGED <<install, memory>>
      BY <2>1 DEF Fetch, Execute
    <3> QED BY <2>1, <3>1, FetchKeeps
  <2>2. CASE RunCallback(t)
    <3>1. UNCHANGED <<install, memory>>
      BY <2>2 DEF RunCallback
    <3> QED BY <2>2, <3>1, RunCallbackKeeps
  <2>3. CASE RunEntry(t)
    <3>1. UNCHANGED <<install, memory>>
      BY <2>3 DEF RunEntry
    <3> QED BY <2>3, <3>1, RunEntryKeeps
  <2>4. CASE RunImpl(t)
    <3>1. UNCHANGED <<install, memory>>
      BY <2>4 DEF RunImpl
    <3> QED BY <2>4, <3>1, RunImplKeeps
  <2>5. CASE EndCall(t)
    <3>1. UNCHANGED <<install, memory>>
      BY <2>5 DEF EndCall
    <3> QED BY <2>5, <3>1, EndCallKeeps
  <2>6. ASSUME NEW f \in Functions, Call(t, f) PROVE UNCHANGED <<install, memory>> /\ CallsInv'
    <3>1. UNCHANGED <<install, memory>>
      BY <2>6 DEF Call
    <3> QED BY <2>6, <3>1, CallKeeps
  <2> QED BY <1>1, <2>1, <2>2, <2>3, <2>4, <2>5, <2>6 DEF ThreadStep
<1>2. CASE Install
  <2>1. MemoryInv'
    BY <1>2, MemoryKept DEF EngineInv
  <2> QED BY <1>2, <2>1, InstallKeepsCalls DEF EngineInv
<1>3. CASE UNCHANGED engine
  <2>1. UNCHANGED <<install, memory>> /\ UNCHANGED <<at, x17, callee, since, trace, job, step>>
    BY <1>3 DEF engine, install, threads
  <2>2. MemoryInv'
    BY <2>1, MemoryKept DEF EngineInv
  <2>3. CallsInv'
    BY <2>1 DEF EngineInv, CallsInv, ThreadInv, Up
  <2> QED BY <2>2, <2>3 DEF EngineInv
<1>4. CASE Stopped
  BY <1>3, <1>4 DEF Stopped
<1>5. ASSUME NEW t \in Callers, ThreadStep(t) \/ \E f \in Functions : Call(t, f) PROVE EngineInv'
  BY <1>1, <1>5, MemoryKept DEF EngineInv
<1> QED BY <1>2, <1>3, <1>4, <1>5 DEF EngineNext

LEMMA EngineInvariant == ASSUME FarAtBoot PROVE EngineSpec => []EngineInv
<1>1. EngineInit => EngineInv
  BY MemoryStarts, CallsStart DEF EngineInv
<1>2. EngineInv /\ [EngineNext]_engine => EngineInv'
  BY EngineKeeps
<1> QED BY <1>1, <1>2, PTL DEF EngineSpec

(* A call that has ended has nothing ahead of it.                          *)
LEMMA EndedCall ==
  ASSUME EngineInv, NEW t \in Callers, at[t] = End
  PROVE  \E v \in Views(t) : Split(callee[t], v, trace[t], {})
<1>1. at[t][1] = "end" /\ at[t] # Idle /\ at[t] # Word(callee[t], 0) /\ ~CanFault(at[t], callee[t], since[t])
  BY Sorts DEF CanFault
<1>2. Inside(at[t], x17[t], callee[t], since[t], trace[t], job - 1, Up)
  BY <1>1, ThreadIs
<1>3. PICK v \in since[t]..Up, S \in SUBSET AllEvents :
        Ahead(at[t], x17[t], callee[t], job - 1, Up, S) /\ Split(callee[t], v, trace[t], S)
  BY <1>1, <1>2 DEF Inside
<1>4. S = {}
  BY <1>1, <1>3, AheadIs
<1>5. v \in Views(t)
  BY <1>3 DEF Views, Up, Placing
<1> QED BY <1>3, <1>4, <1>5

(* Whenever a function is called, before, while or after it is hooked, the *)
(* call runs the callbacks of a consistent set of hooks, each once, the    *)
(* latest first, and then every instruction of the function, moved ones    *)
(* included, once and in order: for every list of hooks and every number   *)
(* of threads, as long as hooks out of a branch's reach are there before   *)
(* the game runs.                                                          *)
THEOREM EveryCallIsWhole == ASSUME FarAtBoot PROVE EngineSpec => []CallsWhole
<1>1. EngineInv => CallsWhole
  <2> SUFFICES ASSUME EngineInv, NEW t \in Callers, at[t] = End, ~HasInline(callee[t]) PROVE Whole(t)
    BY DEF CallsWhole
  <2>1. PICK v \in Views(t) : Split(callee[t], v, trace[t], {})
    BY EndedCall
  <2> QED BY <2>1 DEF Split, Whole
<1> QED BY <1>1, EngineInvariant, PTL

(* The same of the callbacks alone, for inline hooks too.                  *)
THEOREM EveryHookRuns == ASSUME FarAtBoot PROVE EngineSpec => []HooksRun
<1>1. EngineInv => HooksRun
  <2> SUFFICES ASSUME EngineInv, NEW t \in Callers, at[t] = End
               PROVE  InOrder(trace[t]) /\ \E n \in Views(t) : CallbacksRun(t) = Calls(callee[t], n)
    BY DEF HooksRun
  <2>1. PICK v \in Views(t) : Split(callee[t], v, trace[t], {})
    BY EndedCall
  <2>2. CallbacksRun(t) = {e \in Events(trace[t]) \cup {} : e[1] = "callback"}
    BY DEF CallbacksRun
  <2> QED BY <2>1, <2>2 DEF Split
<1> QED BY <1>1, EngineInvariant, PTL

(* Calls meet no fault but that of a hook that is still being installed,   *)
(* and rows and entries come from their pools, when an inline hook is also *)
(* the first of its function.                                              *)
THEOREM HooksAreSound == ASSUME FarAtBoot, InlineFirst PROVE EngineSpec => []HookSound
<1>1. EngineInv => EngineTypeOK
  <2> SUFFICES ASSUME EngineInv PROVE EngineTypeOK
    OBVIOUS
  <2>1. /\ job \in 1..Len(Jobs)+1 /\ step \in Steps /\ index \in 0..HookMax+1 /\ row \in -1..HookMax
        /\ entryIndex \in 0..EntryMax /\ aborted \in BOOLEAN
        /\ text \in [Functions -> [0..BodyWords-1 -> CodeWords]]
        /\ seen \in [Functions -> [0..BodyWords-1 -> CodeWords]]
        /\ rows \in [0..HookMax -> RowTexts] /\ orig \in [1..Len(Jobs) -> -1..HookMax]
    BY DEF EngineInv, MemoryInv, MemoryTypeOK, InstallInv, IndexInv
  <2>2. ASSUME NEW r \in 0..HookMax, rows[r] # <<>> PROVE \E n \in 1..5 : rows[r] \in [0..n -> RowWords]
    <3>1. rows[r] \in RowTexts
      BY <2>1
    <3> HIDE DEF RowWords
    <3> QED BY <2>2, <3>1 DEF RowTexts
  <2>3. /\ at \in [Callers -> Places] /\ x17 \in [Callers -> Destinations \cup Starts \cup Faults]
        /\ callee \in [Callers -> Functions] /\ since \in [Callers -> 0..Len(Jobs)]
    BY DEF EngineInv, CallsInv, Registers
  <2> QED BY <2>1, <2>2, <2>3, JobsAre DEF EngineTypeOK
<1>2. ASSUME InlineFirst, EngineInv PROVE FaultsOnlyWhileInstalling
  <2> SUFFICES ASSUME NEW t \in Callers, at[t][1] = "fault"
               PROVE  /\ at[t] # Junk
                      /\ \E j \in DOMAIN Jobs : j > since[t] /\ Jobs[j].fn = callee[t] /\ Jobs[j].kind # "replace"
    BY DEF FaultsOnlyWhileInstalling
  <2>1. at[t] # Idle /\ at[t] # Word(callee[t], 0)
    BY Sorts
  <2>2. Inside(at[t], x17[t], callee[t], since[t], trace[t], job - 1, Up)
    BY <1>2, <2>1, ThreadIs
  <2>3. CanFault(at[t], callee[t], since[t])
    BY <2>1, <2>2, AheadIs DEF Inside
  <2>4. Junk # Undefined /\ Junk # NullCall
    BY DEF Junk, Undefined, NullCall
  <2>5. \E j \in 1..Len(Jobs) : j > since[t] /\ Jobs[j].fn = callee[t] /\ HasRow(j)
    BY <1>2, <2>3 DEF CanFault
  <2> QED BY <1>2, <2>3, <2>4, <2>5, JobsAre DEF CanFault, HasRow
<1>3. EngineInv => HookSound
  BY <1>1, <1>2 DEF HookSound
<1> QED BY <1>3, EngineInvariant, PTL

-----------------------------------------------------------------------------
(* Exceptions.                                                             *)

USE DEF NewFrame, Accepting, Parked, Caught, Skipped, Reloaded, Rearmed, GivesUp

(* A catch stack without its last frame is a catch stack.                  *)
LEMMA PoppedType ==
  ASSUME NEW s \in Seq(Frames), Len(s) > 0
  PROVE  /\ SubSeq(s, 1, Len(s) - 1) \in Seq(Frames)
         /\ Len(SubSeq(s, 1, Len(s) - 1)) = Len(s) - 1
         /\ \A i \in 1..Len(s) - 1 : SubSeq(s, 1, Len(s) - 1)[i] = s[i]
         /\ s[Len(s)] \in Frames
<1>1. \A i \in 1..Len(s) - 1 : s[i] \in Frames
  BY LenProperties
<1>2. 1 \in Int /\ Len(s) - 1 \in Int
  BY LenProperties
<1>3. /\ SubSeq(s, 1, Len(s) - 1) \in Seq(Frames)
      /\ Len(SubSeq(s, 1, Len(s) - 1)) =
           IF 1 <= Len(s) - 1 THEN Len(s) - 1 - 1 + 1 ELSE 0
      /\ \A i \in 1..Len(s) - 1 - 1 + 1 : SubSeq(s, 1, Len(s) - 1)[i] = s[1 + i - 1]
  BY ONLY <1>1, <1>2, SubSeqProperties
<1>4. Len(s) \in Nat /\ s[Len(s)] \in Frames
  BY LenProperties, ElementOfSeq
<1>5. /\ Len(SubSeq(s, 1, Len(s) - 1)) = Len(s) - 1
      /\ \A i \in 1..Len(s) - 1 : SubSeq(s, 1, Len(s) - 1)[i] = s[i]
  <2> DEFINE u == SubSeq(s, 1, Len(s) - 1)
             n == Len(s)
  <2>1. /\ Len(u) = IF 1 <= n - 1 THEN n - 1 - 1 + 1 ELSE 0
        /\ \A i \in 1..n - 1 - 1 + 1 : u[i] = s[1 + i - 1]
        /\ n \in Nat /\ n > 0
    BY <1>3, <1>4
  <2> HIDE DEF u, n
  <2>2. Len(u) = n - 1 /\ \A i \in 1..n - 1 : u[i] = s[i]
    BY <2>1
  <2> QED BY <2>2 DEF u, n
<1> QED BY <1>3, <1>4, <1>5

(* One register group, or the pc alone, replaced in a register file.       *)
LEMMA RegsUpdate ==
  ASSUME NEW r \in Regs, NEW l \in Lows, NEW a \in Acts, NEW c \in Acts,
         NEW p \in {"code", "abort", "pop", "handler"}
  PROVE  /\ [r EXCEPT !.low = l] \in Regs
         /\ [r EXCEPT !.fp = a, !.callee = c] \in Regs
         /\ [r EXCEPT !.low.pc = p] \in Regs
  BY DEF Regs, Lows

(* The same in the register files of all threads.                          *)
LEMMA ThreadRegsUpdate ==
  ASSUME NEW f \in [Threads -> Regs], NEW t \in Threads, NEW l \in Lows,
         NEW a \in Acts, NEW c \in Acts,
         NEW p \in {"code", "abort", "pop", "handler"}
  PROVE  /\ [f EXCEPT ![t].low = l] \in [Threads -> Regs]
         /\ [f EXCEPT ![t].fp = a, ![t].callee = c] \in [Threads -> Regs]
         /\ [f EXCEPT ![t].low.pc = p] \in [Threads -> Regs]
<1>1. f[t] \in Regs
  OBVIOUS
<1>2. \A r \in Regs : [f EXCEPT ![t] = r] \in [Threads -> Regs]
  OBVIOUS
<1>3. /\ [f[t] EXCEPT !.low = l] \in Regs
      /\ [f[t] EXCEPT !.fp = a, !.callee = c] \in Regs
      /\ [f[t] EXCEPT !.low.pc = p] \in Regs
  BY <1>1, RegsUpdate
<1>4. [f EXCEPT ![t].low = l] = [f EXCEPT ![t] = [f[t] EXCEPT !.low = l]]
  OBVIOUS
<1>5. [f EXCEPT ![t].fp = a, ![t].callee = c] =
        [f EXCEPT ![t] = [f[t] EXCEPT !.fp = a, !.callee = c]]
  BY <1>1 DEF Regs
<1>6. [f EXCEPT ![t].low.pc = p] = [f EXCEPT ![t] = [f[t] EXCEPT !.low.pc = p]]
  OBVIOUS
<1> QED BY <1>2, <1>3, <1>4, <1>5, <1>6

(* The register files that the model builds from nothing.                  *)
LEMMA OwnRegsType ==
  ASSUME NEW t \in Threads, NEW d \in 0..MaxDepth
  PROVE  OwnRegs(t, d) \in Regs
  BY DEF OwnRegs, Regs, Lows, Acts

LEMMA NoFaultType ==
  /\ HandlerLow \in Lows
  /\ NoFault \in [regs: Regs, verdict: Verdicts]
  BY DEF NoFault, HandlerLow, Regs, Lows, Acts, Verdicts

(* A parked register file or a verdict recorded for one thread.            *)
LEMMA FaultUpdate ==
  ASSUME NEW f \in [Threads -> [regs: Regs, verdict: Verdicts]], NEW t \in Threads,
         NEW r \in Regs, NEW v \in Verdicts
  PROVE  /\ [f EXCEPT ![t].regs = r] \in [Threads -> [regs: Regs, verdict: Verdicts]]
         /\ [f EXCEPT ![t].verdict = v] \in [Threads -> [regs: Regs, verdict: Verdicts]]
  OBVIOUS

(* Every variable keeps its type, and no thread nests deeper than MaxDepth.*)
THEOREM TypeCorrect == Spec => []TypeOK
<1>1. Init => TypeOK
  <2> SUFFICES ASSUME Init PROVE TypeOK
    OBVIOUS
  <2>1. exceptionInfo \in [low: Lows, fp: Acts, callee: Acts, state: States]
    BY NoFaultType DEF Init, Acts, States
  <2>2. \A t \in Threads : OwnRegs(t, 0) \in Regs
    BY OwnRegsType, DepthAssumption
  <2>3. /\ catchStack \in [Threads -> Seq(Frames)]
        /\ \A t \in Threads : Depth(t) <= MaxDepth
    BY DepthAssumption DEF Init, Depth
  <2> QED BY <2>1, <2>2, <2>3, NoFaultType DEF Init, TypeOK, Exits, Phases
<1>2. TypeOK /\ [Next]_vars => TypeOK'
  <2> SUFFICES ASSUME TypeOK, [Next]_vars PROVE TypeOK'
    OBVIOUS
  <2> USE DepthAssumption DEF TypeOK, States, Exits, Phases, Verdicts
  <2>1. CASE UNCHANGED vars
    BY <2>1 DEF vars, Depth
  <2>2. CASE InstallBranch \/ InstallPointer \/ ProcessGone
    BY <2>2 DEF InstallBranch, InstallPointer, ProcessGone, vars, Depth
  <2>3. ASSUME NEW t \in Threads, TryCatch(t) PROVE TypeOK'
    <3>1. RunsCode(t) /\ Depth(t) < MaxDepth
      BY <2>3 DEF TryCatch
    <3>2. [act |-> regs[t].low.act, fp |-> regs[t].fp, callee |-> regs[t].callee] \in Frames
      BY DEF Regs, Lows, Frames
    <3>3. /\ catchStack' \in [Threads -> Seq(Frames)]
          /\ \A u \in Threads : Depth(u)' <= MaxDepth
      BY <2>3, <3>1, <3>2 DEF TryCatch, Depth
    <3>4. regs' \in [Threads -> Regs]
      <4>1. OwnRegs(t, Depth(t) + 1) \in Regs
        BY <3>1 DEF OwnRegs, Regs, Lows, Acts, Depth
      <4> QED BY <4>1, <2>3 DEF TryCatch
    <3> QED BY <2>3, <3>3, <3>4 DEF TryCatch
  <2>4. ASSUME NEW t \in Threads, TryReturns(t) PROVE TypeOK'
    <3>1. Len(catchStack[t]) > 0
      BY <2>4 DEF TryReturns, Depth
    <3>2. /\ catchStack' \in [Threads -> Seq(Frames)]
          /\ \A u \in Threads : Depth(u)' <= MaxDepth
      BY <2>4, <3>1, PoppedType DEF TryReturns, Depth, Popped
    <3>3. Top(t) \in Frames
      BY <3>1, PoppedType DEF Top
    <3>4. regs' \in [Threads -> Regs]
      BY <2>4, <3>3 DEF TryReturns, Frames, Regs, Lows
    <3> QED BY <2>4, <3>2, <3>4 DEF TryReturns
  <2>5. ASSUME NEW t \in Threads, PopCatch(t) PROVE TypeOK'
    <3>1. Len(catchStack[t]) > 0
      BY <2>5 DEF PopCatch, Depth
    <3>2. /\ catchStack' \in [Threads -> Seq(Frames)]
          /\ \A u \in Threads : Depth(u)' <= MaxDepth
      BY <2>5, <3>1, PoppedType DEF PopCatch, Depth, Popped
    <3>3. regs' \in [Threads -> Regs]
      BY <2>5, ThreadRegsUpdate, NoFaultType DEF PopCatch, Acts
    <3> QED BY <2>5, <3>2, <3>3 DEF PopCatch
  <2>6. ASSUME NEW t \in Threads, NEW r \in Regs, PhaseOne(t, r) PROVE TypeOK'
    <3>1. CASE UnhandledFault(t)
      BY <3>1 DEF UnhandledFault, Depth
    <3>2. CASE RejectFault(t)
      BY <3>2 DEF RejectFault, Depth
    <3>3. CASE AcceptFault(t, r)
      <4>1. exceptionInfo' \in [low: Lows, fp: Acts, callee: Acts, state: States]
        BY <3>3 DEF AcceptFault, Regs
      <4>2. regs' \in [Threads -> Regs]
        BY <3>3, ThreadRegsUpdate, NoFaultType DEF AcceptFault, Acts
      <4>3. /\ phase' \in [Threads -> Phases]
            /\ fault' \in [Threads -> [regs: Regs, verdict: Verdicts]]
        BY <3>3, FaultUpdate DEF AcceptFault
      <4> QED BY <3>3, <4>1, <4>2, <4>3 DEF AcceptFault, Depth
    <3> QED BY <2>6, <3>1, <3>2, <3>3 DEF PhaseOne
  <2>7. ASSUME NEW t \in Threads, Fault(t) PROVE TypeOK'
    BY <2>6, <2>7 DEF Fault
  <2>8. ASSUME NEW t \in Threads, Abort(t) PROVE TypeOK'
    <3>1. [regs[t] EXCEPT !.low.pc = "abort"] \in Regs
      BY RegsUpdate, NoFaultType DEF Acts
    <3> QED BY <2>6, <2>8, <3>1 DEF Abort
  <2>9. ASSUME NEW t \in Threads, FaultInHandler(t) PROVE TypeOK'
    BY <2>6, <2>9 DEF FaultInHandler
  <2>10. ASSUME NEW t \in Threads, PhaseTwo(t) PROVE TypeOK'
    <3>1. exceptionInfo' \in [low: Lows, fp: Acts, callee: Acts, state: States]
      BY <2>10 DEF PhaseTwo, Regs
    <3>2. regs' \in [Threads -> Regs]
      BY <2>10, ThreadRegsUpdate, NoFaultType DEF PhaseTwo, Acts
    <3> QED BY <2>10, <3>1, <3>2 DEF PhaseTwo, Depth
  <2>11. ASSUME NEW t \in Threads, CatchAccepts(t) PROVE TypeOK'
    <3>1. Top(t) \in Frames
      BY <2>11, PoppedType DEF CatchAccepts, Depth, Top
    <3>2. exceptionInfo' \in [low: Lows, fp: Acts, callee: Acts, state: States]
      BY <2>11, <3>1 DEF CatchAccepts, Frames, Lows
    <3>3. fault' \in [Threads -> [regs: Regs, verdict: Verdicts]]
      BY <2>11, FaultUpdate, NoFaultType DEF CatchAccepts
    <3> QED BY <2>11, <3>2, <3>3 DEF CatchAccepts, Depth
  <2>12. ASSUME NEW t \in Threads, CatchRefuses(t) PROVE TypeOK'
    <3>1. fault' \in [Threads -> [regs: Regs, verdict: Verdicts]]
      BY <2>12, FaultUpdate, NoFaultType DEF CatchRefuses
    <3> QED BY <2>12, <3>1 DEF CatchRefuses, Depth
  <2>13. ASSUME NEW t \in Threads, HandlerSkips(t) PROVE TypeOK'
    <3>1. exceptionInfo' \in [low: Lows, fp: Acts, callee: Acts, state: States]
      BY <2>13 DEF HandlerSkips, Lows
    <3>2. fault' \in [Threads -> [regs: Regs, verdict: Verdicts]]
      BY <2>13, FaultUpdate, NoFaultType DEF HandlerSkips
    <3> QED BY <2>13, <3>1, <3>2 DEF HandlerSkips, Depth
  <2>14. ASSUME NEW t \in Threads, PhaseFour(t) PROVE TypeOK'
    <3>1. regs' \in [Threads -> Regs]
      BY <2>14, ThreadRegsUpdate, NoFaultType, ZenonT(60) DEF PhaseFour
    <3> QED BY <2>14, <3>1 DEF PhaseFour, Depth
  <2>15. ASSUME NEW t \in Threads, Trap(t) PROVE TypeOK'
    <3>1. regs' \in [Threads -> Regs]
      BY <2>15, ThreadRegsUpdate, ZenonT(60) DEF Trap, Acts
    <3>2. exceptionInfo' \in [low: Lows, fp: Acts, callee: Acts, state: States]
      BY <2>15 DEF Trap
    <3> QED BY <2>15, <3>1, <3>2, NoFaultType DEF Trap, Depth
  <2>16. ASSUME NEW t \in Threads, Astray(t) PROVE TypeOK'
    BY <2>16 DEF Astray, vars, Depth
  <2> QED
    BY <2>1, <2>2, <2>3, <2>4, <2>5, <2>7, <2>8, <2>9, <2>10, <2>11, <2>12, <2>13,
       <2>14, <2>15, <2>16 DEF Next, HandlerStep, PhaseThree
<1> QED BY <1>1, <1>2, PTL DEF Spec

-----------------------------------------------------------------------------
(* Every step keeps the inductive invariant, action by action.             *)
LEMMA PathStep ==
  ASSUME TypeOK, TypeOK', PathInv, [Next]_vars
  PROVE  PathInv'
<1> USE DEF PathInv, HandlerStackExclusive, StateTracksOwner, OwnContext, CatchChain,
        ParkedContext, OnHandlerStack, Undecided, Decided, ResumesOwnContext, Depth
<1>1. CASE UNCHANGED vars
  BY <1>1 DEF vars
<1>2. CASE InstallBranch \/ InstallPointer \/ ProcessGone
  BY <1>2, SMTT(180) DEF InstallBranch, InstallPointer, ProcessGone, vars
<1>3. ASSUME NEW t \in Threads, TryCatch(t) PROVE PathInv'
  BY <1>3, SMTT(180) DEF TryCatch, RunsCode, OwnRegs, TypeOK
<1>4. ASSUME NEW t \in Threads, TryReturns(t) PROVE PathInv'
  BY <1>4, PoppedType, SMTT(180) DEF TryReturns, RunsCode, Top, Popped, TypeOK
<1>5. ASSUME NEW t \in Threads, PopCatch(t) PROVE PathInv'
  BY <1>5, PoppedType, SMTT(180) DEF PopCatch, Top, Popped, TypeOK
<1>6. ASSUME NEW t \in Threads, NEW r \in Regs, AcceptFault(t, r),
             RunsCode(t), r.fp = regs[t].fp, r.callee = regs[t].callee,
             r.low.act = regs[t].low.act, r.low.pc \in {"code", "abort"}
      PROVE  PathInv'
  <2> SUFFICES ASSUME ~overtaken' PROVE PathInv'
    OBVIOUS
  <2>1. ~overtaken /\ exit = "no" /\ phase[t] = "run" /\ exit' = "no"
    BY <1>6 DEF AcceptFault, RunsCode
  <2>2. \A u \in Threads \ {t} :
          /\ phase[u] = "run" /\ phase'[u] = "run"
          /\ regs'[u] = regs[u] /\ fault'[u] = fault[u] /\ catchStack'[u] = catchStack[u]
    <3>1. \A u \in Threads \ {t} : phase[u] \notin {"two", "three"}
      BY <1>6, <2>1 DEF AcceptFault
    <3>2. \A u \in Threads \ {t} : phase[u] \notin {"four", "trap"}
      BY <1>6 DEF AcceptFault
    <3>3. \A u \in Threads \ {t} : phase[u] = "run"
      BY <3>1, <3>2 DEF TypeOK, Phases
    <3> QED BY <1>6, <3>3 DEF AcceptFault, TypeOK
  <2>3. /\ phase'[t] = "two" /\ catchStack'[t] = catchStack[t]
        /\ exceptionInfo'.low = r.low /\ exceptionInfo'.state = "SecondChance"
        /\ fault'[t].regs = r
    BY <1>6 DEF AcceptFault, TypeOK
  <2>4. regs'[t].fp = regs[t].fp /\ regs'[t].callee = regs[t].callee
    BY <1>6 DEF AcceptFault, TypeOK, Regs
  <2>5. regs[t].low.act = <<t, Depth(t)>> /\ regs[t].fp = <<t, Depth(t)>>
    BY <1>6, <2>1 DEF RunsCode
  <2>6. HandlerStackExclusive' /\ StateTracksOwner'
    BY <2>2, <2>3
  <2>7. OwnContext'
    BY <2>1, <2>2, <2>3, SMTT(180)
  <2>8. CatchChain'
    BY <2>1, <2>2, <2>3
  <2>9. ParkedContext'
    BY <1>6, <2>2, <2>3, <2>4, <2>5
  <2> QED BY <2>6, <2>7, <2>8, <2>9
<1>7. ASSUME NEW t \in Threads, UnhandledFault(t) \/ RejectFault(t) PROVE PathInv'
  BY <1>7 DEF UnhandledFault, RejectFault
<1>8. ASSUME NEW t \in Threads, Fault(t) PROVE PathInv'
  <2>1. RunsCode(t) /\ PhaseOne(t, regs[t]) /\ regs[t] \in Regs /\ regs[t].low.pc = "code"
    BY <1>8 DEF Fault, RunsCode, TypeOK
  <2>2. CASE AcceptFault(t, regs[t])
    BY ONLY <1>6, <2>1, <2>2, <1>8
  <2> QED BY ONLY <1>7, <2>1, <2>2, <1>8 DEF PhaseOne
<1>9. ASSUME NEW t \in Threads, Abort(t) PROVE PathInv'
  <2> DEFINE r == [regs[t] EXCEPT !.low.pc = "abort"]
  <2>1. RunsCode(t) /\ PhaseOne(t, r)
    BY <1>9 DEF Abort
  <2>2. regs[t] \in Regs
    BY <1>9 DEF TypeOK
  <2>3. /\ r \in Regs /\ r.fp = regs[t].fp /\ r.callee = regs[t].callee
        /\ r.low.act = regs[t].low.act /\ r.low.pc = "abort"
    BY <2>2 DEF Regs, Lows
  <2> HIDE DEF r
  <2>4. CASE AcceptFault(t, r)
    BY ONLY <1>6, <2>1, <2>3, <2>4, <1>9
  <2> QED BY ONLY <1>7, <2>1, <2>4, <1>9 DEF PhaseOne
<1>10. ASSUME NEW t \in Threads, FaultInHandler(t) PROVE PathInv'
  BY <1>7, <1>10 DEF FaultInHandler, PhaseOne, AcceptFault
<1>11. ASSUME NEW t \in Threads, PhaseTwo(t) PROVE PathInv'
  BY <1>11, SMTT(30) DEF PhaseTwo, TypeOK
<1>12. ASSUME NEW t \in Threads, CatchAccepts(t) PROVE PathInv'
  <2> SUFFICES ASSUME ~overtaken' PROVE PathInv'
    OBVIOUS
  <2>1. ~overtaken /\ phase[t] = "three" /\ Depth(t) > 0 /\ Depth(t) \in Nat
    BY <1>12, LenProperties DEF CatchAccepts, TypeOK
  <2>2. Top(t).act = <<t, Depth(t) - 1>> /\ Top(t).fp = <<t, Depth(t) - 1>>
    BY <2>1 DEF Top
  <2>3. /\ exceptionInfo'.low = [act |-> <<t, Depth(t) - 1>>, pc |-> "pop"]
        /\ exceptionInfo'.fp = <<t, Depth(t) - 1>>
        /\ exceptionInfo'.callee = exceptionInfo.callee
        /\ exceptionInfo'.state = "Continue"
    BY <1>12, <2>2 DEF CatchAccepts, TypeOK
  <2>4. /\ phase'[t] = "four" /\ fault'[t].verdict = "Continue"
        /\ fault'[t].regs = fault[t].regs
        /\ UNCHANGED <<catchStack, regs, exit>>
    BY <1>12 DEF CatchAccepts, TypeOK
  <2>5. \A u \in Threads \ {t} : phase'[u] = phase[u] /\ ~OnHandlerStack(u)
    BY <1>12, <2>1 DEF CatchAccepts, TypeOK
  <2>6. HandlerStackExclusive' /\ StateTracksOwner'
    BY <2>3, <2>4, <2>5
  <2>7. OwnContext' /\ CatchChain'
    BY <2>1, <2>4, <2>5, SMTT(180)
  <2>8. ParkedContext'
    BY <2>1, <2>3, <2>4, <2>5
  <2> QED BY <2>6, <2>7, <2>8
<1>13. ASSUME NEW t \in Threads, CatchRefuses(t) PROVE PathInv'
  BY <1>13 DEF CatchRefuses, TypeOK
<1>14. ASSUME NEW t \in Threads, HandlerSkips(t) PROVE PathInv'
  <2> SUFFICES ASSUME ~overtaken' PROVE PathInv'
    OBVIOUS
  <2>1. ~overtaken /\ phase[t] = "three"
    BY <1>14 DEF HandlerSkips
  <2>2. /\ exceptionInfo'.low.pc = "code"
        /\ exceptionInfo'.low.act = exceptionInfo.low.act
        /\ exceptionInfo'.fp = exceptionInfo.fp
        /\ exceptionInfo'.callee = exceptionInfo.callee
        /\ exceptionInfo'.state = "Continue"
    BY <1>14, <2>1 DEF HandlerSkips, TypeOK, Lows
  <2>3. /\ phase'[t] = "four" /\ fault'[t].verdict = "Continue"
        /\ fault'[t].regs = fault[t].regs
        /\ UNCHANGED <<catchStack, regs, exit>>
    BY <1>14 DEF HandlerSkips, TypeOK
  <2>4. \A u \in Threads \ {t} : phase'[u] = phase[u] /\ ~OnHandlerStack(u)
    BY <1>14, <2>1 DEF HandlerSkips, TypeOK
  <2>5. HandlerStackExclusive' /\ StateTracksOwner'
    BY <2>2, <2>3, <2>4
  <2>6. \A u \in Threads : phase'[u] = "run" => phase[u] = "run"
    BY <2>3, <2>4
  <2>7. OwnContext'
    BY ONLY PathInv, <2>1, <2>3, <2>6 DEF PathInv, OwnContext, ResumesOwnContext, Depth
  <2>8. CatchChain'
    BY ONLY PathInv, <2>1, <2>3 DEF PathInv, CatchChain, Depth
  <2>9. ParkedContext'
    BY <2>1, <2>2, <2>3, <2>4
  <2> QED BY <2>5, <2>7, <2>8, <2>9
<1>15. ASSUME NEW t \in Threads, PhaseFour(t) PROVE PathInv'
  BY <1>15, SMTT(180) DEF PhaseFour, TypeOK
<1>16. ASSUME NEW t \in Threads, Trap(t) PROVE PathInv'
  <2> SUFFICES ASSUME ~overtaken' PROVE PathInv'
    OBVIOUS
  <2>1. ~overtaken /\ phase[t] = "trap"
    BY <1>16 DEF Trap
  <2>2. \A u \in Threads \ {t} :
          /\ phase[u] = "run" /\ phase'[u] = "run"
          /\ regs'[u] = regs[u] /\ catchStack'[u] = catchStack[u]
    BY <1>16, <2>1 DEF Trap, TypeOK, Phases
  <2>3. /\ regs'[t].low = exceptionInfo.low /\ regs'[t].fp = exceptionInfo.fp
        /\ phase'[t] = "run" /\ catchStack' = catchStack
        /\ exceptionInfo'.state = "FirstChance"
    BY <1>16, <2>1 DEF Trap, TypeOK, Regs
  <2>4. exit' = "no" => fault[t].verdict = "Continue"
    BY <1>16, <2>1 DEF Trap, TypeOK, Verdicts
  <2>5. HandlerStackExclusive' /\ StateTracksOwner' /\ ParkedContext'
    BY <2>2, <2>3
  <2>6. CatchChain'
    BY <2>1, <2>3
  <2>7. exit' = "no" => ResumesOwnContext(t)'
    <3>1. Depth(t) \in Nat
      BY LenProperties DEF TypeOK
    <3> QED BY <2>1, <2>3, <2>4, <3>1
  <2>8. OwnContext'
    BY <1>16, <2>2, <2>7 DEF Trap
  <2> QED BY <2>5, <2>6, <2>8
<1>17. ASSUME NEW t \in Threads, Astray(t) PROVE PathInv'
  BY <1>17 DEF Astray, vars
<1> QED
  BY <1>1, <1>2, <1>3, <1>4, <1>5, <1>8, <1>9, <1>10, <1>11, <1>12, <1>13, <1>14,
     <1>15, <1>16, <1>17 DEF Next, HandlerStep, PhaseThree

(* Initially nobody is on the exception path.                              *)
LEMMA PathInit == Init => PathInv
  BY DEF Init, OwnRegs, PathInv, HandlerStackExclusive, StateTracksOwner, OwnContext,
     CatchChain, ParkedContext, OnHandlerStack, Undecided, Decided, ResumesOwnContext, Depth

(* Unless a fault overtakes a verdict, the unlocked globals of the         *)
(* exception path serve one thread at a time, every thread resumes its own *)
(* context, and every parentFrame chain is its thread's tryCatch nesting.  *)
THEOREM PathSafe == Spec => []PathSound
<1>1. TypeOK /\ TypeOK' /\ PathInv /\ [Next]_vars => PathInv'
  BY PathStep
<1>2. TypeOK /\ PathInv => PathSound
  BY DEF PathSound
<1> QED BY <1>1, <1>2, PathInit, TypeCorrect, PTL DEF Spec

(* A return trap is a Trap action of the trapping thread.                  *)
LEMMA OnlyTrapReturns ==
  ASSUME TypeOK, [Next]_vars, NEW t \in Threads, phase[t] = "trap", phase'[t] = "run"
  PROVE  Trap(t)
<1>1. ~UNCHANGED vars
  BY DEF vars
<1>2. ASSUME NEW u \in Threads, u # t,
             \/ TryCatch(u) \/ TryReturns(u) \/ PopCatch(u)
             \/ Fault(u) \/ Abort(u) \/ FaultInHandler(u) \/ HandlerStep(u) \/ Astray(u)
      PROVE  FALSE
  BY <1>2 DEF TypeOK, TryCatch, TryReturns, PopCatch, Fault, Abort, FaultInHandler, PhaseOne,
     UnhandledFault, RejectFault, AcceptFault, HandlerStep, PhaseTwo, PhaseThree, CatchAccepts,
     CatchRefuses, HandlerSkips, PhaseFour, Trap, Astray, vars
<1>3. ~(InstallBranch \/ InstallPointer \/ ProcessGone)
  BY <1>1 DEF InstallBranch, InstallPointer, ProcessGone
<1>4. \/ TryCatch(t) \/ TryReturns(t) \/ PopCatch(t)
      \/ Fault(t) \/ Abort(t) \/ FaultInHandler(t) \/ HandlerStep(t) \/ Astray(t)
  BY <1>1, <1>2, <1>3 DEF Next
<1> QED
  BY <1>4 DEF TryCatch, TryReturns, PopCatch, Fault, Abort, FaultInHandler, RunsCode,
     HandlerStep, PhaseTwo, PhaseThree, CatchAccepts, CatchRefuses, HandlerSkips, PhaseFour, Astray

(* A survived fault outside tryCatch leaves every register of the thread   *)
(* as it was, with the faulting instruction stepped over.                  *)
THEOREM SkipTransparent == Spec => SkipIsTransparent
<1>1. ASSUME TypeOK, PathInv, [Next]_vars, NEW t \in Threads,
             ~overtaken, phase[t] = "trap", phase'[t] = "run", exit' = "no",
             regs'[t].low.pc # "pop"
      PROVE  regs'[t] = [fault[t].regs EXCEPT !.low.pc = "code"]
  <2>1. Trap(t)
    BY <1>1, OnlyTrapReturns
  <2>2. regs'[t] = [regs[t] EXCEPT !.low = exceptionInfo.low]
    BY <1>1, <2>1 DEF Trap, TypeOK
  <2>3. exceptionInfo.low.pc # "pop"
    <3>1. regs'[t].low = exceptionInfo.low
      BY <1>1, <2>2 DEF TypeOK, Regs
    <3> QED BY <1>1, <3>1
  <2>4. fault[t].verdict = "Continue"
    BY <1>1, <2>1 DEF Trap, TypeOK, PathInv, StateTracksOwner, Decided, Verdicts
  <2>5. /\ exceptionInfo.low.act = fault[t].regs.low.act
        /\ exceptionInfo.low.pc = "code"
        /\ regs[t].fp = fault[t].regs.fp
        /\ regs[t].callee = fault[t].regs.callee
    BY <1>1, <2>3, <2>4 DEF PathInv, ParkedContext, Decided
  <2>6. /\ exceptionInfo.low \in Lows /\ regs[t] \in Regs /\ fault[t].regs \in Regs
    BY <1>1 DEF TypeOK
  <2> QED BY <2>2, <2>5, <2>6 DEF Regs, Lows
<1>2. TypeOK /\ PathInv /\ [Next]_vars =>
        [\A t \in Threads :
           (/\ ~overtaken /\ phase[t] = "trap" /\ phase'[t] = "run"
            /\ exit' = "no" /\ regs'[t].low.pc # "pop")
           => regs'[t] = [fault[t].regs EXCEPT !.low.pc = "code"]]_vars
  BY <1>1
<1>3. PathInv /\ TypeOK /\ TypeOK' /\ [Next]_vars => PathInv'
  BY PathStep
<1> QED BY <1>2, <1>3, PathInit, TypeCorrect, PTL DEF Spec, SkipIsTransparent

(* A process is given up on a trap exactly when the trapping thread's own  *)
(* catchFunc refused the fault.                                            *)
THEOREM VerdictIsHonoured == Spec => VerdictHonoured
<1>1. ASSUME TypeOK, PathInv, [Next]_vars, NEW t \in Threads,
             ~overtaken, phase[t] = "trap", phase'[t] = "run"
      PROVE  exit' = "verdict" <=> fault[t].verdict = "Exit"
  <2>1. Trap(t)
    BY <1>1, OnlyTrapReturns
  <2>2. exceptionInfo.state = fault[t].verdict
    BY <1>1 DEF PathInv, StateTracksOwner, Decided
  <2> QED BY <2>1, <2>2 DEF Trap
<1>2. TypeOK /\ PathInv /\ [Next]_vars =>
        [\A t \in Threads :
           (~overtaken /\ phase[t] = "trap" /\ phase'[t] = "run")
           => (exit' = "verdict" <=> fault[t].verdict = "Exit")]_vars
  BY <1>1
<1>3. PathInv /\ TypeOK /\ TypeOK' /\ [Next]_vars => PathInv'
  BY PathStep
<1> QED BY <1>2, <1>3, PathInit, TypeCorrect, PTL DEF Spec, VerdictHonoured

===============================================================================
