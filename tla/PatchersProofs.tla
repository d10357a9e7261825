--------------------------- MODULE PatchersProofs ---------------------------
(***************************************************************************)
(* That a fetch sees what a patcher has written and flushed, for lines and *)
(* aliases of every size and whatever the caches do meanwhile.             *)
(*                                                                         *)
(* Between the stores and the end of a flush nothing can be said of a word *)
(* but that the range of the patcher or of the flush has it.  The flush    *)
(* then leaves behind it, in two passes, words that are in memory, and     *)
(* words of which no instruction line holds another value: the second pass *)
(* is of use only because the first is over, and a line filled in between  *)
(* is one it has yet to reach.                                             *)
(***************************************************************************)
EXTENDS Patchers, TLAPS

-----------------------------------------------------------------------------
(* Lines.                                                                  *)

LEMMA Times == ASSUME NEW n \in Nat, NEW k \in Nat PROVE n * k + n = n * (k+1) /\ n * k \in Nat
  OBVIOUS

LEMMA Division ==
  ASSUME NEW n \in Nat \ {0}, NEW a \in Nat
  PROVE  a \div n \in Nat /\ (a % n) \in 0..n-1 /\ a = n * (a \div n) + (a % n)
  OBVIOUS

LEMMA Mono ==
  ASSUME NEW n \in Nat \ {0}, NEW p \in Int, NEW q \in Int, p + 1 <= q
  PROVE  n * p + n <= n * q
<1>1. PICK d \in Nat : q = p + 1 + d
  <2>1. q - p - 1 \in Nat /\ q = p + 1 + (q - p - 1)
    OBVIOUS
  <2> QED BY <2>1
<1>2. n * q = n * p + n + n * d
  BY <1>1
<1>3. n * d \in Nat
  BY <1>1
<1> QED BY <1>2, <1>3

LEMMA LineIs ==
  ASSUME NEW n \in Nat \ {0}, NEW k \in Nat, NEW w \in Nat, n * k <= w, w < n * k + n
  PROVE  w \div n = k
<1>1. w \div n \in Nat /\ (w % n) \in 0..n-1 /\ w = n * (w \div n) + (w % n)
  BY Division
<1> DEFINE q == w \div n
           r == w % n
<1>2. n * q <= w /\ w < n * q + n
  BY <1>1
<1> HIDE DEF q, r
<1>3. q \in Nat
  BY <1>1 DEF q
<1>4. ~(q + 1 <= k)
  BY <1>2, <1>3, Mono
<1>5. ~(k + 1 <= q)
  BY <1>2, <1>3, Mono
<1>6. q = k
  BY <1>3, <1>4, <1>5
<1> QED BY <1>6 DEF q

(* Where a line of n words starts.                                         *)
Starts(a, n) == \E k \in Nat : a = n * k

LEMMA StartIs ==
  ASSUME NEW n \in Nat \ {0}, NEW a \in Nat
  PROVE  /\ LineStart(a, n) \in Nat /\ LineStart(a, n) <= a
         /\ Starts(LineStart(a, n), n)
<1> DEFINE q == a \div n
           r == a % n
<1>1. q \in Nat /\ r \in 0..n-1 /\ a = n * q + r
  BY Division
<1>2. LineStart(a, n) = a - r
  BY DEF LineStart
<1> HIDE DEF q, r
<1>3. n * q \in Nat
  BY <1>1, Times
<1>4. a - r = n * q
  BY <1>1, <1>3
<1>5. n * q <= a
  BY <1>1, <1>3
<1> QED BY <1>1, <1>2, <1>3, <1>4, <1>5 DEF Starts

LEMMA NextStarts ==
  ASSUME NEW n \in Nat \ {0}, NEW a \in Nat, Starts(a, n)
  PROVE  a + n \in Nat /\ Starts(a + n, n)
<1>1. PICK k \in Nat : a = n * k
  BY DEF Starts
<1>2. a + n = n * (k + 1) /\ k + 1 \in Nat
  BY <1>1, Times
<1> QED BY <1>2 DEF Starts

(* A word from a start to the next one is in the start's line.             *)
LEMMA InLine ==
  ASSUME NEW n \in Nat \ {0}, NEW a \in Nat, Starts(a, n), NEW w \in Nat, a <= w, w < a + n
  PROVE  w \div n = a \div n
<1>1. PICK k \in Nat : a = n * k
  BY DEF Starts
<1>2. a < a + n
  OBVIOUS
<1>3. w \div n = k
  BY <1>1, LineIs
<1>4. a \div n = k
  BY <1>1, <1>2, LineIs
<1> QED BY <1>3, <1>4

-----------------------------------------------------------------------------
(* The invariant.                                                          *)

Patcher == [kind : {"none", "stream", "random"}, low : Int, high : Int]

PatcherOK(p) ==
  /\ p \in Patcher
  /\ p.kind = "stream" => 0 <= p.low /\ p.low <= p.high
  /\ p.kind = "random" => (p.low = UIntPtrMax /\ p.high = UIntPtrMax) \/ (0 <= p.low /\ p.low < p.high)

Covers(p, w) == p.kind # "none" /\ p.low <= w /\ w < p.high
InFlush(w)   == flush.phase # "none" /\ flush.low <= w /\ w < flush.high

Clean(w) == memory[w] = data[w]
Fresh(w) == \A l \in DOMAIN icache : w \in DOMAIN icache[l] => icache[l][w] = data[w]

CacheTypeOK ==
  /\ DOMAIN data = Words /\ DOMAIN memory = Words
  /\ data = [w \in Words |-> data[w]] /\ memory = [w \in Words |-> memory[w]]
  /\ \A l \in DOMAIN icache : \A w \in DOMAIN icache[l] : w \in CodeLine(l)

FlushTypeOK ==
  /\ PatcherOK(patcher) /\ PatcherOK(flush.next)
  /\ flush \in [phase : {"none", "dc", "ic"}, at : Nat, low : Nat, high : Int, next : Patcher]
  /\ flush.phase = "dc" => Starts(flush.at, DLine)
  /\ flush.phase = "ic" => Starts(flush.at, ILine)

(* What a flush leaves to its next patcher, and what it has left behind.   *)
FlushInv ==
  /\ \A w \in Words : flush.phase # "none" /\ Covers(patcher, w) => InFlush(w) \/ Covers(flush.next, w)
  /\ \A w \in Words : InFlush(w) =>
       /\ flush.phase = "dc" /\ w < flush.at => Clean(w)
       /\ flush.phase = "ic" => Clean(w)
       /\ flush.phase = "ic" /\ w < flush.at => Fresh(w)

Seen == \A w \in Words : ~Covers(patcher, w) /\ ~InFlush(w) => Clean(w) /\ Fresh(w)

CacheInv == CacheTypeOK /\ FlushTypeOK /\ FlushInv /\ Seen

LEMMA WordsAre == \A w \in Words : w \in Nat
  BY LineAssumption DEF Words

LEMMA NoPatcherOK == PatcherOK(NoPatcher) /\ \A w : ~Covers(NoPatcher, w)
  BY DEF PatcherOK, Patcher, NoPatcher, Covers

LEMMA CacheStarts == Init => CacheInv
<1> SUFFICES ASSUME Init PROVE CacheInv
  OBVIOUS
<1>1. /\ data = [w \in Words |-> Original(w)] /\ memory = data /\ patcher = NoPatcher /\ flush = NoFlush
      /\ icache = [l \in {w \in Words : w % ILine = 0} |-> Absent]
  BY DEF Init
<1>2. \A l \in DOMAIN icache : DOMAIN icache[l] = {}
  BY <1>1 DEF Absent
<1>3. CacheTypeOK
  BY <1>1, <1>2 DEF CacheTypeOK
<1>4. flush.phase = "none" /\ flush \in [phase : {"none", "dc", "ic"}, at : Nat, low : Nat, high : Int, next : Patcher]
      /\ flush.next = NoPatcher
  BY <1>1 DEF NoFlush, NoPatcher, Patcher
<1>5. FlushTypeOK
  BY <1>1, <1>4, NoPatcherOK DEF FlushTypeOK
<1>6. FlushInv
  BY <1>4 DEF FlushInv, InFlush
<1>7. Seen
  BY <1>1, <1>2 DEF Seen, Clean, Fresh
<1> QED BY <1>3, <1>5, <1>6, <1>7 DEF CacheInv

(* The processor's own doings.                                             *)
LEMMA WriteBackKeeps == ASSUME CacheInv, WriteBack PROVE CacheInv'
<1>1. PICK l \in Words : memory' = [w \in Words |-> IF w \in DataLine(l) THEN data[w] ELSE memory[w]]
  BY DEF WriteBack
<1>2. UNCHANGED <<data, icache, patcher, flush>>
  BY DEF WriteBack
<1>3. \A w \in Words : Clean(w) => Clean(w)'
  BY <1>1, <1>2 DEF Clean
<1>4. \A w \in Words : Fresh(w)' <=> Fresh(w)
  BY <1>2 DEF Fresh
<1>5. CacheTypeOK'
  BY <1>1, <1>2 DEF CacheInv, CacheTypeOK, CodeLine
<1>6. FlushTypeOK'
  BY <1>2 DEF CacheInv, FlushTypeOK
<1>7. FlushInv'
  BY <1>2, <1>3, <1>4 DEF CacheInv, FlushInv, InFlush, Covers
<1>8. Seen'
  BY <1>2, <1>3, <1>4 DEF CacheInv, Seen, InFlush, Covers
<1> QED BY <1>5, <1>6, <1>7, <1>8 DEF CacheInv

LEMMA FillKeeps == ASSUME CacheInv, Fill PROVE CacheInv'
<1>1. PICK l \in DOMAIN icache : icache' = [icache EXCEPT ![l] = [w \in CodeLine(l) |-> memory[w]]]
  BY DEF Fill
<1>2. UNCHANGED <<data, memory, patcher, flush>>
  BY DEF Fill
<1>3. /\ DOMAIN icache' = DOMAIN icache /\ icache'[l] = [w \in CodeLine(l) |-> memory[w]]
      /\ \A m \in DOMAIN icache : m # l => icache'[m] = icache[m]
  BY <1>1
<1>4. \A w \in Words : Clean(w)' <=> Clean(w)
  BY <1>2 DEF Clean
<1>5. ASSUME NEW w \in Words, Clean(w), Fresh(w) PROVE Fresh(w)'
  BY <1>2, <1>3, <1>5 DEF Clean, Fresh
<1>6. CacheTypeOK'
  BY <1>2, <1>3 DEF CacheInv, CacheTypeOK, CodeLine
<1>7. FlushTypeOK'
  BY <1>2 DEF CacheInv, FlushTypeOK
<1>8. FlushInv'
  BY <1>2, <1>4, <1>5 DEF CacheInv, FlushInv, InFlush, Covers
<1>9. Seen'
  BY <1>2, <1>4, <1>5 DEF CacheInv, Seen, InFlush, Covers
<1> QED BY <1>6, <1>7, <1>8, <1>9 DEF CacheInv

-----------------------------------------------------------------------------
(* A flush.                                                                *)

LEMMA CleanLineKeeps == ASSUME CacheInv, CleanLine PROVE CacheInv'
<1>1. /\ flush.phase = "dc" /\ flush.at \in Nat /\ flush.low \in Nat /\ flush.high \in Int
      /\ Starts(flush.at, DLine)
      /\ flush \in [phase : {"none", "dc", "ic"}, at : Nat, low : Nat, high : Int, next : Patcher]
  BY DEF CleanLine, CacheInv, FlushTypeOK
<1>2. /\ memory' = [w \in Words |-> IF w \in DataLine(flush.at) THEN data[w] ELSE memory[w]]
      /\ UNCHANGED <<data, icache, patcher>>
  BY DEF CleanLine
<1>3. \A w \in Words : (Clean(w) \/ w \in DataLine(flush.at)) => Clean(w)'
  BY <1>2 DEF Clean
<1>4. \A w \in Words : Fresh(w)' <=> Fresh(w)
  BY <1>2 DEF Fresh
<1>5. ASSUME NEW w \in Words, InFlush(w), w < flush.at + DLine PROVE Clean(w)'
  <2>1. CASE w < flush.at
    BY <1>1, <1>3, <1>5, <2>1 DEF CacheInv, FlushInv
  <2>2. CASE flush.at <= w
    <3>1. w \div DLine = flush.at \div DLine
      BY <1>1, <1>5, <2>2, WordsAre, InLine, LineAssumption
    <3> QED BY <1>3, <3>1 DEF DataLine
  <2> QED BY <1>1, <2>1, <2>2, WordsAre
<1>6. CacheTypeOK'
  BY <1>2 DEF CacheInv, CacheTypeOK, CodeLine
<1>7. flush'.low = flush.low /\ flush'.high = flush.high /\ flush'.next = flush.next /\ flush'.phase \in {"dc", "ic"}
  BY <1>1 DEF CleanLine
<1>8. \A w \in Words : (InFlush(w)' <=> InFlush(w)) /\ (Covers(patcher, w)' <=> Covers(patcher, w))
                       /\ (Covers(flush.next, w)' <=> Covers(flush.next, w))
  BY <1>1, <1>2, <1>7 DEF InFlush, Covers
<1>9. CASE flush.at + DLine < flush.high
  <2>1. flush' = [flush EXCEPT !.at = @ + DLine]
    BY <1>9 DEF CleanLine
  <2>2. flush.at + DLine \in Nat /\ Starts(flush.at + DLine, DLine)
    BY <1>1, NextStarts, LineAssumption
  <2>3. flush'.at = flush.at + DLine /\ flush'.phase = "dc"
    BY <1>1, <2>1
  <2>4. FlushTypeOK'
    <3>1. flush' \in [phase : {"none", "dc", "ic"}, at : Nat, low : Nat, high : Int, next : Patcher]
      BY <1>1, <2>1, <2>2
    <3>2. PatcherOK(patcher') /\ PatcherOK(flush'.next)
      BY <1>2, <1>7 DEF CacheInv, FlushTypeOK
    <3>3. Starts(flush'.at, DLine)
      BY <2>2, <2>3
    <3> QED BY <2>3, <3>1, <3>2, <3>3 DEF FlushTypeOK
  <2>5. FlushInv'
    BY <1>1, <1>5, <1>8, <2>3 DEF CacheInv, FlushInv
  <2>6. Seen'
    BY <1>3, <1>4, <1>8 DEF CacheInv, Seen
  <2> QED BY <1>6, <2>4, <2>5, <2>6 DEF CacheInv
<1>10. CASE ~(flush.at + DLine < flush.high)
  <2>1. flush' = [flush EXCEPT !.phase = "ic", !.at = LineStart(flush.low, ILine)]
    BY <1>10 DEF CleanLine
  <2>2. LineStart(flush.low, ILine) \in Nat /\ LineStart(flush.low, ILine) <= flush.low
        /\ Starts(LineStart(flush.low, ILine), ILine)
    BY <1>1, StartIs, LineAssumption
  <2>3. flush'.at = LineStart(flush.low, ILine) /\ flush'.phase = "ic"
    BY <1>1, <2>1
  <2>4. FlushTypeOK'
    <3>1. flush' \in [phase : {"none", "dc", "ic"}, at : Nat, low : Nat, high : Int, next : Patcher]
      BY <1>1, <2>1, <2>2
    <3>2. PatcherOK(patcher') /\ PatcherOK(flush'.next)
      BY <1>2, <1>7 DEF CacheInv, FlushTypeOK
    <3>3. Starts(flush'.at, ILine)
      BY <2>2, <2>3
    <3> QED BY <2>3, <3>1, <3>2, <3>3 DEF FlushTypeOK
  <2>5. ASSUME NEW w \in Words, InFlush(w) PROVE Clean(w)' /\ ~(w < flush'.at)
    <3>1. w \in Nat /\ flush.low <= w /\ w < flush.high
      BY <2>5, WordsAre DEF InFlush
    <3>2. w < flush.at + DLine
      BY <1>1, <1>10, <3>1, LineAssumption
    <3> QED BY <1>1, <1>5, <2>2, <2>3, <2>5, <3>1, <3>2
  <2>6. FlushInv'
    BY <1>1, <1>8, <2>3, <2>5 DEF CacheInv, FlushInv
  <2>7. Seen'
    BY <1>3, <1>4, <1>8 DEF CacheInv, Seen
  <2> QED BY <1>6, <2>4, <2>6, <2>7 DEF CacheInv
<1> QED BY <1>9, <1>10

LEMMA InvalidateLineKeeps == ASSUME CacheInv, InvalidateLine PROVE CacheInv'
<1>1. /\ flush.phase = "ic" /\ flush.at \in Nat /\ flush.low \in Nat /\ flush.high \in Int
      /\ Starts(flush.at, ILine)
      /\ flush \in [phase : {"none", "dc", "ic"}, at : Nat, low : Nat, high : Int, next : Patcher]
  BY DEF InvalidateLine, CacheInv, FlushTypeOK
<1>2. /\ icache' = [l \in DOMAIN icache |-> IF flush.at \in CodeLine(l) THEN Absent ELSE icache[l]]
      /\ UNCHANGED <<data, memory>>
  BY DEF InvalidateLine
<1>3. DOMAIN Absent = {}
  BY DEF Absent
<1>4. \A w \in Words : Clean(w)' <=> Clean(w)
  BY <1>2 DEF Clean
<1>5. \A w \in Words : Fresh(w) => Fresh(w)'
  BY <1>2, <1>3 DEF Fresh
<1>6. ASSUME NEW w \in Words, InFlush(w), w < flush.at + ILine PROVE Clean(w)' /\ Fresh(w)'
  <2>1. Clean(w)'
    BY <1>1, <1>4, <1>6 DEF CacheInv, FlushInv
  <2>2. CASE w < flush.at
    BY <1>1, <1>5, <1>6, <2>1, <2>2 DEF CacheInv, FlushInv
  <2>3. CASE flush.at <= w
    <3>1. w \div ILine = flush.at \div ILine
      BY <1>1, <1>6, <2>3, WordsAre, InLine, LineAssumption
    <3>2. flush.at \in Words
      BY <1>1, <2>3, LineAssumption DEF Words
    <3>3. ASSUME NEW l \in DOMAIN icache, w \in DOMAIN icache'[l] PROVE FALSE
      <4>1. ~(flush.at \in CodeLine(l)) /\ icache'[l] = icache[l]
        BY <1>2, <1>3, <3>3
      <4>2. w \in CodeLine(l)
        BY <3>3, <4>1 DEF CacheInv, CacheTypeOK
      <4> QED BY <3>1, <3>2, <4>1, <4>2 DEF CodeLine
    <3>4. DOMAIN icache' = DOMAIN icache
      BY <1>2
    <3> QED BY <2>1, <3>3, <3>4 DEF Fresh
  <2> QED BY <1>1, <2>2, <2>3, WordsAre
<1>7. CacheTypeOK'
  BY <1>2, <1>3 DEF CacheInv, CacheTypeOK, CodeLine
<1>8. CASE flush.at + ILine < flush.high
  <2>1. flush' = [flush EXCEPT !.at = @ + ILine] /\ UNCHANGED patcher
    BY <1>8 DEF InvalidateLine
  <2>2. flush.at + ILine \in Nat /\ Starts(flush.at + ILine, ILine)
    BY <1>1, NextStarts, LineAssumption
  <2>3. /\ flush'.at = flush.at + ILine /\ flush'.phase = "ic"
        /\ flush'.low = flush.low /\ flush'.high = flush.high /\ flush'.next = flush.next
    BY <1>1, <2>1
  <2>4. \A w \in Words : (InFlush(w)' <=> InFlush(w)) /\ (Covers(patcher, w)' <=> Covers(patcher, w))
                         /\ (Covers(flush.next, w)' <=> Covers(flush.next, w))
    BY <1>1, <2>1, <2>3 DEF InFlush, Covers
  <2>5. FlushTypeOK'
    <3>1. flush' \in [phase : {"none", "dc", "ic"}, at : Nat, low : Nat, high : Int, next : Patcher]
      BY <1>1, <2>1, <2>2
    <3>2. PatcherOK(patcher') /\ PatcherOK(flush'.next)
      BY <2>1, <2>3 DEF CacheInv, FlushTypeOK
    <3>3. Starts(flush'.at, ILine)
      BY <2>2, <2>3
    <3> QED BY <2>3, <3>1, <3>2, <3>3 DEF FlushTypeOK
  <2>6. FlushInv'
    BY <1>1, <1>4, <1>6, <2>3, <2>4 DEF CacheInv, FlushInv
  <2>7. Seen'
    BY <1>4, <1>5, <2>4 DEF CacheInv, Seen
  <2> QED BY <1>7, <2>5, <2>6, <2>7 DEF CacheInv
<1>9. CASE ~(flush.at + ILine < flush.high)
  <2>1. flush' = NoFlush /\ patcher' = flush.next
    BY <1>9 DEF InvalidateLine
  <2>2. /\ flush'.phase = "none" /\ flush'.next = NoPatcher
        /\ flush' \in [phase : {"none", "dc", "ic"}, at : Nat, low : Nat, high : Int, next : Patcher]
    BY <2>1 DEF NoFlush, NoPatcher, Patcher
  <2>3. FlushTypeOK'
    BY <2>1, <2>2, NoPatcherOK DEF CacheInv, FlushTypeOK
  <2>4. FlushInv'
    BY <2>2 DEF FlushInv, InFlush
  <2>5. ASSUME NEW w \in Words, ~Covers(flush.next, w) PROVE Clean(w)' /\ Fresh(w)'
    <3>1. CASE InFlush(w)
      <4>1. w \in Nat /\ w < flush.high
        BY <3>1, WordsAre DEF InFlush
      <4>2. w < flush.at + ILine
        BY <1>1, <1>9, <4>1, LineAssumption
      <4> QED BY <1>6, <3>1, <4>2
    <3>2. CASE ~InFlush(w)
      <4>1. ~Covers(patcher, w)
        BY <1>1, <2>5, <3>2 DEF CacheInv, FlushInv
      <4> QED BY <1>4, <1>5, <3>2, <4>1 DEF CacheInv, Seen
    <3> QED BY <3>1, <3>2
  <2>6. Seen'
    BY <2>1, <2>5 DEF Seen, Covers
  <2> QED BY <1>7, <2>3, <2>4, <2>6 DEF CacheInv
<1> QED BY <1>8, <1>9

-----------------------------------------------------------------------------
(* What a patcher does between flushes, and how it begins one.             *)

Unflushed == flush.phase = "none" /\ UNCHANGED <<memory, icache>>

LEMMA Holding ==
  ASSUME CacheInv, Unflushed, UNCHANGED flush, PatcherOK(patcher'), data' = [w \in Words |-> data'[w]],
         \A w \in Words : Covers(patcher, w) \/ data'[w] # data[w] => Covers(patcher', w)
  PROVE  CacheInv'
<1>1. CacheTypeOK'
  BY DEF CacheInv, CacheTypeOK, CodeLine, Unflushed
<1>2. FlushTypeOK'
  BY DEF CacheInv, FlushTypeOK
<1>3. FlushInv'
  BY DEF FlushInv, InFlush, Unflushed
<1>4. ASSUME NEW w \in Words, ~Covers(patcher', w) PROVE Clean(w)' /\ Fresh(w)'
  <2>1. Clean(w) /\ Fresh(w) /\ data'[w] = data[w]
    BY <1>4 DEF CacheInv, Seen, InFlush, Unflushed
  <2> QED BY <2>1 DEF Clean, Fresh, Unflushed
<1>5. Seen'
  BY <1>4 DEF Seen, Covers
<1> QED BY <1>1, <1>2, <1>3, <1>5 DEF CacheInv

LEMMA FlushBegins ==
  ASSUME CacheInv, Unflushed, UNCHANGED patcher, NEW low \in Nat, NEW high \in Int, NEW next,
         Flushing(low, high, next), PatcherOK(next), data' = [w \in Words |-> data'[w]],
         \A w \in Words : Covers(patcher, w) \/ data'[w] # data[w] => low <= w /\ w < high
  PROVE  CacheInv'
<1>1. LineStart(low, DLine) \in Nat /\ LineStart(low, DLine) <= low /\ Starts(LineStart(low, DLine), DLine)
  BY StartIs, LineAssumption
<1>2. flush' = [phase |-> "dc", at |-> LineStart(low, DLine), low |-> low, high |-> high, next |-> next]
  BY DEF Flushing
<1>3. /\ flush'.phase = "dc" /\ flush'.at = LineStart(low, DLine) /\ flush'.low = low /\ flush'.high = high
      /\ flush'.next = next
  BY <1>2
<1>4. CacheTypeOK'
  BY DEF CacheInv, CacheTypeOK, CodeLine, Unflushed
<1>5. FlushTypeOK'
  <2>1. flush' \in [phase : {"none", "dc", "ic"}, at : Nat, low : Nat, high : Int, next : Patcher]
    BY <1>1, <1>2 DEF PatcherOK
  <2> QED BY <1>1, <1>3, <2>1 DEF CacheInv, FlushTypeOK
<1>6. \A w \in Words : InFlush(w)' <=> low <= w /\ w < high
  BY <1>3 DEF InFlush
<1>7. FlushInv'
  <2>1. ASSUME NEW w \in Words, Covers(patcher, w)' PROVE InFlush(w)'
    BY <1>6, <2>1 DEF Covers
  <2>2. ASSUME NEW w \in Words, InFlush(w)' PROVE ~(w < flush'.at)
    BY <1>1, <1>3, <1>6, <2>2, WordsAre
  <2> QED BY <1>3, <2>1, <2>2 DEF FlushInv
<1>8. ASSUME NEW w \in Words, ~InFlush(w)' PROVE Clean(w)' /\ Fresh(w)'
  <2>1. Clean(w) /\ Fresh(w) /\ data'[w] = data[w]
    BY <1>6, <1>8 DEF CacheInv, Seen, InFlush, Unflushed
  <2> QED BY <2>1 DEF Clean, Fresh, Unflushed
<1>9. Seen'
  BY <1>8 DEF Seen
<1> QED BY <1>4, <1>5, <1>7, <1>9 DEF CacheInv

LEMMA PatcherIs ==
  ASSUME CacheInv
  PROVE  /\ PatcherOK(patcher) /\ patcher \in Patcher /\ patcher.low \in Int /\ patcher.high \in Int
         /\ data = [w \in Words |-> data[w]]
<1>1. PatcherOK(patcher) /\ patcher \in Patcher
  BY DEF CacheInv, FlushTypeOK, PatcherOK
<1> QED BY <1>1 DEF Patcher, CacheInv, CacheTypeOK

LEMMA OpenKeeps == ASSUME CacheInv, Open PROVE CacheInv'
<1>1. Unflushed /\ UNCHANGED <<data, flush>> /\ patcher.kind = "none"
  BY DEF Open, AtWork, Unflushed, caches
<1>2. PatcherOK(patcher')
  BY WordsAre DEF Open, PatcherOK, Patcher, UIntPtrMax
<1> QED BY <1>1, <1>2, PatcherIs, Holding DEF Covers

LEMMA Stored ==
  ASSUME CacheInv, NEW a, NEW v, NEW i, Store(a, v, i)
  PROVE  /\ a \in Words /\ a \in Nat /\ UNCHANGED <<memory, icache, flush>>
         /\ data' = [w \in Words |-> data'[w]] /\ \A w \in Words : w # a => data'[w] = data[w]
<1>1. a \in Words /\ data' = [data EXCEPT ![a] = v] /\ UNCHANGED <<memory, icache, flush>>
  BY DEF Store
<1> QED BY <1>1, PatcherIs, WordsAre

LEMMA StreamKeeps == ASSUME CacheInv, NEW v, NEW i, StreamWrite(v, i) PROVE CacheInv'
<1>1. /\ patcher.kind = "stream" /\ flush.phase = "none" /\ Store(patcher.high, v, i)
      /\ patcher' = [patcher EXCEPT !.high = @ + 1]
  BY DEF StreamWrite, AtWork
<1>2. /\ patcher'.kind = "stream" /\ patcher'.low = patcher.low /\ patcher'.high = patcher.high + 1
      /\ 0 <= patcher.low /\ patcher.low <= patcher.high /\ patcher' \in Patcher
  BY <1>1, PatcherIs DEF PatcherOK, Patcher
<1>3. PatcherOK(patcher')
  BY <1>2, PatcherIs DEF PatcherOK
<1>4. ASSUME NEW w \in Words, Covers(patcher, w) \/ data'[w] # data[w] PROVE Covers(patcher', w)
  <2>1. w \in Nat /\ (Covers(patcher, w) \/ w = patcher.high)
    BY <1>1, <1>4, Stored, WordsAre
  <2> QED BY <1>2, <2>1, PatcherIs DEF Covers
<1>5. Unflushed /\ UNCHANGED flush /\ data' = [w \in Words |-> data'[w]]
  BY <1>1, Stored DEF Unflushed
<1> QED BY <1>3, <1>4, <1>5, Holding

(* A flush of a stream, of which nothing is left if it is empty.           *)
LEMMA FlushThenKeeps ==
  ASSUME CacheInv, AtWork("stream"), NEW next, PatcherOK(next), FlushThen(next), UNCHANGED caches
  PROVE  CacheInv'
<1>1. /\ patcher.kind = "stream" /\ flush.phase = "none" /\ Unflushed /\ UNCHANGED data
      /\ 0 <= patcher.low /\ patcher.low <= patcher.high
  BY PatcherIs DEF AtWork, Unflushed, caches, PatcherOK
<1>2. data' = [w \in Words |-> data'[w]]
  BY <1>1, PatcherIs
<1>3. CASE patcher.low = patcher.high
  <2>1. patcher' = next /\ UNCHANGED flush
    BY <1>3 DEF FlushThen
  <2>2. \A w \in Words : ~Covers(patcher, w)
    BY <1>3, PatcherIs, WordsAre DEF Covers
  <2> QED BY <1>1, <1>2, <2>1, <2>2, Holding
<1>4. CASE patcher.low # patcher.high
  <2>1. Flushing(patcher.low, patcher.high, next) /\ UNCHANGED patcher
    BY <1>4 DEF FlushThen
  <2>2. patcher.low \in Nat /\ patcher.high \in Int
    BY <1>1, PatcherIs
  <2>3. \A w \in Words : Covers(patcher, w) \/ data'[w] # data[w] => patcher.low <= w /\ w < patcher.high
    BY <1>1 DEF Covers
  <2> QED BY <1>1, <1>2, <2>1, <2>2, <2>3, FlushBegins
<1> QED BY <1>3, <1>4

LEMMA SeekKeeps == ASSUME CacheInv, Seek \/ CloseStream PROVE CacheInv'
<1>1. CASE Seek
  <2>1. PICK a \in Words : FlushThen([kind |-> "stream", low |-> a, high |-> a])
    BY <1>1 DEF Seek
  <2>2. AtWork("stream") /\ UNCHANGED caches
    BY <1>1 DEF Seek
  <2> DEFINE next == [kind |-> "stream", low |-> a, high |-> a]
  <2>3. next \in Patcher /\ next.kind = "stream" /\ next.low = a /\ next.high = a /\ a \in Nat
    BY WordsAre DEF Patcher
  <2>4. PatcherOK(next)
    BY <2>3 DEF PatcherOK
  <2> HIDE DEF next
  <2>5. FlushThen(next)
    BY <2>1 DEF next
  <2> QED BY <2>2, <2>4, <2>5, FlushThenKeeps
<1>2. CASE CloseStream
  BY <1>2, NoPatcherOK, FlushThenKeeps DEF CloseStream
<1> QED BY <1>1, <1>2

LEMMA RandomKeeps == ASSUME CacheInv, RandomWrite PROVE CacheInv'
<1>1. PICK a \in Words, v \in Data :
        patcher' = SetHighest(SetLowest(patcher, a), a + 1) /\ Store(a, v, NotAsked)
  BY DEF RandomWrite
<1>2. /\ patcher.kind = "random" /\ flush.phase = "none" /\ patcher \in Patcher
      /\ patcher.low \in Int /\ patcher.high \in Int /\ a \in Nat
      /\ \/ patcher.low = -1 /\ patcher.high = -1
         \/ 0 <= patcher.low /\ patcher.low < patcher.high
  BY PatcherIs, WordsAre DEF RandomWrite, AtWork, PatcherOK, UIntPtrMax
<1>3. /\ patcher' \in Patcher /\ patcher'.kind = "random"
      /\ patcher'.low = IF patcher.low = -1 \/ a < patcher.low THEN a ELSE patcher.low
      /\ patcher'.high = IF patcher.high = -1 \/ a + 1 > patcher.high THEN a + 1 ELSE patcher.high
  <2> DEFINE p == SetLowest(patcher, a)
  <2>1. /\ p \in Patcher /\ p.kind = "random" /\ p.high = patcher.high
        /\ p.low = IF patcher.low = -1 \/ a < patcher.low THEN a ELSE patcher.low
    BY <1>2 DEF SetLowest, IsUnset, UIntPtrMax, Patcher
  <2>2. p.low \in Int /\ p.low # -1
    BY <1>2, <2>1
  <2>3. patcher' = SetHighest(p, a + 1)
    BY <1>1
  <2> HIDE DEF p
  <2> QED BY <1>2, <2>1, <2>2, <2>3 DEF SetHighest, IsUnset, UIntPtrMax, Patcher
<1>4. PatcherOK(patcher')
  BY <1>2, <1>3 DEF PatcherOK
<1>5. ASSUME NEW w \in Words, Covers(patcher, w) \/ data'[w] # data[w] PROVE Covers(patcher', w)
  <2>1. w \in Nat /\ (Covers(patcher, w) \/ w = a)
    BY <1>1, <1>5, Stored, WordsAre
  <2> QED BY <1>2, <1>3, <2>1 DEF Covers
<1>6. Unflushed /\ UNCHANGED flush /\ data' = [w \in Words |-> data'[w]]
  BY <1>1, <1>2, Stored DEF Unflushed
<1> QED BY <1>4, <1>5, <1>6, Holding

LEMMA RandomFlushKeeps ==
  ASSUME CacheInv, NEW next, PatcherOK(next), RandomFlush(next)
  PROVE  CacheInv'
<1>1. /\ patcher.kind = "random" /\ flush.phase = "none" /\ Unflushed /\ UNCHANGED data
      /\ \/ patcher.low = -1 /\ patcher.high = -1
         \/ 0 <= patcher.low /\ patcher.low < patcher.high
  BY PatcherIs DEF RandomFlush, AtWork, Unflushed, caches, PatcherOK, UIntPtrMax
<1>2. data' = [w \in Words |-> data'[w]]
  BY <1>1, PatcherIs
<1>3. CASE IsUnset(patcher)
  <2>1. patcher' = next /\ UNCHANGED flush
    BY <1>3 DEF RandomFlush
  <2>2. \A w \in Words : ~Covers(patcher, w)
    BY <1>1, <1>3, PatcherIs, WordsAre DEF Covers, IsUnset, UIntPtrMax
  <2> QED BY <1>1, <1>2, <2>1, <2>2, Holding
<1>4. CASE ~IsUnset(patcher)
  <2>1. Flushing(patcher.low, patcher.high, next) /\ UNCHANGED patcher
    BY <1>4 DEF RandomFlush
  <2>2. patcher.low \in Nat /\ patcher.high \in Int
    BY <1>1, <1>4, PatcherIs DEF IsUnset, UIntPtrMax
  <2>3. \A w \in Words : Covers(patcher, w) \/ data'[w] # data[w] => patcher.low <= w /\ w < patcher.high
    BY <1>1 DEF Covers
  <2> QED BY <1>1, <1>2, <2>1, <2>2, <2>3, FlushBegins
<1> QED BY <1>3, <1>4

LEMMA InstallKeeps == ASSUME CacheInv, Install PROVE CacheInv'
<1>1. PICK t \in Words \ {0} :
        /\ data' = [w \in Words |-> IF w \in Installs(t) THEN Assembly[w - t + 1] ELSE data[w]]
        /\ Flushing(t, t + Len(Assembly), NoPatcher)
  BY DEF Install
<1>2. Unflushed /\ UNCHANGED patcher /\ patcher.kind = "none"
  BY DEF Install, AtWork, Unflushed
<1>3. t \in Nat /\ Len(Assembly) \in Nat
  BY WordsAre, LineAssumption
<1>4. ASSUME NEW w \in Words, Covers(patcher, w) \/ data'[w] # data[w] PROVE t <= w /\ w < t + Len(Assembly)
  <2>1. w \in Installs(t)
    BY <1>1, <1>2, <1>4 DEF Covers
  <2> QED BY <1>3, <2>1 DEF Installs
<1>5. data' = [w \in Words |-> data'[w]] /\ t + Len(Assembly) \in Int
  BY <1>1, <1>3
<1> QED BY <1>1, <1>2, <1>3, <1>4, <1>5, NoPatcherOK, FlushBegins

LEMMA NextKeepsCaches == CacheInv /\ [Next]_vars => CacheInv'
<1> SUFFICES ASSUME CacheInv, [Next]_vars PROVE CacheInv'
  OBVIOUS
<1>1. CASE WriteInst \/ WriteData
  BY <1>1, StreamKeeps DEF WriteInst, WriteData
<1>2. CASE FlushRandom \/ CloseRandom
  BY <1>2, PatcherIs, NoPatcherOK, RandomFlushKeeps DEF FlushRandom, CloseRandom
<1>3. CASE Reinstall \/ UNCHANGED vars
  <2>1. UNCHANGED <<data, memory, icache, patcher, flush>>
    BY <1>3 DEF Reinstall, vars, caches
  <2> QED BY <2>1
      DEF CacheInv, CacheTypeOK, FlushTypeOK, FlushInv, Seen, Covers, InFlush, Clean, Fresh, CodeLine
<1> QED BY <1>1, <1>2, <1>3, WriteBackKeeps, FillKeeps, CleanLineKeeps, InvalidateLineKeeps, OpenKeeps,
           SeekKeeps, RandomKeeps, InstallKeeps
        DEF Next

(* For any alias, line sizes, instructions and number of writes, and       *)
(* whenever the processor writes a line back or fills one: a word that no  *)
(* patcher still holds is in memory as it was written, and every line of   *)
(* the instruction cache that has it has it so (StreamPatcher::Flush,      *)
(* RandomAccessPatcher::Flush, cache.s).                                   *)
THEOREM FlushedIsSeen == Spec => []FlushedIsFetched
<1>1. CacheInv => FlushedIsFetched
  BY DEF CacheInv, Seen, FlushedIsFetched, Pending, Covers, InFlush, Clean, Fresh
<1> QED BY <1>1, CacheStarts, NextKeepsCaches, PTL DEF Spec

-----------------------------------------------------------------------------
(* Where patchers and flushes may be, and the words an assembly patch      *)
(* keeps.                                                                  *)

Within(p) == p.kind # "none" => p.high <= Size

BoundsInv ==
  /\ palette \in Palettes
  /\ writes \in 0..MaxWrites /\ outcome \in {"none", "fault"}
  /\ Within(patcher) /\ Within(flush.next)
  /\ flush.at \in Words
  /\ flush.phase # "none" => flush.low < Size /\ flush.high <= Size

NotYetThere == asm.addr = 0 => \A w \in Words : \A k \in DOMAIN Assembly : data[w] # Assembly[k]

KeepInv == CacheInv /\ BoundsInv /\ NotYetThere /\ OriginalKept

LEMMA KeepStarts == ASSUME AssemblyIsNew PROVE Init => KeepInv
<1> SUFFICES ASSUME Init PROVE KeepInv
  OBVIOUS
<1>1. BoundsInv
  BY LineAssumption DEF Init, BoundsInv, Within, NoPatcher, NoFlush, Words
<1>2. NotYetThere
  BY DEF Init, NotYetThere, AssemblyIsNew
<1>3. OriginalKept
  BY DEF Init, OriginalKept
<1> QED BY <1>1, <1>2, <1>3, CacheStarts DEF KeepInv

(* Flushing within the alias keeps within it.                              *)
LEMMA FlushingIsWithin ==
  ASSUME NEW low \in Nat, NEW high \in Int, NEW next, low < Size, high <= Size, Within(next),
         Flushing(low, high, next)
  PROVE  Within(flush'.next) /\ flush'.at \in Words /\ flush'.low < Size /\ flush'.high <= Size
<1>1. LineStart(low, DLine) \in Nat /\ LineStart(low, DLine) <= low
  BY StartIs, LineAssumption
<1>2. flush'.at = LineStart(low, DLine) /\ flush'.low = low /\ flush'.high = high /\ flush'.next = next
  BY DEF Flushing
<1> QED BY <1>1, <1>2, LineAssumption DEF Words

LEMMA FlushingKeepsWithin == ASSUME CacheInv, BoundsInv, CleanLine \/ InvalidateLine PROVE BoundsInv'
<1>1. /\ palette' = palette /\ writes' = writes /\ outcome' = outcome /\ flush.phase # "none"
      /\ flush.low \in Nat /\ flush.high \in Int /\ flush.at \in Nat /\ flush.at \in Words
      /\ flush.low < Size /\ flush.high <= Size /\ Size \in Nat /\ DLine \in Nat /\ ILine \in Nat
      /\ flush \in [phase : {"none", "dc", "ic"}, at : Nat, low : Nat, high : Int, next : Patcher]
  BY LineAssumption DEF CleanLine, InvalidateLine, CacheInv, FlushTypeOK, BoundsInv
<1>2. CASE CleanLine
  <2>1. UNCHANGED patcher
    BY <1>2 DEF CleanLine
  <2>2. CASE flush.at + DLine < flush.high
    <3>1. /\ flush'.at = flush.at + DLine /\ flush'.next = flush.next /\ flush'.low = flush.low
          /\ flush'.high = flush.high
      BY <1>1, <1>2, <2>2 DEF CleanLine
    <3>2. flush'.at \in Words
      BY <1>1, <2>2, <3>1 DEF Words
    <3> QED BY <1>1, <2>1, <3>1, <3>2 DEF BoundsInv, Within
  <2>3. CASE ~(flush.at + DLine < flush.high)
    <3>1. /\ flush'.at = LineStart(flush.low, ILine) /\ flush'.next = flush.next
          /\ flush'.low = flush.low /\ flush'.high = flush.high
      BY <1>1, <1>2, <2>3 DEF CleanLine
    <3>2. LineStart(flush.low, ILine) \in Nat /\ LineStart(flush.low, ILine) <= flush.low
      BY <1>1, StartIs, LineAssumption
    <3>3. flush'.at \in Words
      BY <1>1, <3>1, <3>2 DEF Words
    <3> QED BY <1>1, <2>1, <3>1, <3>3 DEF BoundsInv, Within
  <2> QED BY <2>2, <2>3
<1>3. CASE InvalidateLine
  <2>1. CASE flush.at + ILine < flush.high
    <3>1. /\ flush'.at = flush.at + ILine /\ flush'.next = flush.next /\ flush'.low = flush.low
          /\ flush'.high = flush.high /\ UNCHANGED patcher
      BY <1>1, <1>3, <2>1 DEF InvalidateLine
    <3>2. flush'.at \in Words
      BY <1>1, <2>1, <3>1 DEF Words
    <3> QED BY <1>1, <3>1, <3>2 DEF BoundsInv, Within
  <2>2. CASE ~(flush.at + ILine < flush.high)
    <3>1. flush' = NoFlush /\ patcher' = flush.next
      BY <1>3, <2>2 DEF InvalidateLine
    <3> QED BY <1>1, <3>1, LineAssumption DEF BoundsInv, Within, NoFlush, NoPatcher, Words
  <2> QED BY <2>1, <2>2
<1> QED BY <1>2, <1>3

(* A store is within the alias, and so is a patcher behind it.             *)
LEMMA StoresWithin ==
  ASSUME BoundsInv, NEW a, NEW v, NEW i, Store(a, v, i), Within(patcher')
  PROVE  BoundsInv'
<1>1. /\ palette' = palette /\ outcome' = outcome /\ flush' = flush
      /\ writes < MaxWrites /\ writes' = writes + 1 /\ writes \in 0..MaxWrites
  BY DEF Store, BoundsInv
<1>2. writes' \in 0..MaxWrites
  BY <1>1, LineAssumption
<1> QED BY <1>1, <1>2 DEF BoundsInv, Within

LEMMA WrittenWithin == ASSUME CacheInv, BoundsInv, WriteInst \/ WriteData \/ RandomWrite PROVE BoundsInv'
<1>1. ASSUME NEW v, NEW i, StreamWrite(v, i) PROVE BoundsInv'
  <2>1. /\ Store(patcher.high, v, i) /\ patcher.high \in Words
        /\ patcher' = [patcher EXCEPT !.high = @ + 1]
    BY <1>1 DEF StreamWrite, Store
  <2>2. patcher'.high = patcher.high + 1
    BY <2>1, PatcherIs DEF Patcher
  <2>3. Within(patcher')
    BY <2>1, <2>2, LineAssumption DEF Within, Words
  <2> QED BY <2>1, <2>3, StoresWithin
<1>2. CASE RandomWrite
  <2>1. PICK a \in Words, v \in Data :
          patcher' = SetHighest(SetLowest(patcher, a), a + 1) /\ Store(a, v, NotAsked)
    BY <1>2 DEF RandomWrite
  <2> DEFINE p == SetLowest(patcher, a)
  <2>2. patcher.kind = "random" /\ p \in Patcher /\ p.high = patcher.high /\ p.high <= Size
    BY <1>2, PatcherIs, WordsAre DEF RandomWrite, AtWork, BoundsInv, Within, SetLowest, Patcher
  <2> HIDE DEF p
  <2>3. patcher' = SetHighest(p, a + 1)
    BY <2>1 DEF p
  <2>4. patcher'.high \in {p.high, a + 1}
    BY <2>2, <2>3 DEF SetHighest, Patcher
  <2>5. Within(patcher')
    BY <2>2, <2>4, LineAssumption DEF Within, Words
  <2> QED BY <2>1, <2>5, StoresWithin
<1> QED BY <1>1, <1>2 DEF WriteInst, WriteData

(* What patchers do otherwise.                                             *)
LEMMA FlushesWithin ==
  ASSUME CacheInv, BoundsInv, NEW next, Within(next), flush.phase = "none",
         UNCHANGED <<palette, outcome, writes>>,
         \/ patcher' = next /\ UNCHANGED flush
         \/ /\ Flushing(patcher.low, patcher.high, next) /\ UNCHANGED patcher
            /\ patcher.kind # "none" /\ 0 <= patcher.low /\ patcher.low < patcher.high
  PROVE  BoundsInv'
<1>1. CASE patcher' = next /\ UNCHANGED flush
  BY <1>1 DEF BoundsInv, Within
<1>2. CASE /\ Flushing(patcher.low, patcher.high, next) /\ UNCHANGED patcher
           /\ patcher.kind # "none" /\ 0 <= patcher.low /\ patcher.low < patcher.high
  <2>1. patcher.low \in Nat /\ patcher.high \in Int /\ patcher.high <= Size /\ patcher.low < Size
    BY <1>2, PatcherIs, LineAssumption DEF BoundsInv, Within
  <2>2. Within(flush'.next) /\ flush'.at \in Words /\ flush'.low < Size /\ flush'.high <= Size
    BY <1>2, <2>1, FlushingIsWithin
  <2> QED BY <1>2, <2>2 DEF BoundsInv, Within
<1> QED BY <1>1, <1>2

LEMMA PatchersWithin ==
  ASSUME CacheInv, BoundsInv, Open \/ Seek \/ CloseStream \/ FlushRandom \/ CloseRandom
  PROVE  BoundsInv'
<1>1. Within(NoPatcher)
  BY DEF Within, NoPatcher
<1>2. ASSUME NEW a \in Words PROVE Within([kind |-> "stream", low |-> a, high |-> a])
  BY LineAssumption DEF Within, Words
<1>3. CASE Open
  <2>1. Within(patcher')
    <3>1. CASE patcher' = [kind |-> "random", low |-> UIntPtrMax, high |-> UIntPtrMax]
      <4>1. patcher'.high = -1
        BY <3>1 DEF UIntPtrMax
      <4> QED BY <4>1, LineAssumption DEF Within
    <3>2. ASSUME NEW a \in Words, patcher' = [kind |-> "stream", low |-> a, high |-> a]
          PROVE  Within(patcher')
      BY <1>2, <3>2
    <3>3. \/ \E a \in Words : patcher' = [kind |-> "stream", low |-> a, high |-> a]
          \/ patcher' = [kind |-> "random", low |-> UIntPtrMax, high |-> UIntPtrMax]
      BY <1>3 DEF Open
    <3> QED BY <3>1, <3>2, <3>3
  <2> QED BY <1>3, <2>1 DEF Open, BoundsInv, Within
<1>4. ASSUME NEW next, Within(next), AtWork("stream"), FlushThen(next),
             UNCHANGED <<palette, outcome, writes>>
      PROVE  BoundsInv'
  <2>1. 0 <= patcher.low /\ patcher.low <= patcher.high /\ patcher.kind = "stream"
    BY <1>4, PatcherIs DEF AtWork, PatcherOK
  <2>2. \/ patcher' = next /\ UNCHANGED flush
        \/ /\ Flushing(patcher.low, patcher.high, next) /\ UNCHANGED patcher
           /\ patcher.low < patcher.high
    BY <1>4, <2>1, PatcherIs DEF FlushThen
  <2> QED BY <1>4, <2>1, <2>2, FlushesWithin DEF AtWork
<1>5. ASSUME NEW next, Within(next), RandomFlush(next) PROVE BoundsInv'
  <2>1. /\ patcher.kind = "random" /\ flush.phase = "none" /\ UNCHANGED <<palette, outcome, writes>>
        /\ \/ patcher.low = -1 /\ patcher.high = -1
           \/ 0 <= patcher.low /\ patcher.low < patcher.high
    BY <1>5, PatcherIs DEF RandomFlush, AtWork, PatcherOK, UIntPtrMax
  <2>2. \/ patcher' = next /\ UNCHANGED flush
        \/ /\ Flushing(patcher.low, patcher.high, next) /\ UNCHANGED patcher
           /\ 0 <= patcher.low /\ patcher.low < patcher.high
    BY <1>5, <2>1 DEF RandomFlush, IsUnset, UIntPtrMax
  <2> QED BY <1>5, <2>1, <2>2, FlushesWithin
<1>6. CASE Seek
  <2>1. PICK a \in Words : FlushThen([kind |-> "stream", low |-> a, high |-> a])
    BY <1>6 DEF Seek
  <2> QED BY <1>2, <1>4, <1>6, <2>1 DEF Seek
<1>7. CASE CloseStream
  BY <1>1, <1>4, <1>7 DEF CloseStream
<1>8. CASE FlushRandom
  BY <1>5, <1>8 DEF FlushRandom, BoundsInv
<1>9. CASE CloseRandom
  BY <1>1, <1>5, <1>9 DEF CloseRandom
<1> QED BY <1>3, <1>6, <1>7, <1>8, <1>9

LEMMA InstalledWithin == ASSUME CacheInv, BoundsInv, Install PROVE BoundsInv'
<1>1. PICK t \in Words \ {0} :
        Installs(t) \subseteq Words /\ Flushing(t, t + Len(Assembly), NoPatcher)
  BY DEF Install
<1>2. /\ palette' = palette /\ outcome' = outcome /\ patcher' = patcher
      /\ writes < MaxWrites /\ writes' = writes + 1 /\ writes \in 0..MaxWrites
  BY DEF Install, BoundsInv
<1>3. t \in Nat /\ t < Size /\ Len(Assembly) \in Nat /\ Size \in Nat
  BY LineAssumption DEF Words
<1>4. t + Len(Assembly) <= Size
  <2>1. CASE Len(Assembly) = 0
    BY <1>3, <2>1
  <2>2. CASE Len(Assembly) # 0
    <3>1. t + (Len(Assembly) - 1) \in Installs(t)
      BY <1>3, <2>2 DEF Installs
    <3> QED BY <1>1, <1>3, <3>1 DEF Words
  <2> QED BY <2>1, <2>2
<1>5. Within(NoPatcher)
  BY DEF Within, NoPatcher
<1>6. Within(flush'.next) /\ flush'.at \in Words /\ flush'.low < Size /\ flush'.high <= Size
  BY <1>1, <1>3, <1>4, <1>5, FlushingIsWithin
<1>7. writes' \in 0..MaxWrites
  BY <1>2, LineAssumption
<1> QED BY <1>2, <1>6, <1>7 DEF BoundsInv, Within

LEMMA NextKeepsBounds == ASSUME CacheInv, BoundsInv, [Next]_vars PROVE BoundsInv'
<1>1. CASE WriteBack \/ Fill \/ UNCHANGED vars
  <2>1. UNCHANGED <<palette, writes, outcome, patcher, flush>>
    BY <1>1 DEF WriteBack, Fill, vars
  <2> QED BY <2>1 DEF BoundsInv, Within
<1>2. CASE Reinstall
  BY <1>2 DEF Reinstall, BoundsInv, Within
<1> QED BY <1>1, <1>2, FlushingKeepsWithin, WrittenWithin, PatchersWithin, InstalledWithin DEF Next

(* What is written before an installation is none of the assembly's words, *)
(* and what an installation keeps is what was there.                       *)
LEMMA NextKeepsOriginal ==
  ASSUME AssemblyIsNew, CacheInv, BoundsInv, NotYetThere, OriginalKept, [Next]_vars
  PROVE  NotYetThere' /\ OriginalKept'
<1>1. CASE data' = data /\ asm' = asm /\ (outcome' = outcome \/ asm.addr # 0)
  BY <1>1 DEF NotYetThere, OriginalKept
<1>2. ASSUME NEW a, NEW v, NEW i, Store(a, v, i), \A k \in DOMAIN Assembly : v # Assembly[k]
      PROVE  NotYetThere' /\ OriginalKept'
  <2>1. asm' = asm /\ outcome' = outcome /\ data' = [data EXCEPT ![a] = v]
    BY <1>2 DEF Store
  <2>2. \A w \in Words : data'[w] \in {v, data[w]}
    BY <2>1 DEF CacheInv, CacheTypeOK
  <2> QED BY <1>2, <2>1, <2>2 DEF NotYetThere, OriginalKept
<1>3. CASE WriteInst
  <2>1. PICK i \in palette : StreamWrite(Encoding(InstAt(i)), i)
    BY <1>3 DEF WriteInst
  <2>2. Store(patcher.high, Encoding(InstAt(i)), i) /\ patcher.high \in Words
    BY <2>1 DEF StreamWrite, Store
  <2>3. InstAt(i) = Here(i, patcher.high)
    BY DEF InstAt, Here, RelativeAddressFromBase
  <2>4. \A k \in DOMAIN Assembly : Encoding(InstAt(i)) # Assembly[k]
    BY <2>2, <2>3 DEF AssemblyIsNew, BoundsInv
  <2> QED BY <1>2, <2>2, <2>4
<1>4. CASE WriteData \/ RandomWrite
  <2>1. PICK v \in Data : \E a : Store(a, v, NotAsked)
    BY <1>4 DEF WriteData, StreamWrite, RandomWrite
  <2>2. PICK a : Store(a, v, NotAsked)
    BY <2>1
  <2> QED BY <1>2, <2>2 DEF AssemblyIsNew
<1>5. CASE Install
  <2>1. PICK t \in Words \ {0} :
          Installs(t) \subseteq Words /\ asm' = [addr |-> t, orig |-> Kept(t)]
    BY <1>5 DEF Install
  <2>2. asm.addr = 0 /\ outcome' = outcome
    BY <1>5 DEF Install
  <2>3. Len(Assembly) \in Nat /\ t \in Nat /\ DOMAIN Assembly = 1..Len(Assembly)
    BY WordsAre, LineAssumption
  <2>4. asm'.addr = t /\ asm'.orig = [k \in 1..Len(Assembly) |-> data[t + k - 1]]
    BY <2>1 DEF Kept
  <2>5. Len(asm'.orig) = Len(Assembly) /\ DOMAIN asm'.orig = 1..Len(Assembly)
    BY <2>3, <2>4
  <2>6. ASSUME NEW k \in 1..Len(Assembly) PROVE asm'.orig[k] # Assembly[k]
    <3>1. t + (k - 1) \in Installs(t) /\ t + k - 1 = t + (k - 1)
      BY <2>3 DEF Installs
    <3>2. asm'.orig[k] = data[t + k - 1] /\ t + k - 1 \in Words
      BY <2>1, <2>4, <3>1
    <3> QED BY <2>2, <2>3, <3>2 DEF NotYetThere
  <2> QED BY <2>1, <2>2, <2>4, <2>5, <2>6 DEF NotYetThere, OriginalKept
<1> QED
  BY <1>1, <1>3, <1>4, <1>5
  DEF Next, vars, caches, WriteBack, Fill, CleanLine, InvalidateLine, Open, Seek, CloseStream,
      FlushRandom, CloseRandom, RandomFlush, Reinstall

(* For any alias, line sizes and sequence of patches: every flush stays    *)
(* within the alias, and a patch that is in force has kept the words it    *)
(* covers, provided that the assembly's words can be told from others      *)
(* (PATCH_DEFINE_ASM); only its second installation ends the program.      *)
THEOREM OriginalIsKept ==
  ASSUME AssemblyIsNew
  PROVE  Spec => []PatchInv
<1>1. KeepInv => PatchInv
  BY DEF KeepInv, PatchInv, BoundsInv, TypeOK, CacheInv, FlushTypeOK, Patcher, PatcherOK
<1>2. KeepInv /\ [Next]_vars => KeepInv'
  BY NextKeepsCaches, NextKeepsBounds, NextKeepsOriginal DEF KeepInv
<1> QED BY <1>1, <1>2, KeepStarts, PTL DEF Spec

-----------------------------------------------------------------------------
(* The instructions written.                                               *)

(* Then the words of a text are what CodePatcher was asked to make them,   *)
(* however patchers seek, overlap, flush and install: a branch is one to   *)
(* where it was to go from where it stands (CodePatcher, StreamPatcher).   *)
(* An adrp that goes back is one but for the sign of its distance.         *)
THEOREM WordsAreAsAsked ==
  ASSUME EncodersAreRight
  PROVE  Spec => []WrittenAsAsked
<1> DEFINE Inv == CacheInv /\ palette \in Palettes /\ DOMAIN asked = Words /\ WrittenAsAsked
<1>1. Init => Inv
  BY CacheStarts DEF Init, WrittenAsAsked
<1>2. ASSUME Inv, [Next]_vars PROVE Inv'
  <2>1. CASE UNCHANGED <<data, asked, palette>>
    BY <1>2, <2>1, NextKeepsCaches DEF WrittenAsAsked
  <2>2. ASSUME NEW a, NEW v, NEW i, Store(a, v, i), i # NotAsked => IsInstruction(Meant(v, Here(i, a)), Here(i, a))
        PROVE  Inv'
    <3>1. /\ palette' = palette /\ data' = [data EXCEPT ![a] = v] /\ asked' = [asked EXCEPT ![a] = i]
          /\ a \in Words
      BY <2>2 DEF Store
    <3>2. /\ DOMAIN asked' = Words /\ data'[a] = v /\ asked'[a] = i
          /\ \A w \in Words : w # a => data'[w] = data[w] /\ asked'[w] = asked[w]
      BY <1>2, <3>1 DEF CacheInv, CacheTypeOK
    <3>3. ASSUME NEW w \in Words, asked'[w] # NotAsked PROVE IsInstruction(Meant(data'[w], Here(asked'[w], w)), Here(asked'[w], w))
      BY <1>2, <2>2, <3>2, <3>3 DEF WrittenAsAsked
    <3> QED BY <1>2, <3>1, <3>2, <3>3, NextKeepsCaches DEF WrittenAsAsked
  <2>3. CASE WriteInst
    <3>1. PICK i \in palette : StreamWrite(Encoding(InstAt(i)), i)
      BY <2>3 DEF WriteInst
    <3>2. Store(patcher.high, Encoding(InstAt(i)), i) /\ patcher.high \in Words
      BY <3>1 DEF StreamWrite, Store
    <3>3. InstAt(i) = Here(i, patcher.high)
      BY DEF InstAt, Here, RelativeAddressFromBase
    <3>4. IsInstruction(Meant(Encoding(InstAt(i)), Here(i, patcher.high)), Here(i, patcher.high))
      BY <1>2, <3>2, <3>3 DEF EncodersAreRight
    <3> QED BY <2>2, <3>2, <3>4
  <2>4. CASE WriteData \/ RandomWrite
    <3>1. PICK v, a : Store(a, v, NotAsked)
      BY <2>4 DEF WriteData, StreamWrite, RandomWrite
    <3> QED BY <2>2, <3>1
  <2>5. CASE Install
    <3>1. PICK t \in Words :
            /\ data' = [w \in Words |-> IF w \in Installs(t) THEN Assembly[w - t + 1] ELSE data[w]]
            /\ asked' = [w \in Words |-> IF w \in Installs(t) THEN NotAsked ELSE asked[w]]
      BY <2>5 DEF Install
    <3>2. palette' = palette
      BY <2>5 DEF Install
    <3> QED BY <1>2, <3>1, <3>2, NextKeepsCaches DEF WrittenAsAsked
  <2> QED
    BY <1>2, <2>1, <2>3, <2>4, <2>5
    DEF Next, vars, caches, WriteBack, Fill, CleanLine, InvalidateLine, Open, Seek, CloseStream,
        FlushRandom, CloseRandom, RandomFlush, Reinstall
<1> QED BY <1>1, <1>2, PTL DEF Spec
=============================================================================
