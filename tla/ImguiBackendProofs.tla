------------------------- MODULE ImguiBackendProofs --------------------------
(***************************************************************************)
(* That the backend's heap has the memory of its two buffers and nothing   *)
(* else, that nothing is written past them, and that the GPU draws what    *)
(* ImGui asked for, proved for every sequence of frames, every refusal of  *)
(* the driver and any lag of the GPU.                                      *)
(***************************************************************************)
EXTENDS ImguiBackend, FiniteSetTheorems, TLAPS

(* Memory is numbered in the order it was allocated: a buffer of the frame *)
(* at hand has a number nothing had before it, and the two are apart.      *)
BufferInv(b) ==
  /\ DOMAIN b = {"id", "size", "ready", "data"}
  /\ b.id = None \/ b.id \in 1..made

HeapInv ==
  /\ made \in Nat
  /\ BufferInv(vtxBuffer) /\ BufferInv(idxBuffer)
  /\ vtxBuffer.id = idxBuffer.id => vtxBuffer.id = None
  /\ NoLeak

LEMMA HeapStarts == Init => HeapInv
  BY DEF Init, HeapInv, BufferInv, NoBuffer, NoLeak

LEMMA HeapStays ==
  ASSUME HeapInv, UNCHANGED <<made, memory>>,
         BufferInv(vtxBuffer)', BufferInv(idxBuffer)',
         vtxBuffer'.id = vtxBuffer.id, idxBuffer'.id = idxBuffer.id
  PROVE  HeapInv'
  BY DEF HeapInv, NoLeak

(* What takes the place of a buffer that is too small.                     *)
LEMMA Grown ==
  ASSUME HeapInv, NEW b, BufferInv(b), NEW size, NEW new, Grow(b, new, size)
  PROVE  \/ new = b /\ UNCHANGED <<memory, made>>
         \/ /\ made' = made + 1 /\ memory' = (memory \ {b.id}) \cup {made + 1}
            /\ DOMAIN new = {"id", "size", "ready", "data"} /\ new.id = made + 1
<1>1. CASE new = b /\ UNCHANGED <<memory, made, queue>>
  BY <1>1
<1>2. CASE new \in Buffers(size) /\ made' = made + 1 /\ memory' = Freed(b) \cup {made + 1}
  <2> DEFINE fresh == [id |-> made + 1, size |-> Aligned(size), ready |-> TRUE,
                       data |-> [u \in 1..Aligned(size) |-> None]]
  <2>1. DOMAIN fresh = {"id", "size", "ready", "data"} /\ fresh.id = made + 1
    OBVIOUS
  <2>2. \/ new = fresh \/ new = [fresh EXCEPT !.ready = FALSE]
        \/ \E any \in {0, 3 * Page} : new = [fresh EXCEPT !.ready = FALSE, !.size = any]
    BY <1>2 DEF Buffers
  <2> HIDE DEF fresh
  <2>3. DOMAIN new = {"id", "size", "ready", "data"} /\ new.id = made + 1
    BY <2>1, <2>2
  <2> QED BY <1>2, <2>3 DEF Freed
<1> QED BY <1>1, <1>2 DEF Grow

LEMMA GrowVtxKeeps ==
  ASSUME HeapInv, GrowVtx
  PROVE  HeapInv'
<1>1. UNCHANGED idxBuffer /\ Grow(vtxBuffer, vtxBuffer', TotalVtxSize(draw.frame))
  BY DEF GrowVtx
<1>2. CASE UNCHANGED <<vtxBuffer, memory, made>>
  BY <1>1, <1>2, HeapStays DEF BufferInv, HeapInv
<1>3. CASE /\ made' = made + 1 /\ memory' = (memory \ {vtxBuffer.id}) \cup {made + 1}
           /\ DOMAIN vtxBuffer' = {"id", "size", "ready", "data"} /\ vtxBuffer'.id = made + 1
  <2>1. made \in Nat /\ made' \in Nat /\ made + 1 \in 1..made' /\ 1..made \subseteq 1..made'
    BY <1>3 DEF HeapInv
  <2>2. BufferInv(vtxBuffer)' /\ BufferInv(idxBuffer)'
    BY <1>1, <1>3, <2>1 DEF HeapInv, BufferInv
  <2>3. vtxBuffer'.id # idxBuffer.id /\ made + 1 # None
    BY <1>3, <2>1, UnitsAssumption DEF HeapInv, BufferInv
  <2>4. memory' = {vtxBuffer'.id, idxBuffer'.id} \ {None}
    BY <1>1, <1>3, <2>3 DEF HeapInv, NoLeak
  <2> QED BY <1>1, <2>1, <2>2, <2>3, <2>4 DEF HeapInv, NoLeak
<1> QED BY <1>1, <1>2, <1>3, Grown DEF HeapInv

LEMMA GrowIdxKeeps ==
  ASSUME HeapInv, GrowIdx
  PROVE  HeapInv'
<1>1. UNCHANGED vtxBuffer /\ Grow(idxBuffer, idxBuffer', TotalIdxSize(draw.frame))
  BY DEF GrowIdx
<1>2. CASE UNCHANGED <<idxBuffer, memory, made>>
  BY <1>1, <1>2, HeapStays DEF BufferInv, HeapInv
<1>3. CASE /\ made' = made + 1 /\ memory' = (memory \ {idxBuffer.id}) \cup {made + 1}
           /\ DOMAIN idxBuffer' = {"id", "size", "ready", "data"} /\ idxBuffer'.id = made + 1
  <2>1. made \in Nat /\ made' \in Nat /\ made + 1 \in 1..made' /\ 1..made \subseteq 1..made'
    BY <1>3 DEF HeapInv
  <2>2. BufferInv(vtxBuffer)' /\ BufferInv(idxBuffer)'
    BY <1>1, <1>3, <2>1 DEF HeapInv, BufferInv
  <2>3. idxBuffer'.id # vtxBuffer.id /\ made + 1 # None
    BY <1>3, <2>1, UnitsAssumption DEF HeapInv, BufferInv
  <2>4. memory' = {vtxBuffer'.id, idxBuffer'.id} \ {None}
    BY <1>1, <1>3, <2>3 DEF HeapInv, NoLeak
  <2> QED BY <1>1, <2>1, <2>2, <2>3, <2>4 DEF HeapInv, NoLeak
<1> QED BY <1>1, <1>2, <1>3, Grown DEF HeapInv

(* Vertices and indices are written into the buffers as they are.          *)
LEMMA RecordListKeeps ==
  ASSUME HeapInv, RecordList
  PROVE  HeapInv'
<1>1. UNCHANGED <<made, memory>>
  BY DEF RecordList
<1>2. ASSUME NEW b, BufferInv(b), NEW offset, NEW values, NEW units
      PROVE  DOMAIN Written(b, offset, values, units) = DOMAIN b /\ Written(b, offset, values, units).id = b.id
  BY <1>2 DEF Written, BufferInv
<1>3. /\ DOMAIN vtxBuffer' = DOMAIN vtxBuffer /\ vtxBuffer'.id = vtxBuffer.id
      /\ DOMAIN idxBuffer' = DOMAIN idxBuffer /\ idxBuffer'.id = idxBuffer.id
  <2>1. CASE UNCHANGED <<vtxBuffer, idxBuffer>>
    BY <2>1
  <2>2. CASE /\ vtxBuffer' = Written(vtxBuffer, draw.vtxOffset, List.vtx, VtxUnits)
             /\ idxBuffer' = Written(idxBuffer, draw.idxOffset, List.idx, 1)
    BY <1>2, <2>2 DEF HeapInv
  <2> QED BY <2>1, <2>2 DEF RecordList
<1> QED BY <1>1, <1>3, HeapStays DEF HeapInv, BufferInv

LEMMA NextKeepsHeap == HeapInv /\ [Next]_vars => HeapInv'
<1> SUFFICES ASSUME HeapInv, [Next]_vars PROVE HeapInv'
  OBVIOUS
<1>1. CASE UNCHANGED <<made, memory, vtxBuffer, idxBuffer>>
  BY <1>1, HeapStays DEF BufferInv, HeapInv
<1>2. CASE \/ InitBackend \/ TestReady \/ RecordCommand \/ NextList \/ SubmitCommands
           \/ Execute \/ Complete \/ Finished \/ UNCHANGED vars
  BY <1>1, <1>2 DEF InitBackend, TestReady, RecordCommand, NextList, SubmitCommands, Execute, Complete,
                    Finished, vars
<1>3. ASSUME NEW frame \in Frames, Begin(frame) PROVE HeapInv'
  BY <1>1, <1>3 DEF Begin
<1> QED BY <1>2, <1>3, GrowVtxKeeps, GrowIdxKeeps, RecordListKeeps DEF Next

(* However frames grow and whatever the driver refuses, the heap holds the *)
(* memory of the buffers in use and nothing that was in use before         *)
(* (MemoryBuffer, renderDrawData).                                         *)
THEOREM NothingLeaks == Spec => []NoLeak
<1>1. HeapInv => NoLeak
  BY DEF HeapInv
<1> QED BY <1>1, HeapStarts, NextKeepsHeap, PTL DEF Spec

-----------------------------------------------------------------------------
(* The lists of a frame, one after another.                                *)

(* The places of lists with n[i] elements each.                            *)
Placed(n, D) == UNION {{i} \X (1..n[i]) : i \in D}

LEMMA PlacedIn ==
  ASSUME NEW n, NEW i, n[i] \in Nat
  PROVE  IsFiniteSet(Placed(n, {i})) /\ Cardinality(Placed(n, {i})) = n[i]
<1>1. Placed(n, {i}) = {i} \X (1..n[i])
  BY DEF Placed
<1>2. IsFiniteSet({i}) /\ Cardinality({i}) = 1
  BY FS_Singleton
<1>3. IsFiniteSet(1..n[i]) /\ Cardinality(1..n[i]) = n[i]
  BY FS_Interval, SMTT(30)
<1>4. /\ IsFiniteSet({i} \X (1..n[i]))
      /\ Cardinality({i} \X (1..n[i])) = Cardinality({i}) * Cardinality(1..n[i])
  BY <1>2, <1>3, FS_Product
<1>5. Cardinality({i} \X (1..n[i])) = n[i]
  BY <1>2, <1>3, <1>4
<1> QED BY <1>1, <1>4, <1>5

LEMMA PlacedApart ==
  ASSUME NEW S, NEW T, IsFiniteSet(S), IsFiniteSet(T), S \cap T = {}
  PROVE  Cardinality(S \cup T) = Cardinality(S) + Cardinality(T)
<1>1. Cardinality(S \cup T) = Cardinality(S) + Cardinality(T) - Cardinality(S \cap T)
  BY FS_Union
<1>2. Cardinality(S \cap T) = 0
  BY FS_EmptySet
<1>3. Cardinality(S) \in Nat /\ Cardinality(T) \in Nat
  BY FS_CardinalityType
<1> QED BY <1>1, <1>2, <1>3

LEMMA PlacedFinite ==
  ASSUME NEW n, NEW m \in Nat, \A i \in 1..m : n[i] \in Nat
  PROVE  IsFiniteSet(Placed(n, 1..m)) /\ Cardinality(Placed(n, 1..m)) \in Nat
<1> DEFINE parts == {{i} \X (1..n[i]) : i \in 1..m}
           f     == [i \in 1..m |-> {i} \X (1..n[i])]
<1>1. f \in Surjection(1..m, parts)
  BY DEF Surjection
<1>2. IsFiniteSet(1..m)
  BY FS_Interval
<1>3. \A T \in parts : IsFiniteSet(T)
  <2> SUFFICES ASSUME NEW i \in 1..m PROVE IsFiniteSet({i} \X (1..n[i]))
    OBVIOUS
  <2>1. Placed(n, {i}) = {i} \X (1..n[i])
    BY DEF Placed
  <2> QED BY <2>1, PlacedIn
<1> HIDE DEF parts, f
<1>4. IsFiniteSet(UNION parts)
  BY <1>1, <1>2, <1>3, FS_Surjection, FS_UNION
<1>5. Placed(n, 1..m) = UNION parts
  BY DEF Placed, parts
<1> QED BY <1>4, <1>5, FS_CardinalityType

(* The first k lists have no more places than all, and list k begins where *)
(* those before it end.                                                    *)
LEMMA PlacedMore ==
  ASSUME NEW n, NEW m \in Nat, \A i \in 1..m : n[i] \in Nat, NEW k \in 1..m
  PROVE  /\ Cardinality(Placed(n, 1..k)) = Cardinality(Placed(n, 1..k-1)) + n[k]
         /\ Cardinality(Placed(n, 1..k)) <= Cardinality(Placed(n, 1..m))
         /\ Cardinality(Placed(n, 1..k-1)) \in Nat /\ Cardinality(Placed(n, 1..m)) \in Nat
<1>1. 1..k = (1..k-1) \cup {k} /\ k \notin 1..k-1 /\ 1..k \subseteq 1..m
  OBVIOUS
<1>2. /\ Placed(n, 1..k) = Placed(n, 1..k-1) \cup Placed(n, {k})
      /\ Placed(n, 1..k-1) \cap Placed(n, {k}) = {}
      /\ Placed(n, 1..k) \in SUBSET Placed(n, 1..m)
  BY <1>1 DEF Placed
<1>3. IsFiniteSet(Placed(n, 1..m)) /\ Cardinality(Placed(n, 1..m)) \in Nat
  BY PlacedFinite
<1>4. k - 1 \in Nat /\ \A i \in 1..k-1 : n[i] \in Nat
  BY <1>1
<1>5. IsFiniteSet(Placed(n, 1..k-1)) /\ Cardinality(Placed(n, 1..k-1)) \in Nat
  BY <1>4, PlacedFinite
<1>6. IsFiniteSet(Placed(n, {k})) /\ Cardinality(Placed(n, {k})) = n[k]
  BY PlacedIn
<1>7. Cardinality(Placed(n, 1..k)) <= Cardinality(Placed(n, 1..m))
  BY <1>2, <1>3, FS_Subset
<1>8. Cardinality(Placed(n, 1..k)) = Cardinality(Placed(n, 1..k-1)) + Cardinality(Placed(n, {k}))
  BY <1>2, <1>5, <1>6, PlacedApart
<1> QED BY <1>3, <1>5, <1>6, <1>7, <1>8

LEMMA PlacedNone == ASSUME NEW n PROVE Cardinality(Placed(n, 1..0)) = 0
<1>1. Placed(n, 1..0) = {}
  BY DEF Placed
<1> QED BY <1>1, FS_EmptySet

VtxOf(frame) == [i \in 1..Len(frame.lists) |-> Len(frame.lists[i].vtx)]
IdxOf(frame) == [i \in 1..Len(frame.lists) |-> Len(frame.lists[i].idx)]
VtxBefore(frame, k) == Cardinality(Placed(VtxOf(frame), 1..k-1))
IdxBefore(frame, k) == Cardinality(Placed(IdxOf(frame), 1..k-1))

LEMMA Totals ==
  ASSUME NEW frame \in Frames
  PROVE  /\ Len(frame.lists) \in Nat
         /\ TotalVtxSize(frame) = VtxUnits * Cardinality(Placed(VtxOf(frame), 1..Len(frame.lists)))
         /\ TotalIdxSize(frame) = Cardinality(Placed(IdxOf(frame), 1..Len(frame.lists)))
         /\ TotalVtxSize(frame) \in Nat /\ TotalIdxSize(frame) \in Nat
<1> DEFINE N == Len(frame.lists)
<1>1. /\ N \in Nat /\ DOMAIN frame.lists = 1..N
      /\ \A i \in 1..N : /\ Len(frame.lists[i].vtx) \in Nat
                         /\ DOMAIN frame.lists[i].vtx = 1..Len(frame.lists[i].vtx)
                         /\ Len(frame.lists[i].idx) \in Nat
                         /\ DOMAIN frame.lists[i].idx = 1..Len(frame.lists[i].idx)
  BY FramesAssumption
<1>2. \A i \in 1..N : VtxOf(frame)[i] \in Nat /\ IdxOf(frame)[i] \in Nat
  BY <1>1 DEF VtxOf, IdxOf
<1>3. UNION {{i} \X DOMAIN frame.lists[i].vtx : i \in DOMAIN frame.lists} = Placed(VtxOf(frame), 1..N)
  <2>1. \A i \in 1..N : {i} \X DOMAIN frame.lists[i].vtx = {i} \X (1..VtxOf(frame)[i])
    BY <1>1 DEF VtxOf
  <2> HIDE DEF N
  <2> QED BY <1>1, <2>1 DEF Placed
<1>4. UNION {{i} \X DOMAIN frame.lists[i].idx : i \in DOMAIN frame.lists} = Placed(IdxOf(frame), 1..N)
  <2>1. \A i \in 1..N : {i} \X DOMAIN frame.lists[i].idx = {i} \X (1..IdxOf(frame)[i])
    BY <1>1 DEF IdxOf
  <2> HIDE DEF N
  <2> QED BY <1>1, <2>1 DEF Placed
<1>5. /\ Cardinality(Placed(VtxOf(frame), 1..N)) \in Nat
      /\ Cardinality(Placed(IdxOf(frame), 1..N)) \in Nat
  BY <1>1, <1>2, PlacedFinite
<1>6. \A c \in Nat : VtxUnits * c \in Nat
  BY UnitsAssumption
<1> QED BY <1>1, <1>3, <1>4, <1>5, <1>6 DEF TotalVtxSize, TotalIdxSize

(* A list fits behind those before it where all of them fit.               *)
LEMMA ListFits ==
  ASSUME NEW frame \in Frames, NEW k \in 1..Len(frame.lists)
  PROVE  LET list == frame.lists[k] IN
         /\ Len(list.vtx) \in Nat /\ Len(list.idx) \in Nat
         /\ VtxBefore(frame, k) \in Nat /\ IdxBefore(frame, k) \in Nat
         /\ VtxBefore(frame, k + 1) = VtxBefore(frame, k) + Len(list.vtx)
         /\ IdxBefore(frame, k + 1) = IdxBefore(frame, k) + Len(list.idx)
         /\ VtxUnits * VtxBefore(frame, k + 1) <= TotalVtxSize(frame)
         /\ IdxBefore(frame, k + 1) <= TotalIdxSize(frame)
<1> DEFINE N == Len(frame.lists)
<1>1. /\ N \in Nat /\ DOMAIN frame.lists = 1..N
      /\ \A i \in 1..N : Len(frame.lists[i].vtx) \in Nat /\ Len(frame.lists[i].idx) \in Nat
  BY FramesAssumption
<1>2. /\ \A i \in 1..N : VtxOf(frame)[i] = Len(frame.lists[i].vtx) /\ VtxOf(frame)[i] \in Nat
      /\ \A i \in 1..N : IdxOf(frame)[i] = Len(frame.lists[i].idx) /\ IdxOf(frame)[i] \in Nat
  BY <1>1 DEF VtxOf, IdxOf
<1>3. k + 1 - 1 = k
  BY <1>1
<1> HIDE DEF N
<1>4. /\ Cardinality(Placed(VtxOf(frame), 1..k)) = VtxBefore(frame, k) + VtxOf(frame)[k]
      /\ Cardinality(Placed(VtxOf(frame), 1..k)) <= Cardinality(Placed(VtxOf(frame), 1..N))
      /\ VtxBefore(frame, k) \in Nat /\ Cardinality(Placed(VtxOf(frame), 1..N)) \in Nat
  BY <1>1, <1>2, PlacedMore DEF VtxBefore, N
<1>5. /\ Cardinality(Placed(IdxOf(frame), 1..k)) = IdxBefore(frame, k) + IdxOf(frame)[k]
      /\ Cardinality(Placed(IdxOf(frame), 1..k)) <= Cardinality(Placed(IdxOf(frame), 1..N))
      /\ IdxBefore(frame, k) \in Nat /\ Cardinality(Placed(IdxOf(frame), 1..N)) \in Nat
  BY <1>1, <1>2, PlacedMore DEF IdxBefore, N
<1>6. /\ VtxBefore(frame, k + 1) = Cardinality(Placed(VtxOf(frame), 1..k))
      /\ IdxBefore(frame, k + 1) = Cardinality(Placed(IdxOf(frame), 1..k))
  BY <1>3 DEF VtxBefore, IdxBefore
<1>7. \A a, b \in Nat : a <= b => VtxUnits * a <= VtxUnits * b
  BY UnitsAssumption
<1>8. k \in 1..N
  BY DEF N
<1>9. VtxBefore(frame, k + 1) \in Nat
  BY <1>1, <1>2, <1>4, <1>6, <1>8
<1>10. VtxUnits * VtxBefore(frame, k + 1) <= VtxUnits * Cardinality(Placed(VtxOf(frame), 1..N))
  BY <1>4, <1>6, <1>7, <1>9
<1> QED BY <1>1, <1>2, <1>4, <1>5, <1>6, <1>8, <1>10, Totals DEF N

-----------------------------------------------------------------------------
(* Buffers.                                                                *)

LEMMA Whole == ASSUME NEW n \in Nat \ {0}, NEW q \in Nat PROVE q * n \in Nat /\ (q * n) % n = 0
<1> DEFINE w == q * n
           k == w \div n
           r == w % n
<1>1. w \in Nat
  OBVIOUS
<1>2. k \in Nat /\ r \in 0..n-1 /\ w = n * k + r
  BY <1>1
<1>3. n * q = w
  OBVIOUS
<1>4. ASSUME NEW a \in Nat, NEW b \in Nat, a + 1 <= b PROVE n * a + n <= n * b
  BY <1>4
<1> HIDE DEF w, k, r
<1>5. ~(k + 1 <= q) /\ ~(q + 1 <= k)
  BY <1>1, <1>2, <1>3, <1>4
<1>6. k = q
  BY <1>2, <1>5
<1>7. r = 0
  BY <1>1, <1>2, <1>3, <1>6
<1> QED BY <1>1, <1>7 DEF w, r

LEMMA AlignedIs ==
  ASSUME NEW size \in Nat
  PROVE  Aligned(size) \in Nat /\ Aligned(size) >= size /\ Aligned(size) % Page = 0
<1> DEFINE a == size + Page - 1
           q == a \div Page
           r == a % Page
<1>1. Page \in Nat \ {0} /\ a \in Nat
  BY UnitsAssumption
<1>2. q \in Nat /\ r \in 0..Page-1 /\ a = Page * q + r
  BY <1>1
<1>3. Page * q = q * Page /\ q * Page \in Nat
  BY <1>1, <1>2
<1>4. a = size + Page - 1
  OBVIOUS
<1>5. Aligned(size) = q * Page
  BY DEF Aligned
<1> HIDE DEF a, q, r
<1>6. q * Page >= size
  BY <1>1, <1>2, <1>3, <1>4
<1> QED BY <1>1, <1>2, <1>3, <1>5, <1>6, Whole

(* A buffer that is ready is of whole pages and as long as it says.        *)
Sized(b) ==
  /\ b.size \in Nat /\ b.ready \in BOOLEAN
  /\ b.ready => b.size % Page = 0 /\ DOMAIN b.data = 1..b.size /\ Len(b.data) = b.size

LEMMA GrownSound ==
  ASSUME HeapInv, NEW b, BufferInv(b), Sized(b), NEW size \in Nat, NEW new, Grow(b, new, size)
  PROVE  /\ Sized(new) /\ (new.ready => new.size >= size)
         /\ made' = made \/ made' = made + 1
         /\ queue' = queue \/ queue' = Touch(queue)
<1>1. CASE b.id # None /\ Enough(b, size) /\ new = b /\ UNCHANGED <<memory, made, queue>>
  BY <1>1 DEF Enough
<1>2. CASE /\ new \in Buffers(size) /\ made' = made + 1
           /\ queue' = IF b.id = None THEN queue ELSE Touch(queue)
  <2> DEFINE n     == Aligned(size)
             fresh == [id |-> made + 1, size |-> n, ready |-> TRUE, data |-> [u \in 1..n |-> None]]
  <2>1. n \in Nat /\ n >= size /\ n % Page = 0
    BY AlignedIs
  <2>2. \/ new = fresh \/ new = [fresh EXCEPT !.ready = FALSE]
        \/ \E any \in {0, 3 * Page} : new = [fresh EXCEPT !.ready = FALSE, !.size = any]
    BY <1>2 DEF Buffers
  <2> HIDE DEF n
  <2>3. fresh.size = n /\ fresh.ready = TRUE /\ fresh.data = [u \in 1..n |-> None]
    OBVIOUS
  <2>4. DOMAIN [u \in 1..n |-> None] = 1..n /\ Len([u \in 1..n |-> None]) = n
    BY <2>1
  <2>5. CASE new = fresh
    <3>1. new.size = n /\ new.ready = TRUE /\ DOMAIN new.data = 1..n /\ Len(new.data) = n
      BY <2>3, <2>4, <2>5
    <3> HIDE DEF fresh
    <3> QED BY <1>2, <2>1, <3>1 DEF Sized
  <2>6. CASE new = [fresh EXCEPT !.ready = FALSE]
    <3>1. new.size = n /\ new.ready = FALSE
      BY <2>3, <2>6
    <3> HIDE DEF fresh
    <3> QED BY <1>2, <2>1, <3>1 DEF Sized
  <2>7. ASSUME NEW any \in {0, 3 * Page}, new = [fresh EXCEPT !.ready = FALSE, !.size = any]
        PROVE  Sized(new) /\ new.ready = FALSE
    <3>1. new.size = any /\ new.ready = FALSE
      BY <2>3, <2>7
    <3>2. any \in Nat
      BY UnitsAssumption
    <3> HIDE DEF fresh
    <3> QED BY <3>1, <3>2 DEF Sized
  <2> HIDE DEF fresh
  <2> QED BY <1>2, <2>2, <2>5, <2>6, <2>7
<1> QED BY <1>1, <1>2 DEF Grow

LEMMA WrittenIs ==
  ASSUME NEW b, BufferInv(b), Sized(b), b.ready, NEW offset, NEW values, NEW units
  PROVE  LET new == Written(b, offset, values, units) IN
         Sized(new) /\ new.size = b.size /\ new.ready
<1> DEFINE n == b.size
           Value(u) == IF u - 1 \in {offset + units * (i - 1) : i \in DOMAIN values}
                       THEN values[((u - 1 - offset) \div units) + 1] ELSE b.data[u]
           d == [u \in 1..n |-> Value(u)]
<1>1. n \in Nat /\ n % Page = 0 /\ DOMAIN b.data = 1..n
  BY DEF Sized
<1>2. Written(b, offset, values, units) = [b EXCEPT !.data = d]
  BY <1>1 DEF Written
<1> HIDE DEF Value
<1>3. DOMAIN d = 1..n /\ Len(d) = n
  BY <1>1
<1> HIDE DEF d
<1>4. LET new == [b EXCEPT !.data = d] IN new.data = d /\ new.size = n /\ new.ready = b.ready
  BY DEF BufferInv
<1> QED BY <1>1, <1>2, <1>3, <1>4 DEF Sized

-----------------------------------------------------------------------------
(* A frame.                                                                *)

DrawFields == {"pc", "frame", "next", "cmd", "vtxOffset", "idxOffset", "bound", "commands"}

(* How far the lists of the frame at hand have been written.               *)
DrawInv ==
  /\ DOMAIN draw = DrawFields
  /\ draw.pc \in {"out", "vtx", "idx", "test", "record"} /\ draw.frame \in Frames \cup {None}
  /\ draw.pc # "out" =>
       /\ draw.frame \in Frames
       /\ draw.next \in 1..Len(draw.frame.lists) + 1
       /\ draw.cmd \in Nat /\ (draw.cmd # 0 => draw.next <= Len(draw.frame.lists))
       /\ draw.vtxOffset = VtxUnits * VtxBefore(draw.frame, draw.next)
       /\ draw.idxOffset = IdxBefore(draw.frame, draw.next)

(* Buffers that are ready have room for the whole frame once they have     *)
(* been looked at, and lists are written only to such.                     *)
RoomInv ==
  /\ Sized(vtxBuffer) /\ Sized(idxBuffer)
  /\ draw.pc \in {"idx", "test", "record"} /\ vtxBuffer.ready =>
       vtxBuffer.size >= TotalVtxSize(draw.frame)
  /\ draw.pc \in {"test", "record"} /\ idxBuffer.ready => idxBuffer.size >= TotalIdxSize(draw.frame)
  /\ draw.pc = "record" => vtxBuffer.ready /\ idxBuffer.ready

(* A frame makes at most two buffers.                                      *)
MayMake == IF draw.pc = "vtx" THEN 2 ELSE IF draw.pc = "idx" THEN 1 ELSE 0
CountInv == count \in 0..MaxFrames /\ made + MayMake <= 2 * count

Submitted(q) ==
  \E S : q \in Seq(S) /\ \A e \in S : DOMAIN e = {"frame", "commands", "touched"} /\ e.frame \in Frames

SoundInv ==
  /\ HeapInv /\ DrawInv /\ RoomInv /\ CountInv /\ Submitted(queue)
  /\ backend \in {"new", "half", "ready"} /\ InBounds

LEMMA NoDrawIs ==
  /\ DOMAIN NoDraw = DrawFields
  /\ NoDraw.pc = "out" /\ NoDraw.frame = None /\ NoDraw.next = 1 /\ NoDraw.cmd = 0
  /\ NoDraw.vtxOffset = 0 /\ NoDraw.idxOffset = 0 /\ NoDraw.bound = None /\ NoDraw.commands = <<>>
  BY DEF NoDraw, DrawFields

LEMMA SoundStarts == Init => SoundInv
<1> SUFFICES ASSUME Init PROVE SoundInv
  OBVIOUS
<1>1. Sized(NoBuffer)
  BY DEF NoBuffer, Sized
<1>2. RoomInv
  <2>1. Sized(vtxBuffer) /\ Sized(idxBuffer)
    BY <1>1 DEF Init
  <2> QED BY <2>1, NoDrawIs DEF Init, RoomInv
<1>3. DrawInv
  BY NoDrawIs DEF Init, DrawInv
<1>4. CountInv
  BY NoDrawIs, FramesAssumption DEF Init, CountInv, MayMake
<1>5. queue = <<>> /\ queue \in Seq({})
  BY DEF Init
<1>6. Submitted(queue)
  <2>1. \A e \in {} : DOMAIN e = {"frame", "commands", "touched"} /\ e.frame \in Frames
    OBVIOUS
  <2> QED BY <1>5, <2>1 DEF Submitted
<1> QED BY <1>2, <1>3, <1>4, <1>6, HeapStarts DEF Init, SoundInv, InBounds

LEMMA Touched ==
  ASSUME NEW q, Submitted(q)
  PROVE  Submitted(Touch(q))
<1>1. PICK S : q \in Seq(S) /\ \A e \in S : DOMAIN e = {"frame", "commands", "touched"} /\ e.frame \in Frames
  BY DEF Submitted
<1> DEFINE T == {[e EXCEPT !.touched = TRUE] : e \in S}
<1>2. \A e \in T : DOMAIN e = {"frame", "commands", "touched"} /\ e.frame \in Frames
  BY <1>1
<1>3. Touch(q) \in Seq(T)
  <2>1. Len(q) \in Nat /\ DOMAIN q = 1..Len(q) /\ \A i \in 1..Len(q) : q[i] \in S
    BY <1>1
  <2>2. Touch(q) = [i \in 1..Len(q) |-> [q[i] EXCEPT !.touched = TRUE]]
    BY <2>1 DEF Touch
  <2>3. \A i \in 1..Len(q) : [q[i] EXCEPT !.touched = TRUE] \in T
    BY <2>1
  <2> HIDE DEF T
  <2> QED BY <2>1, <2>2, <2>3
<1> HIDE DEF T
<1> QED BY <1>2, <1>3 DEF Submitted

LEMMA BeginKeeps ==
  ASSUME SoundInv, NEW frame \in Frames, Begin(frame)
  PROVE  SoundInv'
<1>1. /\ draw.pc = "out" /\ count < MaxFrames /\ count' = count + 1
      /\ UNCHANGED <<backend, vtxBuffer, idxBuffer, memory, made, queue, screen, outcome>>
      /\ draw' = draw \/ draw' = [NoDraw EXCEPT !.pc = "vtx", !.frame = frame]
  BY DEF Begin
<1>2. HeapInv'
  BY <1>1, HeapStays DEF SoundInv, HeapInv, BufferInv
<1>3. CountInv'
  <2>1. made \in Nat /\ count \in Nat /\ MaxFrames \in Nat /\ made <= 2 * count /\ MayMake' <= 2 /\ MayMake' \in Nat
    BY <1>1, FramesAssumption, SMTT(30) DEF SoundInv, HeapInv, CountInv, MayMake
  <2> QED BY <1>1, <2>1 DEF CountInv
<1>4. DrawInv' /\ RoomInv'
  <2>1. CASE draw' = draw
    BY <1>1, <2>1 DEF SoundInv, DrawInv, RoomInv
  <2>2. CASE draw' = [NoDraw EXCEPT !.pc = "vtx", !.frame = frame]
    <3>1. /\ DOMAIN draw' = DrawFields
          /\ draw'.pc = "vtx" /\ draw'.frame = frame /\ draw'.next = 1 /\ draw'.cmd = 0
          /\ draw'.vtxOffset = 0 /\ draw'.idxOffset = 0
      BY <2>2, NoDrawIs
    <3>2. VtxBefore(frame, 1) = 0 /\ IdxBefore(frame, 1) = 0 /\ VtxUnits * 0 = 0
      <4>1. 1 - 1 = 0
        OBVIOUS
      <4> QED BY <4>1, PlacedNone, UnitsAssumption DEF VtxBefore, IdxBefore
    <3>3. 1 \in 1..Len(frame.lists) + 1
      BY Totals
    <3>4. DrawInv'
      BY <3>1, <3>2, <3>3 DEF DrawInv
    <3> QED BY <1>1, <3>1, <3>4 DEF SoundInv, RoomInv
  <2> QED BY <1>1, <2>1, <2>2
<1> QED BY <1>1, <1>2, <1>3, <1>4 DEF SoundInv, InBounds

LEMMA GrowVtxSound ==
  ASSUME SoundInv, GrowVtx
  PROVE  SoundInv'
<1>1. /\ draw.pc = "vtx" /\ draw' = [draw EXCEPT !.pc = "idx"]
      /\ UNCHANGED <<backend, idxBuffer, screen, count, outcome>>
      /\ Grow(vtxBuffer, vtxBuffer', TotalVtxSize(draw.frame))
  BY DEF GrowVtx
<1>2. HeapInv'
  BY GrowVtxKeeps DEF SoundInv
<1>3. /\ DOMAIN draw' = DOMAIN draw /\ draw'.pc = "idx" /\ draw'.frame = draw.frame /\ draw'.next = draw.next
      /\ draw'.cmd = draw.cmd /\ draw'.vtxOffset = draw.vtxOffset /\ draw'.idxOffset = draw.idxOffset
  BY <1>1 DEF SoundInv, DrawInv, DrawFields
<1>4. DrawInv'
  BY <1>1, <1>3 DEF SoundInv, DrawInv
<1>5. TotalVtxSize(draw.frame) \in Nat
  BY <1>1, Totals DEF SoundInv, DrawInv
<1>6. /\ Sized(vtxBuffer') /\ (vtxBuffer'.ready => vtxBuffer'.size >= TotalVtxSize(draw.frame))
      /\ made' = made \/ made' = made + 1
      /\ queue' = queue \/ queue' = Touch(queue)
  BY <1>1, <1>5, GrownSound DEF SoundInv, HeapInv, RoomInv
<1>7. RoomInv'
  BY <1>1, <1>3, <1>6 DEF SoundInv, RoomInv
<1>8. CountInv'
  <2>1. made \in Nat /\ count \in Nat /\ made + 2 <= 2 * count /\ MayMake' = 1
    BY <1>1, <1>3, FramesAssumption DEF SoundInv, HeapInv, CountInv, MayMake
  <2> QED BY <1>1, <1>6, <2>1 DEF SoundInv, CountInv
<1>9. Submitted(queue')
  BY <1>6, Touched DEF SoundInv
<1> QED BY <1>1, <1>2, <1>4, <1>7, <1>8, <1>9 DEF SoundInv, InBounds, Submitted

LEMMA GrowIdxSound ==
  ASSUME SoundInv, GrowIdx
  PROVE  SoundInv'
<1>1. /\ draw.pc = "idx" /\ draw' = [draw EXCEPT !.pc = "test"]
      /\ UNCHANGED <<backend, vtxBuffer, screen, count, outcome>>
      /\ Grow(idxBuffer, idxBuffer', TotalIdxSize(draw.frame))
  BY DEF GrowIdx
<1>2. HeapInv'
  BY GrowIdxKeeps DEF SoundInv
<1>3. /\ DOMAIN draw' = DOMAIN draw /\ draw'.pc = "test" /\ draw'.frame = draw.frame /\ draw'.next = draw.next
      /\ draw'.cmd = draw.cmd /\ draw'.vtxOffset = draw.vtxOffset /\ draw'.idxOffset = draw.idxOffset
  BY <1>1 DEF SoundInv, DrawInv, DrawFields
<1>4. DrawInv'
  BY <1>1, <1>3 DEF SoundInv, DrawInv
<1>5. TotalIdxSize(draw.frame) \in Nat
  BY <1>1, Totals DEF SoundInv, DrawInv
<1>6. /\ Sized(idxBuffer') /\ (idxBuffer'.ready => idxBuffer'.size >= TotalIdxSize(draw.frame))
      /\ made' = made \/ made' = made + 1
      /\ queue' = queue \/ queue' = Touch(queue)
  BY <1>1, <1>5, GrownSound DEF SoundInv, HeapInv, RoomInv
<1>7. RoomInv'
  BY <1>1, <1>3, <1>6 DEF SoundInv, RoomInv
<1>8. CountInv'
  <2>1. made \in Nat /\ count \in Nat /\ made + 1 <= 2 * count /\ MayMake' = 0
    BY <1>1, <1>3, FramesAssumption DEF SoundInv, HeapInv, CountInv, MayMake
  <2> QED BY <1>1, <1>6, <2>1 DEF SoundInv, CountInv
<1>9. Submitted(queue')
  BY <1>6, Touched DEF SoundInv
<1> QED BY <1>1, <1>2, <1>4, <1>7, <1>8, <1>9 DEF SoundInv, InBounds, Submitted

LEMMA TestReadySound ==
  ASSUME SoundInv, TestReady
  PROVE  SoundInv'
<1>1. /\ draw.pc = "test"
      /\ UNCHANGED <<backend, vtxBuffer, idxBuffer, memory, made, queue, screen, count, outcome>>
      /\ draw' = IF BothReady THEN [draw EXCEPT !.pc = "record"] ELSE NoDraw
  BY DEF TestReady
<1>2. HeapInv'
  BY <1>1, HeapStays DEF SoundInv, HeapInv, BufferInv
<1>3. CASE BothReady
  <2>1. /\ DOMAIN draw' = DOMAIN draw /\ draw'.pc = "record" /\ draw'.frame = draw.frame
        /\ draw'.next = draw.next /\ draw'.cmd = draw.cmd
        /\ draw'.vtxOffset = draw.vtxOffset /\ draw'.idxOffset = draw.idxOffset
    BY <1>1, <1>3 DEF SoundInv, DrawInv, DrawFields
  <2>2. DrawInv'
    BY <1>1, <2>1 DEF SoundInv, DrawInv
  <2>3. RoomInv'
    BY <1>1, <1>3, <2>1 DEF SoundInv, RoomInv, BothReady
  <2>4. CountInv'
    BY <1>1, <2>1 DEF SoundInv, CountInv, MayMake
  <2> QED BY <1>1, <1>2, <2>2, <2>3, <2>4 DEF SoundInv, InBounds
<1>4. CASE ~BothReady
  <2>1. draw' = NoDraw
    BY <1>1, <1>4
  <2>2. DrawInv' /\ RoomInv'
    BY <1>1, <2>1, NoDrawIs DEF SoundInv, DrawInv, RoomInv
  <2>3. CountInv'
    BY <1>1, <2>1, NoDrawIs DEF SoundInv, CountInv, MayMake
  <2> QED BY <1>1, <1>2, <2>2, <2>3 DEF SoundInv, InBounds
<1> QED BY <1>3, <1>4

LEMMA RecordListSound ==
  ASSUME SoundInv, RecordList
  PROVE  SoundInv'
<1> DEFINE frame == draw.frame
           k     == draw.next
           list  == frame.lists[k]
<1>1. /\ draw.pc = "record" /\ draw.cmd = 0 /\ k <= Len(frame.lists) /\ outcome = "none"
      /\ UNCHANGED <<backend, memory, made, count>>
  BY DEF RecordList
<1>2. /\ frame \in Frames /\ Len(frame.lists) \in Nat /\ k \in 1..Len(frame.lists)
      /\ draw.vtxOffset = VtxUnits * VtxBefore(frame, k) /\ draw.idxOffset = IdxBefore(frame, k)
  <2>1. frame \in Frames /\ k \in 1..Len(frame.lists) + 1
    BY <1>1 DEF SoundInv, DrawInv
  <2>2. Len(frame.lists) \in Nat
    BY <2>1, FramesAssumption
  <2> QED BY <1>1, <2>1, <2>2 DEF SoundInv, DrawInv
<1>3. HeapInv'
  BY RecordListKeeps DEF SoundInv
<1> HIDE DEF frame, k
<1>4. /\ Len(list.vtx) \in Nat /\ Len(list.idx) \in Nat
      /\ VtxBefore(frame, k) \in Nat /\ IdxBefore(frame, k) \in Nat
      /\ VtxBefore(frame, k + 1) = VtxBefore(frame, k) + Len(list.vtx)
      /\ IdxBefore(frame, k + 1) = IdxBefore(frame, k) + Len(list.idx)
      /\ VtxUnits * VtxBefore(frame, k + 1) <= TotalVtxSize(frame)
      /\ IdxBefore(frame, k + 1) <= TotalIdxSize(frame)
      /\ TotalVtxSize(frame) \in Nat /\ TotalIdxSize(frame) \in Nat
  BY <1>2, ListFits, Totals
<1>5. /\ vtxBuffer.ready /\ vtxBuffer.size >= TotalVtxSize(frame) /\ Sized(vtxBuffer)
      /\ idxBuffer.ready /\ idxBuffer.size >= TotalIdxSize(frame) /\ Sized(idxBuffer)
      /\ BufferInv(vtxBuffer) /\ BufferInv(idxBuffer)
  BY <1>1 DEF SoundInv, RoomInv, HeapInv, frame
<1>6. ASSUME NEW a \in Nat, NEW b \in Nat
      PROVE  /\ VtxUnits * (a + b) = VtxUnits * a + VtxUnits * b
             /\ VtxUnits * (a + b) = VtxUnits * a + b * VtxUnits
             /\ VtxUnits * a \in Nat /\ VtxUnits * b \in Nat
  BY UnitsAssumption
<1> HIDE DEF list
<1>7. Fits(vtxBuffer, draw.vtxOffset, list.vtx, VtxUnits)
  <2>1. /\ VtxUnits * VtxBefore(frame, k + 1) =
             VtxUnits * VtxBefore(frame, k) + VtxUnits * Len(list.vtx)
        /\ VtxUnits * VtxBefore(frame, k) \in Nat /\ VtxUnits * Len(list.vtx) \in Nat
    <3>1. VtxUnits * (VtxBefore(frame, k) + Len(list.vtx)) =
            VtxUnits * VtxBefore(frame, k) + VtxUnits * Len(list.vtx)
      BY <1>4, <1>6
    <3>2. VtxUnits * VtxBefore(frame, k) \in Nat /\ VtxUnits * Len(list.vtx) \in Nat
      BY <1>4, <1>6
    <3> QED BY <1>4, <3>1, <3>2
  <2>2. draw.vtxOffset + VtxUnits * Len(list.vtx) <= TotalVtxSize(frame)
    BY <1>2, <1>4, <2>1
  <2>3. vtxBuffer.size \in Nat
    BY <1>5 DEF Sized
  <2>4. draw.vtxOffset \in Nat
    BY <1>2, <2>1
  <2> QED BY <1>4, <1>5, <2>1, <2>2, <2>3, <2>4 DEF Fits
<1>8. Fits(idxBuffer, draw.idxOffset, list.idx, 1)
  BY <1>2, <1>4, <1>5 DEF Fits, Sized
<1>9. /\ vtxBuffer' = Written(vtxBuffer, draw.vtxOffset, list.vtx, VtxUnits)
      /\ idxBuffer' = Written(idxBuffer, draw.idxOffset, list.idx, 1)
      /\ queue' = Touch(queue)
      /\ outcome' = outcome
  BY <1>7, <1>8 DEF RecordList, List, frame, k, list
<1>10. PICK commands : draw' = [draw EXCEPT !.cmd = 1, !.commands = commands]
  BY <1>7, <1>8 DEF RecordList, List, frame, k, list
<1>11. /\ DOMAIN draw' = DOMAIN draw /\ draw'.pc = draw.pc /\ draw'.frame = draw.frame
       /\ draw'.next = draw.next /\ draw'.cmd = 1
       /\ draw'.vtxOffset = draw.vtxOffset /\ draw'.idxOffset = draw.idxOffset
  BY <1>10 DEF SoundInv, DrawInv, DrawFields
<1>15. DrawInv'
  BY <1>1, <1>11 DEF SoundInv, DrawInv, frame, k
<1>12. RoomInv'
  <2>1. /\ Sized(vtxBuffer') /\ vtxBuffer'.size = vtxBuffer.size /\ vtxBuffer'.ready
        /\ Sized(idxBuffer') /\ idxBuffer'.size = idxBuffer.size /\ idxBuffer'.ready
    BY <1>5, <1>9, WrittenIs
  <2> QED BY <1>1, <1>5, <1>11, <2>1 DEF RoomInv, frame
<1>13. CountInv'
  BY <1>1, <1>11 DEF SoundInv, CountInv, MayMake
<1>14. Submitted(queue')
  BY <1>9, Touched DEF SoundInv
<1> QED BY <1>1, <1>3, <1>9, <1>15, <1>12, <1>13, <1>14 DEF SoundInv, InBounds, Submitted

LEMMA RecordCommandSound ==
  ASSUME SoundInv, RecordCommand
  PROVE  SoundInv'
<1>1. /\ draw.pc = "record" /\ draw.cmd # 0
      /\ UNCHANGED <<backend, vtxBuffer, idxBuffer, memory, made, queue, count, outcome>>
  BY DEF RecordCommand
<1>2. PICK bound, commands : draw' = [draw EXCEPT !.cmd = @ + 1, !.bound = bound, !.commands = commands]
  <2>1. /\ DOMAIN draw = DrawFields
        /\ \/ draw' = [draw EXCEPT !.cmd = @ + 1]
           \/ \E bound, commands : draw' = [draw EXCEPT !.cmd = @ + 1, !.bound = bound, !.commands = commands]
    BY DEF RecordCommand, SoundInv, DrawInv
  <2>2. CASE draw' = [draw EXCEPT !.cmd = @ + 1]
    <3>1. draw' = [draw EXCEPT !.cmd = @ + 1, !.bound = draw.bound, !.commands = draw.commands]
      BY <2>1, <2>2 DEF DrawFields
    <3> QED BY <3>1
  <2> QED BY <2>1, <2>2
<1>3. /\ DOMAIN draw' = DOMAIN draw /\ draw'.pc = draw.pc /\ draw'.frame = draw.frame
      /\ draw'.next = draw.next /\ draw'.cmd = draw.cmd + 1
      /\ draw'.vtxOffset = draw.vtxOffset /\ draw'.idxOffset = draw.idxOffset
  BY <1>2 DEF SoundInv, DrawInv, DrawFields
<1>4. HeapInv'
  BY <1>1, HeapStays DEF SoundInv, HeapInv, BufferInv
<1>5. DrawInv' /\ RoomInv' /\ CountInv'
  BY <1>1, <1>3 DEF SoundInv, DrawInv, RoomInv, CountInv, MayMake
<1> QED BY <1>1, <1>4, <1>5 DEF SoundInv, InBounds

LEMMA NextListSound ==
  ASSUME SoundInv, NextList
  PROVE  SoundInv'
<1> DEFINE frame == draw.frame
           k     == draw.next
           list  == frame.lists[k]
<1>1. /\ draw.pc = "record" /\ draw.cmd # 0
      /\ draw' = [draw EXCEPT !.next = @ + 1, !.cmd = 0,
                    !.vtxOffset = @ + Len(list.vtx) * VtxUnits, !.idxOffset = @ + Len(list.idx)]
      /\ UNCHANGED <<backend, vtxBuffer, idxBuffer, memory, made, queue, count, outcome>>
  BY DEF NextList, List
<1>2. /\ frame \in Frames /\ Len(frame.lists) \in Nat /\ k \in 1..Len(frame.lists)
      /\ draw.vtxOffset = VtxUnits * VtxBefore(frame, k) /\ draw.idxOffset = IdxBefore(frame, k)
  <2>1. frame \in Frames /\ k \in 1..Len(frame.lists) + 1
    BY <1>1 DEF SoundInv, DrawInv
  <2>2. Len(frame.lists) \in Nat
    BY <2>1, FramesAssumption
  <2> QED BY <1>1, <2>1, <2>2 DEF SoundInv, DrawInv
<1>3. HeapInv'
  BY <1>1, HeapStays DEF SoundInv, HeapInv, BufferInv
<1>4. /\ DOMAIN draw' = DOMAIN draw /\ draw'.pc = "record" /\ draw'.frame = frame /\ draw'.next = k + 1
      /\ draw'.cmd = 0
      /\ draw'.vtxOffset = draw.vtxOffset + Len(list.vtx) * VtxUnits
      /\ draw'.idxOffset = draw.idxOffset + Len(list.idx)
  BY <1>1 DEF SoundInv, DrawInv, DrawFields
<1>5. DOMAIN draw' = DrawFields
  BY <1>4 DEF SoundInv, DrawInv
<1> HIDE DEF frame, k
<1>6. /\ Len(list.vtx) \in Nat /\ Len(list.idx) \in Nat
      /\ VtxBefore(frame, k) \in Nat /\ IdxBefore(frame, k) \in Nat
      /\ VtxBefore(frame, k + 1) = VtxBefore(frame, k) + Len(list.vtx)
      /\ IdxBefore(frame, k + 1) = IdxBefore(frame, k) + Len(list.idx)
  BY <1>2, ListFits
<1> HIDE DEF list
<1>7. DrawInv'
  <2>1. k + 1 \in 1..Len(frame.lists) + 1
    BY <1>2
  <2>2. draw'.vtxOffset = VtxUnits * VtxBefore(frame, k + 1)
    <3>1. VtxUnits * (VtxBefore(frame, k) + Len(list.vtx)) =
            VtxUnits * VtxBefore(frame, k) + Len(list.vtx) * VtxUnits
      BY <1>6, UnitsAssumption
    <3> QED BY <1>2, <1>4, <1>6, <3>1
  <2>3. draw'.idxOffset = IdxBefore(frame, k + 1)
    BY <1>2, <1>4, <1>6
  <2> QED BY <1>2, <1>4, <1>5, <2>1, <2>2, <2>3 DEF DrawInv
<1>8. RoomInv' /\ CountInv'
  BY <1>1, <1>4 DEF SoundInv, RoomInv, CountInv, MayMake, frame
<1> QED BY <1>1, <1>3, <1>7, <1>8 DEF SoundInv, InBounds

LEMMA SubmitSound ==
  ASSUME SoundInv, SubmitCommands
  PROVE  SoundInv'
<1> DEFINE entry == [frame |-> draw.frame, commands |-> draw.commands, touched |-> FALSE]
<1>1. /\ draw.pc = "record" /\ draw' = NoDraw /\ queue' = Append(queue, entry)
      /\ UNCHANGED <<backend, vtxBuffer, idxBuffer, memory, made, screen, count, outcome>>
  BY DEF SubmitCommands
<1>2. HeapInv'
  BY <1>1, HeapStays DEF SoundInv, HeapInv, BufferInv
<1>3. DrawInv' /\ RoomInv'
  BY <1>1, NoDrawIs DEF SoundInv, DrawInv, RoomInv
<1>4. CountInv'
  BY <1>1, NoDrawIs DEF SoundInv, CountInv, MayMake
<1>5. Submitted(queue')
  <2>1. PICK S : queue \in Seq(S) /\ \A e \in S : DOMAIN e = {"frame", "commands", "touched"} /\ e.frame \in Frames
    BY DEF SoundInv, Submitted
  <2>2. DOMAIN entry = {"frame", "commands", "touched"} /\ entry.frame \in Frames
    BY <1>1 DEF SoundInv, DrawInv
  <2> HIDE DEF entry
  <2> DEFINE T == S \cup {entry}
  <2>3. queue \in Seq(T) /\ entry \in T
    BY <2>1
  <2> HIDE DEF T
  <2>4. Append(queue, entry) \in Seq(T)
    BY <2>3
  <2>5. \A e \in T : DOMAIN e = {"frame", "commands", "touched"} /\ e.frame \in Frames
    BY <2>1, <2>2 DEF T
  <2> QED BY <1>1, <2>4, <2>5 DEF Submitted
<1> QED BY <1>1, <1>2, <1>3, <1>4, <1>5 DEF SoundInv, InBounds, Submitted

LEMMA CompleteSound ==
  ASSUME SoundInv, Complete
  PROVE  SoundInv'
<1>1. /\ queue # <<>> /\ queue' = Tail(queue)
      /\ UNCHANGED <<backend, vtxBuffer, idxBuffer, memory, made, draw, count, outcome>>
  BY DEF Complete
<1>2. HeapInv'
  BY <1>1, HeapStays DEF SoundInv, HeapInv, BufferInv
<1>3. DrawInv' /\ RoomInv' /\ CountInv'
  BY <1>1 DEF SoundInv, DrawInv, RoomInv, CountInv, MayMake
<1>4. Submitted(queue')
  <2>1. PICK S : queue \in Seq(S) /\ \A e \in S : DOMAIN e = {"frame", "commands", "touched"} /\ e.frame \in Frames
    BY DEF SoundInv, Submitted
  <2>2. Tail(queue) \in Seq(S)
    BY <1>1, <2>1
  <2> QED BY <1>1, <2>1, <2>2 DEF Submitted
<1> QED BY <1>1, <1>2, <1>3, <1>4 DEF SoundInv, InBounds, Submitted

LEMMA SoundIsKept == SoundInv /\ [Next]_vars => SoundInv'
<1> SUFFICES ASSUME SoundInv, [Next]_vars PROVE SoundInv'
  OBVIOUS
<1>1. CASE InitBackend
  <2>1. /\ backend' \in {"half", "ready"}
        /\ UNCHANGED <<vtxBuffer, idxBuffer, memory, made, draw, queue, count, outcome>>
    BY <1>1 DEF InitBackend
  <2>2. HeapInv'
    BY <2>1, HeapStays DEF SoundInv, HeapInv, BufferInv
  <2> QED BY <2>1, <2>2 DEF SoundInv, DrawInv, RoomInv, CountInv, MayMake, InBounds
<1>2. CASE Execute \/ Finished \/ UNCHANGED vars
  <2>1. UNCHANGED <<backend, vtxBuffer, idxBuffer, memory, made, draw, queue, count, outcome>>
    BY <1>2 DEF Execute, Finished, vars
  <2>2. HeapInv'
    BY <2>1, HeapStays DEF SoundInv, HeapInv, BufferInv
  <2> QED BY <2>1, <2>2 DEF SoundInv, DrawInv, RoomInv, CountInv, MayMake, InBounds
<1> QED BY <1>1, <1>2, BeginKeeps, GrowVtxSound, GrowIdxSound, TestReadySound, RecordListSound,
           RecordCommandSound, NextListSound, SubmitSound, CompleteSound
        DEF Next

(* However many lists of whatever lengths frames have, in any order, and   *)
(* whatever the driver refuses: a frame is written only to buffers that    *)
(* are ready and hold all of its lists, also those kept from an earlier    *)
(* frame (renderDrawData, MemoryBuffer).                                   *)
THEOREM BuffersHoldFrames == Spec => []BuffersSound
<1>1. SoundInv => BuffersSound
  <2> SUFFICES ASSUME SoundInv PROVE BuffersSound
    OBVIOUS
  <2>1. BufferOK(vtxBuffer) /\ BufferOK(idxBuffer)
    BY DEF SoundInv, RoomInv, HeapInv, NoLeak, Sized, BufferOK
  <2>2. memory \subseteq 1..made
    BY DEF SoundInv, HeapInv, NoLeak, BufferInv
  <2>3. made \in 0..(2 * MaxFrames) /\ count \in 0..MaxFrames
    <3>1. made \in Nat /\ count \in Nat /\ count <= MaxFrames /\ MaxFrames \in Nat /\ MayMake \in Nat
      BY FramesAssumption DEF SoundInv, HeapInv, CountInv, MayMake
    <3> QED BY <3>1 DEF SoundInv, CountInv
  <2>4. \A i \in DOMAIN queue : queue[i].frame \in Frames
    BY DEF SoundInv, Submitted
  <2> QED BY <2>1, <2>2, <2>3, <2>4 DEF SoundInv, DrawInv, BuffersSound, TypeOK, InBounds
<1> QED BY <1>1, SoundStarts, SoundIsKept, PTL DEF Spec
-----------------------------------------------------------------------------
(* The commands of a frame, in the order ImGui asks for them.              *)

CmdsOf(frame) == [i \in 1..Len(frame.lists) |-> Len(frame.lists[i].cmds)]

(* What is asked for before place p.                                       *)
Earlier(frame, p) == {q \in Shown(frame) : Before(q, p)}

LEMMA ShownIs ==
  ASSUME NEW frame \in Frames
  PROVE  /\ \A p \in Shown(frame) :
              \E i \in 1..Len(frame.lists) : \E c \in 1..Len(frame.lists[i].cmds) :
                p = <<i, c>> /\ frame.lists[i].cmds[c].visible
         /\ \A i \in 1..Len(frame.lists) : \A c \in 1..Len(frame.lists[i].cmds) :
              <<i, c>> \in Shown(frame) <=> frame.lists[i].cmds[c].visible
         /\ IsFiniteSet(Shown(frame))
<1> DEFINE N == Len(frame.lists)
           places == UNION {{i} \X DOMAIN frame.lists[i].cmds : i \in DOMAIN frame.lists}
<1>1. /\ N \in Nat /\ DOMAIN frame.lists = 1..N
      /\ \A i \in 1..N : /\ Len(frame.lists[i].cmds) \in Nat
                         /\ DOMAIN frame.lists[i].cmds = 1..Len(frame.lists[i].cmds)
  BY FramesAssumption
<1>2. Shown(frame) = {p \in places : frame.lists[p[1]].cmds[p[2]].visible}
  BY DEF Shown
<1>3. \A i \in 1..N : CmdsOf(frame)[i] \in Nat
  BY <1>1 DEF CmdsOf
<1>4. places = Placed(CmdsOf(frame), 1..N)
  <2>1. \A i \in 1..N : {i} \X DOMAIN frame.lists[i].cmds = {i} \X (1..CmdsOf(frame)[i])
    BY <1>1 DEF CmdsOf
  <2> HIDE DEF N
  <2> QED BY <1>1, <2>1 DEF Placed
<1>5. IsFiniteSet(places)
  BY <1>1, <1>3, <1>4, PlacedFinite
<1>6. Shown(frame) \in SUBSET places
  BY <1>2
<1>7. IsFiniteSet(Shown(frame))
  BY <1>5, <1>6, FS_Subset
<1>8. \A p \in places : \E i \in 1..N : \E c \in 1..Len(frame.lists[i].cmds) : p = <<i, c>>
  BY <1>1
<1>9. \A i \in 1..N : \A c \in 1..Len(frame.lists[i].cmds) : <<i, c>> \in places
  BY <1>1
<1> HIDE DEF N, places
<1>10. \A i, c : <<i, c>>[1] = i /\ <<i, c>>[2] = c
  OBVIOUS
<1>11. ASSUME NEW p \in Shown(frame)
       PROVE  \E i \in 1..N : \E c \in 1..Len(frame.lists[i].cmds) :
                p = <<i, c>> /\ frame.lists[i].cmds[c].visible
  BY <1>2, <1>8, <1>10
<1>12. ASSUME NEW i \in 1..N, NEW c \in 1..Len(frame.lists[i].cmds)
       PROVE  <<i, c>> \in Shown(frame) <=> frame.lists[i].cmds[c].visible
  BY <1>2, <1>9, <1>10
<1> QED BY <1>7, <1>11, <1>12 DEF N

(* A visible command comes behind those before it, one that is not adds    *)
(* nothing.                                                                *)
LEMMA EarlierMore ==
  ASSUME NEW frame \in Frames, NEW i \in 1..Len(frame.lists), NEW c \in 1..Len(frame.lists[i].cmds)
  PROVE  /\ frame.lists[i].cmds[c].visible =>
              Earlier(frame, <<i, c + 1>>) = Earlier(frame, <<i, c>>) \cup {<<i, c>>}
         /\ ~frame.lists[i].cmds[c].visible => Earlier(frame, <<i, c + 1>>) = Earlier(frame, <<i, c>>)
<1>1. ASSUME NEW p \in Shown(frame)
      PROVE  /\ Before(p, <<i, c + 1>>) <=> Before(p, <<i, c>>) \/ p = <<i, c>>
             /\ p = <<i, c>> => frame.lists[i].cmds[c].visible
  <2>1. PICK j, d : /\ j \in 1..Len(frame.lists) /\ d \in 1..Len(frame.lists[j].cmds)
                     /\ p = <<j, d>> /\ frame.lists[j].cmds[d].visible
    BY ShownIs
  <2>2. /\ Before(p, <<i, c + 1>>) <=> j < i \/ (j = i /\ d < c + 1)
        /\ Before(p, <<i, c>>) <=> j < i \/ (j = i /\ d < c)
        /\ p = <<i, c>> <=> j = i /\ d = c
    BY <2>1 DEF Before
  <2>3. i \in Int /\ j \in Int /\ c \in Int /\ d \in Int
    BY <2>1
  <2>4. d < c + 1 <=> d < c \/ d = c
    BY <2>3
  <2> QED BY <2>1, <2>2, <2>4
<1>2. <<i, c>> \in Shown(frame) <=> frame.lists[i].cmds[c].visible
  BY ShownIs
<1> QED BY <1>1, <1>2 DEF Earlier

(* Before the first command of a list is what was asked for before the     *)
(* list, and after its last what is before the next.                       *)
LEMMA EarlierLists ==
  ASSUME NEW frame \in Frames, NEW i \in 1..Len(frame.lists), NEW c \in Nat,
         c > Len(frame.lists[i].cmds)
  PROVE  /\ Earlier(frame, <<i, 1>>) = Earlier(frame, <<i, 0>>)
         /\ Earlier(frame, <<i + 1, 0>>) = Earlier(frame, <<i, c>>)
<1>1. ASSUME NEW p \in Shown(frame)
      PROVE  /\ Before(p, <<i, 1>>) <=> Before(p, <<i, 0>>)
             /\ Before(p, <<i + 1, 0>>) <=> Before(p, <<i, c>>)
  <2>1. PICK j, d : j \in 1..Len(frame.lists) /\ d \in 1..Len(frame.lists[j].cmds) /\ p = <<j, d>>
    BY ShownIs
  <2>2. /\ Before(p, <<i, 1>>) <=> j < i \/ (j = i /\ d < 1)
        /\ Before(p, <<i, 0>>) <=> j < i \/ (j = i /\ d < 0)
        /\ Before(p, <<i + 1, 0>>) <=> j < i + 1 \/ (j = i + 1 /\ d < 0)
        /\ Before(p, <<i, c>>) <=> j < i \/ (j = i /\ d < c)
    BY <2>1 DEF Before
  <2>3. /\ i \in Int /\ j \in Int /\ d \in Int /\ 1 <= d /\ Len(frame.lists[j].cmds) \in Nat
        /\ d <= Len(frame.lists[j].cmds)
    BY <2>1, FramesAssumption
  <2>4. j = i => d < c
    BY <2>3
  <2>5. j < i + 1 <=> j < i \/ j = i
    BY <2>3
  <2>6. ~(d < 1) /\ ~(d < 0)
    BY <2>3
  <2> QED BY <2>2, <2>4, <2>5, <2>6
<1> QED BY <1>1 DEF Earlier

LEMMA EarlierEnds ==
  ASSUME NEW frame \in Frames
  PROVE  /\ Earlier(frame, <<1, 0>>) = {}
         /\ Earlier(frame, <<Len(frame.lists) + 1, 0>>) = Shown(frame)
<1>1. ASSUME NEW p \in Shown(frame)
      PROVE  ~Before(p, <<1, 0>>) /\ Before(p, <<Len(frame.lists) + 1, 0>>)
  <2>1. PICK j, d : j \in 1..Len(frame.lists) /\ d \in 1..Len(frame.lists[j].cmds) /\ p = <<j, d>>
    BY ShownIs
  <2>2. /\ Before(p, <<1, 0>>) <=> j < 1 \/ (j = 1 /\ d < 0)
        /\ Before(p, <<Len(frame.lists) + 1, 0>>) <=>
             j < Len(frame.lists) + 1 \/ (j = Len(frame.lists) + 1 /\ d < 0)
    BY <2>1 DEF Before
  <2>3. Len(frame.lists) \in Nat /\ ~(j < 1) /\ ~(d < 0) /\ j < Len(frame.lists) + 1
    BY <2>1, FramesAssumption
  <2> QED BY <2>2, <2>3
<1> QED BY <1>1 DEF Earlier

(* A place's rank is one more than the number of places before it.         *)
LEMMA RankIs ==
  ASSUME NEW frame \in Frames, NEW p \in Shown(frame)
  PROVE  /\ Rank(frame, p) = Cardinality(Earlier(frame, p)) + 1
         /\ Cardinality(Earlier(frame, p)) \in Nat
         /\ Cardinality(Earlier(frame, p) \cup {p}) = Cardinality(Earlier(frame, p)) + 1
<1>1. Earlier(frame, p) \in SUBSET Shown(frame) /\ IsFiniteSet(Shown(frame))
  BY ShownIs DEF Earlier
<1>2. IsFiniteSet(Earlier(frame, p))
  BY <1>1, FS_Subset
<1>3. p \notin Earlier(frame, p)
  <2>1. PICK j, d : j \in 1..Len(frame.lists) /\ d \in 1..Len(frame.lists[j].cmds) /\ p = <<j, d>>
    BY ShownIs
  <2>2. Before(p, p) <=> j < j \/ (j = j /\ d < d)
    BY <2>1 DEF Before
  <2>3. ~(j < j) /\ ~(d < d)
    BY <2>1
  <2> QED BY <2>2, <2>3 DEF Earlier
<1>4. Cardinality(Earlier(frame, p) \cup {p}) = Cardinality(Earlier(frame, p)) + 1
  BY <1>2, <1>3, FS_AddElement
<1>5. Cardinality(Earlier(frame, p)) \in Nat
  BY <1>2, FS_CardinalityType
<1> QED BY <1>4, <1>5 DEF Rank, Earlier

-----------------------------------------------------------------------------
(* Where commands lead the GPU.                                            *)

IsSeq(s) == \E S : s \in Seq(S)

LEMMA SeqMore ==
  ASSUME NEW s, IsSeq(s), NEW x
  PROVE  /\ Len(s) \in Nat /\ IsSeq(Append(s, x)) /\ Len(Append(s, x)) = Len(s) + 1
         /\ \A q \in 1..Len(s) : Append(s, x)[q] = s[q]
         /\ Append(s, x)[Len(s) + 1] = x
<1>1. PICK S : s \in Seq(S)
  BY DEF IsSeq
<1> DEFINE T == S \cup {x}
<1>2. s \in Seq(T) /\ x \in T
  BY <1>1
<1> HIDE DEF T
<1>3. Append(s, x) \in Seq(T)
  BY <1>2
<1> QED BY <1>2, <1>3 DEF IsSeq

LEMMA NoSeq == IsSeq(<<>>) /\ Len(<<>>) = 0
<1>1. <<>> \in Seq({}) /\ Len(<<>>) = 0
  OBVIOUS
<1> QED BY <1>1 DEF IsSeq

(* What is bound, and which commands of ImGui were drawn, when nothing was.*)
Start == [tex |-> None, id |-> None, at |-> 0, size |-> 0, seen |-> {}]

(* The GPU's command x draws the command of ImGui at place p if a is what  *)
(* is bound; ids names the memory of vertices and that of indices.         *)
Serves(frame, ids, p, a, x) ==
  LET list == frame.lists[p[1]]
      cmd  == list.cmds[p[2]]
  IN /\ x.id = ids[2] /\ x.at = cmd.idxOffset + IdxBefore(frame, p[1])
     /\ x.elems = cmd.elems /\ x.base = cmd.vtxOffset
     /\ a.tex = cmd.tex
     /\ a.id = ids[1] /\ a.at = VtxUnits * VtxBefore(frame, p[1]) /\ a.size = Len(list.vtx) * VtxUnits

(* Command x leads from a to b, and is one that the frame calls for there. *)
Leads(frame, ids, a, x, b) ==
  \/ /\ x.op = "texture"
     /\ b.tex = x.tex /\ b.id = a.id /\ b.at = a.at /\ b.size = a.size /\ b.seen = a.seen
  \/ /\ x.op = "vertices"
     /\ b.tex = a.tex /\ b.id = x.id /\ b.at = x.at /\ b.size = x.size /\ b.seen = a.seen
  \/ /\ x.op = "draw"
     /\ b.tex = a.tex /\ b.id = a.id /\ b.at = a.at /\ b.size = a.size
     /\ \E p \in Shown(frame) :
          a.seen = Earlier(frame, p) /\ b.seen = a.seen \cup {p} /\ Serves(frame, ids, p, a, x)

Route(frame, ids, commands, st) ==
  /\ IsSeq(commands)
  /\ st[0] = Start
  /\ \A q \in 1..Len(commands) : Leads(frame, ids, st[q - 1], commands[q], st[q])

Reaches(frame, ids, commands, b) ==
  \E st : Route(frame, ids, commands, st) /\ st[Len(commands)] = b

LEMMA ReachesStart == ASSUME NEW frame, NEW ids PROVE Reaches(frame, ids, <<>>, Start)
<1> DEFINE st == [q \in {0} |-> Start]
<1>1. st[0] = Start
  OBVIOUS
<1> HIDE DEF st
<1>2. Route(frame, ids, <<>>, st)
  BY <1>1, NoSeq DEF Route
<1> QED BY <1>1, <1>2, NoSeq DEF Reaches

LEMMA ReachesMore ==
  ASSUME NEW frame, NEW ids, NEW commands, NEW a, Reaches(frame, ids, commands, a),
         NEW x, NEW b, Leads(frame, ids, a, x, b)
  PROVE  Reaches(frame, ids, Append(commands, x), b)
<1>1. PICK st : Route(frame, ids, commands, st) /\ st[Len(commands)] = a
  BY DEF Reaches
<1> DEFINE n    == Len(commands)
           more == [q \in 0..n + 1 |-> IF q = n + 1 THEN b ELSE st[q]]
<1>2. IsSeq(commands)
  BY <1>1 DEF Route
<1>3. /\ n \in Nat /\ IsSeq(Append(commands, x)) /\ Len(Append(commands, x)) = n + 1
      /\ \A q \in 1..n : Append(commands, x)[q] = commands[q]
      /\ Append(commands, x)[n + 1] = x
  BY <1>2, SeqMore
<1> HIDE DEF n
<1>4. more[n + 1] = b /\ \A q \in 0..n : more[q] = st[q]
  BY <1>3
<1> HIDE DEF more
<1>5. more[0] = Start
  <2>1. 0 \in 0..n
    BY <1>3
  <2> QED BY <1>1, <1>4, <2>1 DEF Route
<1>6. ASSUME NEW q \in 1..n + 1
      PROVE  Leads(frame, ids, more[q - 1], Append(commands, x)[q], more[q])
  <2>1. CASE q = n + 1
    <3>1. q - 1 = n /\ n \in 0..n
      BY <1>3, <2>1
    <3>2. more[q - 1] = a /\ more[q] = b /\ Append(commands, x)[q] = x
      BY <1>1, <1>3, <1>4, <2>1, <3>1 DEF n
    <3> QED BY <3>2
  <2>2. CASE q # n + 1
    <3>1. q \in 1..n /\ q \in 0..n /\ q - 1 \in 0..n
      BY <1>3, <2>2
    <3>2. Leads(frame, ids, st[q - 1], commands[q], st[q])
      BY <1>1, <3>1 DEF Route, n
    <3> QED BY <1>3, <1>4, <3>1, <3>2
  <2> QED BY <2>1, <2>2
<1>7. Route(frame, ids, Append(commands, x), more)
  BY <1>3, <1>5, <1>6 DEF Route
<1> QED BY <1>3, <1>4, <1>7 DEF Reaches

-----------------------------------------------------------------------------
(* What is in the buffers.                                                 *)

(* Values, each so many units long, stand behind so many others.           *)
Held(data, units, before, values) ==
  \A j \in 1..Len(values) : /\ units * (before + (j - 1)) + 1 \in DOMAIN data
                            /\ data[units * (before + (j - 1)) + 1] = values[j]

Holds(frame, i, vdata, idata) ==
  /\ Held(vdata, VtxUnits, VtxBefore(frame, i), frame.lists[i].vtx)
  /\ Held(idata, 1, IdxBefore(frame, i), frame.lists[i].idx)

LEMMA Multiples ==
  ASSUME NEW n \in Nat \ {0}
  PROVE  /\ \A q \in Nat : n * q \in Nat /\ q * n = n * q /\ (n * q) \div n = q
         /\ \A a, b \in Nat : n * (a + b) = n * a + n * b
         /\ \A a, b \in Nat : a < b => n * a < n * b
         /\ \A a, b \in Nat : n * a = n * b => a = b
<1>1. ASSUME NEW q \in Nat PROVE n * q \in Nat /\ q * n = n * q
  OBVIOUS
<1>2. ASSUME NEW a \in Nat, NEW b \in Nat PROVE n * (a + b) = n * a + n * b
  OBVIOUS
<1>3. ASSUME NEW a \in Nat, NEW b \in Nat, a + 1 <= b PROVE n * a + n <= n * b
  BY <1>3
<1>4. ASSUME NEW a \in Nat, NEW b \in Nat, a < b PROVE n * a < n * b
  <2>1. n * a + n <= n * b
    BY <1>3, <1>4
  <2> QED BY <1>1, <2>1
<1>5. ASSUME NEW a \in Nat, NEW b \in Nat, n * a = n * b PROVE a = b
  <2>1. ~(a < b) /\ ~(b < a)
    BY <1>1, <1>4, <1>5
  <2> QED BY <2>1
<1>6. ASSUME NEW q \in Nat PROVE (n * q) \div n = q
  <2> DEFINE w == n * q
             k == w \div n
             r == w % n
  <2>1. w \in Nat
    OBVIOUS
  <2>2. k \in Nat /\ r \in 0..n-1 /\ w = n * k + r
    BY <2>1
  <2>3. w = n * q
    OBVIOUS
  <2> HIDE DEF w, k, r
  <2>4. ~(k + 1 <= q) /\ ~(q + 1 <= k)
    BY <1>3, <2>1, <2>2, <2>3
  <2>5. k = q
    BY <2>2, <2>4
  <2> QED BY <2>5 DEF w, k
<1> QED BY <1>1, <1>2, <1>4, <1>5, <1>6

(* What is written stands there, and what stands before it still does.     *)
LEMMA WrittenHolds ==
  ASSUME NEW b, BufferInv(b), Sized(b), b.ready,
         NEW units \in Nat \ {0}, NEW before \in Nat, NEW values, Len(values) \in Nat,
         DOMAIN values = 1..Len(values), units * before + units * Len(values) <= b.size
  PROVE  LET data == Written(b, units * before, values, units).data IN
         /\ Held(data, units, before, values)
         /\ \A less \in Nat : \A old :
              /\ Held(b.data, units, less, old) /\ Len(old) \in Nat /\ less + Len(old) <= before
              => Held(data, units, less, old)
<1> DEFINE n      == b.size
           offset == units * before
           Value(u) == IF u - 1 \in {offset + units * (i - 1) : i \in DOMAIN values}
                       THEN values[((u - 1 - offset) \div units) + 1] ELSE b.data[u]
           d == [u \in 1..n |-> Value(u)]
<1>1. n \in Nat /\ DOMAIN b.data = 1..n
  BY DEF Sized
<1>2. Written(b, units * before, values, units) = [b EXCEPT !.data = d]
  BY <1>1 DEF Written
<1>3. Written(b, units * before, values, units).data = d
  BY <1>2 DEF BufferInv
<1>4. \A u \in 1..n : d[u] = Value(u)
  OBVIOUS
<1>5. DOMAIN d = 1..n
  OBVIOUS
<1> HIDE DEF d
<1>6. offset \in Nat /\ \A q \in Nat : units * q \in Nat
  BY Multiples
<1>7. ASSUME NEW j \in 1..Len(values)
      PROVE  /\ units * (before + (j - 1)) + 1 \in DOMAIN d
             /\ d[units * (before + (j - 1)) + 1] = values[j]
  <2> DEFINE u == units * (before + (j - 1)) + 1
  <2>1. j - 1 \in Nat /\ j - 1 < Len(values)
    OBVIOUS
  <2>2. /\ units * (before + (j - 1)) = offset + units * (j - 1) /\ units * (j - 1) \in Nat
        /\ units * (j - 1) < units * Len(values) /\ units * Len(values) \in Nat
        /\ (units * (j - 1)) \div units = j - 1
    BY <2>1, Multiples
  <2>3. u = offset + units * (j - 1) + 1
    BY <2>2
  <2> HIDE DEF u, offset
  <2>4. u \in 1..n
    BY <1>1, <1>6, <2>2, <2>3 DEF offset
  <2>5. u - 1 = offset + units * (j - 1) /\ u - 1 - offset = units * (j - 1)
    BY <1>6, <2>2, <2>3
  <2>6. u - 1 \in {offset + units * (i - 1) : i \in DOMAIN values}
    BY <2>5
  <2>7. d[u] = values[((u - 1 - offset) \div units) + 1]
    BY <1>4, <2>4, <2>6
  <2>8. ((u - 1 - offset) \div units) + 1 = j
    BY <2>2, <2>5, SMTT(30)
  <2> QED BY <1>5, <2>4, <2>7, <2>8 DEF u
<1>8. ASSUME NEW less \in Nat, NEW old, Held(b.data, units, less, old), Len(old) \in Nat,
             less + Len(old) <= before, NEW j \in 1..Len(old)
      PROVE  /\ units * (less + (j - 1)) + 1 \in DOMAIN d
             /\ d[units * (less + (j - 1)) + 1] = old[j]
  <2> DEFINE w == less + (j - 1)
             u == units * w + 1
  <2>1. w \in Nat /\ w < before
    BY <1>8
  <2>2. u \in 1..n /\ b.data[u] = old[j]
    BY <1>1, <1>8 DEF Held
  <2> HIDE DEF w
  <2>3. units * w \in Nat /\ units * w < offset
    BY <2>1, Multiples
  <2>4. u - 1 = units * w
    BY <2>3
  <2>5. ASSUME NEW i \in DOMAIN values PROVE u - 1 # offset + units * (i - 1)
    <3>1. i - 1 \in Nat
      BY <2>5
    <3>2. units * (i - 1) \in Nat
      BY <1>6, <3>1
    <3> HIDE DEF u, offset
    <3> QED BY <1>6, <2>3, <2>4, <3>2
  <2>6. d[u] = b.data[u]
    <3> HIDE DEF u, offset
    <3> QED BY <1>4, <2>2, <2>5
  <2>7. u = units * (less + (j - 1)) + 1
    BY DEF w
  <2> HIDE DEF u
  <2>8. u \in DOMAIN d /\ d[u] = old[j]
    BY <1>5, <2>2, <2>6
  <2> QED BY <2>7, <2>8
<1> HIDE DEF offset
<1>9. Held(d, units, before, values)
  BY <1>7 DEF Held
<1>10. ASSUME NEW less \in Nat, NEW old, Held(b.data, units, less, old), Len(old) \in Nat,
              less + Len(old) <= before
       PROVE  Held(d, units, less, old)
  <2>1. \A j \in 1..Len(old) : /\ units * (less + (j - 1)) + 1 \in DOMAIN d
                               /\ d[units * (less + (j - 1)) + 1] = old[j]
    BY <1>8, <1>10
  <2> QED BY <2>1 DEF Held
<1> QED BY <1>3, <1>9, <1>10

(* The lists before list k end where it begins.                            *)
LEMMA ListsBefore ==
  ASSUME NEW frame \in Frames, NEW k \in 1..Len(frame.lists), NEW i \in 1..k - 1
  PROVE  /\ VtxBefore(frame, i) + Len(frame.lists[i].vtx) <= VtxBefore(frame, k)
         /\ IdxBefore(frame, i) + Len(frame.lists[i].idx) <= IdxBefore(frame, k)
<1> DEFINE N == Len(frame.lists)
<1>1. /\ N \in Nat /\ DOMAIN frame.lists = 1..N
      /\ \A j \in 1..N : Len(frame.lists[j].vtx) \in Nat /\ Len(frame.lists[j].idx) \in Nat
  BY FramesAssumption
<1>2. /\ \A j \in 1..N : VtxOf(frame)[j] = Len(frame.lists[j].vtx) /\ VtxOf(frame)[j] \in Nat
      /\ \A j \in 1..N : IdxOf(frame)[j] = Len(frame.lists[j].idx) /\ IdxOf(frame)[j] \in Nat
  BY <1>1 DEF VtxOf, IdxOf
<1>3. k - 1 \in Nat /\ 1..k - 1 \subseteq 1..N /\ i \in 1..N
  BY <1>1
<1> HIDE DEF N
<1>4. /\ Cardinality(Placed(VtxOf(frame), 1..i)) = VtxBefore(frame, i) + VtxOf(frame)[i]
      /\ Cardinality(Placed(VtxOf(frame), 1..i)) <= VtxBefore(frame, k)
  BY <1>2, <1>3, PlacedMore DEF VtxBefore
<1>5. /\ Cardinality(Placed(IdxOf(frame), 1..i)) = IdxBefore(frame, i) + IdxOf(frame)[i]
      /\ Cardinality(Placed(IdxOf(frame), 1..i)) <= IdxBefore(frame, k)
  BY <1>2, <1>3, PlacedMore DEF IdxBefore
<1> QED BY <1>2, <1>3, <1>4, <1>5

-----------------------------------------------------------------------------
(* The picture.                                                            *)

(* A picture of what was seen so far.                                      *)
Pictured(picture, frame, seen) ==
  /\ IsSeq(picture) /\ Len(picture) = Cardinality(seen)
  /\ \A p \in seen : Rank(frame, p) \in 1..Len(picture) /\ picture[Rank(frame, p)] = Wanted(frame, p)

LEMMA PictureGrows ==
  ASSUME NEW frame \in Frames, NEW p \in Shown(frame), NEW picture,
         Pictured(picture, frame, Earlier(frame, p))
  PROVE  Pictured(Append(picture, Wanted(frame, p)), frame, Earlier(frame, p) \cup {p})
<1> DEFINE n    == Len(picture)
           more == Append(picture, Wanted(frame, p))
<1>1. /\ n \in Nat /\ IsSeq(more) /\ Len(more) = n + 1
      /\ \A q \in 1..n : more[q] = picture[q]
      /\ more[n + 1] = Wanted(frame, p)
  BY SeqMore DEF Pictured
<1>2. /\ Rank(frame, p) = n + 1
      /\ Cardinality(Earlier(frame, p) \cup {p}) = n + 1
  BY RankIs DEF Pictured
<1>3. \A q \in Earlier(frame, p) : Rank(frame, q) \in 1..n /\ picture[Rank(frame, q)] = Wanted(frame, q)
  BY DEF Pictured
<1> HIDE DEF n, more
<1>4. ASSUME NEW q \in Earlier(frame, p) \cup {p}
      PROVE  Rank(frame, q) \in 1..n + 1 /\ more[Rank(frame, q)] = Wanted(frame, q)
  <2>1. CASE q = p
    BY <1>1, <1>2, <2>1
  <2>2. CASE q \in Earlier(frame, p)
    <3>1. Rank(frame, q) \in 1..n /\ picture[Rank(frame, q)] = Wanted(frame, q)
      BY <1>3, <2>2
    <3>2. Rank(frame, q) \in 1..n + 1
      BY <1>1, <3>1
    <3> QED BY <1>1, <3>1, <3>2
  <2> QED BY <2>1, <2>2
<1> QED BY <1>1, <1>2, <1>4 DEF Pictured, more

Ids == <<vtxBuffer.id, idxBuffer.id>>

(* A command that serves a place draws what is wanted there, if the lists  *)
(* are in the buffers and what it counts on is bound.                      *)
LEMMA DrawnIsWanted ==
  ASSUME NEW frame \in Frames, NEW p \in Shown(frame), NEW a, NEW x,
         Serves(frame, Ids, p, a, x),
         gpu.tex = a.tex, gpu.id = a.id, gpu.at = a.at, gpu.size = a.size,
         vtxBuffer.ready, idxBuffer.ready,
         Holds(frame, p[1], vtxBuffer.data, idxBuffer.data)
  PROVE  Drawn(x) = Wanted(frame, p)
<1>1. PICK i, c : i \in 1..Len(frame.lists) /\ c \in 1..Len(frame.lists[i].cmds) /\ p = <<i, c>>
  BY ShownIs
<1> DEFINE list == frame.lists[i]
           cmd  == list.cmds[c]
           vb   == VtxBefore(frame, i)
           ib   == IdxBefore(frame, i)
<1>2. p[1] = i /\ p[2] = c
  BY <1>1
<1>3. /\ x.id = idxBuffer.id /\ x.at = cmd.idxOffset + ib /\ x.elems = cmd.elems /\ x.base = cmd.vtxOffset
      /\ gpu.tex = cmd.tex /\ gpu.id = vtxBuffer.id /\ gpu.at = VtxUnits * vb
      /\ gpu.size = Len(list.vtx) * VtxUnits
  BY <1>2 DEF Serves, Ids
<1>4. /\ Held(vtxBuffer.data, VtxUnits, vb, list.vtx)
      /\ Held(idxBuffer.data, 1, ib, list.idx)
  BY <1>2 DEF Holds
<1>5. /\ Len(list.vtx) \in Nat /\ Len(list.idx) \in Nat
      /\ cmd.elems \in Nat /\ cmd.idxOffset \in Nat /\ cmd.vtxOffset \in Nat
      /\ cmd.idxOffset + cmd.elems <= Len(list.idx)
      /\ \A n \in 1..cmd.elems : /\ list.idx[cmd.idxOffset + n] \in Nat
                                 /\ cmd.vtxOffset + list.idx[cmd.idxOffset + n] < Len(list.vtx)
  <2>1. i \in DOMAIN frame.lists /\ c \in DOMAIN list.cmds
    BY <1>1, FramesAssumption
  <2> QED BY <2>1, FramesAssumption
<1>6. vb \in Nat /\ ib \in Nat
  BY <1>1, ListFits
<1>7. Wanted(frame, p) =
        [tex |-> cmd.tex,
         vertices |-> [n \in 1..cmd.elems |-> list.vtx[cmd.vtxOffset + list.idx[cmd.idxOffset + n] + 1]]]
  BY <1>2 DEF Wanted
<1> HIDE DEF cmd, list, vb, ib
<1>8. ASSUME NEW n \in 1..cmd.elems
      PROVE  VertexAt(x, n - 1) = list.vtx[cmd.vtxOffset + list.idx[cmd.idxOffset + n] + 1]
  <2> DEFINE j     == cmd.idxOffset + n
             index == list.idx[j]
             v     == cmd.vtxOffset + index
  <2>1. /\ n \in Nat /\ 1 <= n /\ n <= cmd.elems /\ j \in 1..Len(list.idx)
        /\ index \in Nat /\ v \in Nat /\ v < Len(list.vtx)
    <3>1. /\ n \in Nat /\ 1 <= n /\ n <= cmd.elems /\ index \in Nat /\ v < Len(list.vtx)
      BY <1>5
    <3>2. v \in Nat
      <4> HIDE DEF index
      <4> QED BY <1>5, <3>1
    <3>3. j \in 1..Len(list.idx)
      <4> HIDE DEF index, v
      <4> QED BY <1>5, <3>1
    <3> QED BY <3>1, <3>2, <3>3
  <2>2. /\ 1 * (ib + (j - 1)) + 1 \in DOMAIN idxBuffer.data
        /\ idxBuffer.data[1 * (ib + (j - 1)) + 1] = list.idx[j]
    BY <1>4, <2>1 DEF Held
  <2>3. 1 * (ib + (j - 1)) + 1 = x.at + (n - 1) + 1
    BY <1>3, <1>5, <1>6, <2>1
  <2>4. Read(idxBuffer, x.id, x.at + (n - 1)) = index
    <3> HIDE DEF j
    <3> QED BY <1>3, <2>2, <2>3 DEF Read
  <2>5. index # None
    BY <2>1, UnitsAssumption
  <2> HIDE DEF j, index
  <2>6. (x.base + index) * VtxUnits = VtxUnits * v /\ VtxUnits * v \in Nat
    <3>1. x.base + index = v
      BY <1>3
    <3> HIDE DEF v
    <3> QED BY <2>1, <3>1, UnitsAssumption, Multiples
  <2>7. gpu.size = VtxUnits * Len(list.vtx) /\ VtxUnits * Len(list.vtx) \in Nat
    BY <1>3, <1>5, UnitsAssumption, Multiples
  <2>8. VtxUnits * v < VtxUnits * Len(list.vtx)
    <3> HIDE DEF v
    <3> QED BY <1>5, <2>1, UnitsAssumption, Multiples
  <2> HIDE DEF v
  <2>9. ~((x.base + index) * VtxUnits >= gpu.size)
    BY <2>6, <2>7, <2>8
  <2> DEFINE t == v + 1
  <2>10. t \in 1..Len(list.vtx) /\ t - 1 = v
    BY <1>5, <2>1
  <2> HIDE DEF t
  <2>11. VtxUnits * (vb + (t - 1)) + 1 = gpu.at + (x.base + index) * VtxUnits + 1
    <3>1. VtxUnits * (vb + v) = VtxUnits * vb + VtxUnits * v
      BY <1>6, <2>1, UnitsAssumption, Multiples
    <3> QED BY <1>3, <2>6, <2>10, <3>1
  <2>12. /\ VtxUnits * (vb + (t - 1)) + 1 \in DOMAIN vtxBuffer.data
         /\ vtxBuffer.data[VtxUnits * (vb + (t - 1)) + 1] = list.vtx[t]
    BY <1>4, <2>10 DEF Held
  <2>13. Read(vtxBuffer, gpu.id, gpu.at + (x.base + index) * VtxUnits) = list.vtx[t]
    BY <1>3, <2>11, <2>12 DEF Read
  <2>14. VertexAt(x, n - 1) = list.vtx[t]
    BY <2>4, <2>5, <2>9, <2>13 DEF VertexAt
  <2> QED BY <2>14 DEF t, v, index, j
<1>9. [n \in 1..x.elems |-> VertexAt(x, n - 1)]
        = [n \in 1..cmd.elems |-> list.vtx[cmd.vtxOffset + list.idx[cmd.idxOffset + n] + 1]]
  BY <1>3, <1>8
<1>10. Drawn(x) = [tex |-> cmd.tex, vertices |-> [n \in 1..x.elems |-> VertexAt(x, n - 1)]]
  BY <1>3 DEF Drawn
<1> QED BY <1>7, <1>9, <1>10

-----------------------------------------------------------------------------
(* What is recorded, submitted and executed.                               *)

(* The commands recorded so far ask for what comes before the command at   *)
(* hand, and the lists copied so far are in the buffers.                   *)
RecordInv ==
  /\ draw.pc \in {"vtx", "idx", "test"} =>
       draw.next = 1 /\ draw.cmd = 0 /\ draw.bound = None /\ draw.commands = <<>>
  /\ draw.pc = "record" =>
       /\ \E b : /\ Reaches(draw.frame, Ids, draw.commands, b)
                 /\ b.tex = draw.bound /\ b.seen = Earlier(draw.frame, <<draw.next, draw.cmd>>)
                 /\ draw.cmd # 0 => /\ b.id = vtxBuffer.id /\ b.at = draw.vtxOffset
                                    /\ b.size = Len(List.vtx) * VtxUnits
       /\ \A i \in 1..Len(draw.frame.lists) :
            i < draw.next \/ (i = draw.next /\ draw.cmd # 0) =>
              Holds(draw.frame, i, vtxBuffer.data, idxBuffer.data)

(* What is submitted and not touched asks for its whole frame, which is in *)
(* the buffers.                                                            *)
Intact(e, vtx, idx) ==
  /\ vtx.ready /\ idx.ready
  /\ \E b : Reaches(e.frame, <<vtx.id, idx.id>>, e.commands, b) /\ b.seen = Shown(e.frame)
  /\ \A i \in 1..Len(e.frame.lists) : Holds(e.frame, i, vtx.data, idx.data)

QueueInv ==
  \A k \in 1..Len(queue) : ~queue[k].touched => Intact(queue[k], vtxBuffer, idxBuffer)

(* The GPU is on the way of the first commands, and has drawn what they    *)
(* asked for so far.                                                       *)
GpuFields == {"done", "tex", "id", "at", "size", "picture"}

OnRoute(e, ids, st, g) ==
  /\ Route(e.frame, ids, e.commands, st) /\ st[Len(e.commands)].seen = Shown(e.frame)
  /\ g.done <= Len(e.commands)
  /\ g.tex = st[g.done].tex /\ g.id = st[g.done].id
  /\ g.at = st[g.done].at /\ g.size = st[g.done].size
  /\ Pictured(g.picture, e.frame, st[g.done].seen)

GpuInv ==
  /\ DOMAIN gpu = GpuFields /\ gpu.done \in Nat
  /\ queue = <<>> => gpu = NoGpu
  /\ queue # <<>> /\ ~Head(queue).touched => \E st : OnRoute(Head(queue), Ids, st, gpu)

BehindInv ==
  /\ QueueInv /\ GpuInv /\ DrawsFrame
  /\ vtxBuffer.ready => vtxBuffer.id # None
  /\ idxBuffer.ready => idxBuffer.id # None

InUseInv == draw.pc # "out" \/ queue # <<>> => backend = "ready"

DrawnInv == SoundInv /\ RecordInv /\ BehindInv /\ InUseInv

LEMMA NoGpuIs ==
  /\ DOMAIN NoGpu = GpuFields /\ NoGpu.done = 0
  /\ NoGpu.tex = None /\ NoGpu.id = None /\ NoGpu.at = 0 /\ NoGpu.size = 0 /\ NoGpu.picture = <<>>
  BY DEF NoGpu, GpuFields

(* The GPU begins at the start of what is submitted.                       *)
LEMMA GpuStarts ==
  ASSUME NEW e, NEW vtx, NEW idx, Intact(e, vtx, idx)
  PROVE  \E st : OnRoute(e, <<vtx.id, idx.id>>, st, NoGpu)
<1>1. PICK b : Reaches(e.frame, <<vtx.id, idx.id>>, e.commands, b) /\ b.seen = Shown(e.frame)
  BY DEF Intact
<1>2. PICK st : Route(e.frame, <<vtx.id, idx.id>>, e.commands, st) /\ st[Len(e.commands)] = b
  BY <1>1 DEF Reaches
<1>3. IsSeq(e.commands) /\ st[0] = Start
  BY <1>2 DEF Route
<1>4. 0 <= Len(e.commands)
  BY <1>3, SeqMore
<1>5. Start.tex = None /\ Start.id = None /\ Start.at = 0 /\ Start.size = 0 /\ Start.seen = {}
  BY DEF Start
<1>6. Pictured(<<>>, e.frame, {})
  BY NoSeq, FS_EmptySet DEF Pictured
<1>7. OnRoute(e, <<vtx.id, idx.id>>, st, NoGpu)
  BY <1>1, <1>2, <1>3, <1>4, <1>5, <1>6, NoGpuIs DEF OnRoute
<1> QED BY <1>7

LEMMA DrawnStarts == Init => DrawnInv
<1> SUFFICES ASSUME Init PROVE DrawnInv
  OBVIOUS
<1>1. RecordInv
  BY NoDrawIs DEF Init, RecordInv
<1>2. GpuInv
  BY NoGpuIs DEF Init, GpuInv
<1>3. QueueInv
  <2>1. queue = <<>> /\ Len(<<>>) = 0
    BY NoSeq DEF Init
  <2> QED BY <2>1 DEF QueueInv
<1>4. DrawsFrame /\ ~vtxBuffer.ready /\ ~idxBuffer.ready
  BY DEF Init, DrawsFrame, NoBuffer
<1>5. InUseInv
  BY NoDrawIs DEF Init, InUseInv
<1> QED BY <1>1, <1>2, <1>3, <1>4, <1>5, SoundStarts DEF DrawnInv, BehindInv

LEMMA BehindStays ==
  ASSUME BehindInv, UNCHANGED <<vtxBuffer, idxBuffer, queue, gpu, screen>>
  PROVE  BehindInv'
<1>1. Ids' = Ids
  BY DEF Ids
<1>2. QueueInv'
  BY DEF BehindInv, QueueInv
<1>3. GpuInv'
  BY <1>1 DEF BehindInv, GpuInv
<1>4. DrawsFrame'
  BY DEF BehindInv, DrawsFrame
<1> QED BY <1>2, <1>3, <1>4 DEF BehindInv

(* What is touched promises nothing.                                       *)
LEMMA BehindTouched ==
  ASSUME BehindInv, UNCHANGED <<gpu, screen>>, queue = <<>> <=> queue' = <<>>,
         \A k \in 1..Len(queue') : queue'[k].touched, queue' # <<>> => 1 \in 1..Len(queue'),
         vtxBuffer'.ready => vtxBuffer'.id # None,
         idxBuffer'.ready => idxBuffer'.id # None
  PROVE  BehindInv'
<1>1. QueueInv'
  BY DEF QueueInv
<1>2. GpuInv'
  <2>1. queue' # <<>> => Head(queue)'.touched
    BY DEF Head
  <2> QED BY <2>1 DEF BehindInv, GpuInv
<1>3. DrawsFrame'
  BY DEF BehindInv, DrawsFrame
<1> QED BY <1>1, <1>2, <1>3 DEF BehindInv

LEMMA QueueIs ==
  ASSUME NEW q, Submitted(q)
  PROVE  /\ IsSeq(q) /\ Len(q) \in Nat /\ DOMAIN q = 1..Len(q)
         /\ \A k \in 1..Len(q) : DOMAIN q[k] = {"frame", "commands", "touched"} /\ q[k].frame \in Frames
         /\ q # <<>> => 1 \in 1..Len(q) /\ Head(q) = q[1]
<1>1. PICK S : q \in Seq(S) /\ \A e \in S : DOMAIN e = {"frame", "commands", "touched"} /\ e.frame \in Frames
  BY DEF Submitted
<1>2. Len(q) \in Nat /\ DOMAIN q = 1..Len(q) /\ \A k \in 1..Len(q) : q[k] \in S
  BY <1>1
<1>3. q # <<>> => 1 \in 1..Len(q) /\ Head(q) = q[1]
  BY <1>1
<1> QED BY <1>1, <1>2, <1>3 DEF IsSeq

LEMMA TouchedIs ==
  ASSUME NEW q, Submitted(q)
  PROVE  /\ q = <<>> <=> Touch(q) = <<>>
         /\ Len(Touch(q)) = Len(q)
         /\ \A k \in 1..Len(q) : Touch(q)[k].touched
         /\ Touch(q) # <<>> => 1 \in 1..Len(q)
<1>1. /\ Len(q) \in Nat /\ DOMAIN q = 1..Len(q) /\ IsSeq(q)
      /\ \A k \in 1..Len(q) : DOMAIN q[k] = {"frame", "commands", "touched"}
      /\ q # <<>> => 1 \in 1..Len(q)
  BY QueueIs
<1>2. Touch(q) = [i \in 1..Len(q) |-> [q[i] EXCEPT !.touched = TRUE]]
  BY <1>1 DEF Touch
<1>3. Len(Touch(q)) = Len(q) /\ DOMAIN Touch(q) = 1..Len(q)
  BY <1>1, <1>2
<1>4. ASSUME NEW k \in 1..Len(q) PROVE Touch(q)[k].touched
  BY <1>1, <1>2
<1>5. ASSUME q = <<>> PROVE Touch(q) = <<>>
  <2>1. Len(q) = 0
    BY <1>5, NoSeq
  <2>2. Touch(q) = [i \in 1..0 |-> [q[i] EXCEPT !.touched = TRUE]]
    BY <1>2, <2>1
  <2> QED BY <2>2
<1>6. ASSUME Touch(q) = <<>> PROVE q = <<>>
  <2>1. Len(q) = 0
    BY <1>3, <1>6, NoSeq
  <2> QED BY <1>1, <2>1
<1> QED BY <1>1, <1>3, <1>4, <1>5, <1>6

-----------------------------------------------------------------------------
(* Steps.                                                                  *)

LEMMA BeginDrawn ==
  ASSUME DrawnInv, NEW frame \in Frames, Begin(frame)
  PROVE  DrawnInv'
<1>1. /\ draw.pc = "out"
      /\ UNCHANGED <<backend, vtxBuffer, idxBuffer, queue, gpu, screen>>
      /\ \/ draw' = draw
         \/ draw' = [NoDraw EXCEPT !.pc = "vtx", !.frame = frame] /\ backend = "ready"
  BY DEF Begin
<1>2. SoundInv'
  BY BeginKeeps DEF DrawnInv
<1>3. BehindInv'
  BY <1>1, BehindStays DEF DrawnInv
<1>4. RecordInv' /\ InUseInv'
  <2>1. CASE draw' = draw
    BY <1>1, <2>1 DEF DrawnInv, RecordInv, InUseInv
  <2>2. CASE draw' = [NoDraw EXCEPT !.pc = "vtx", !.frame = frame] /\ backend = "ready"
    <3>1. /\ draw'.pc = "vtx" /\ draw'.next = 1 /\ draw'.cmd = 0 /\ draw'.bound = None
          /\ draw'.commands = <<>>
      BY <2>2, NoDrawIs DEF DrawFields
    <3> QED BY <1>1, <2>2, <3>1 DEF RecordInv, InUseInv
  <2> QED BY <1>1, <2>1, <2>2
<1> QED BY <1>2, <1>3, <1>4 DEF DrawnInv

(* A buffer is kept, or what is submitted is touched.                      *)
LEMMA GrownTouches ==
  ASSUME DrawnInv, NEW b, BufferInv(b), b.ready => b.id # None, b.id = None => ~vtxBuffer.ready \/ ~idxBuffer.ready,
         NEW size, NEW new, Grow(b, new, size)
  PROVE  /\ new.ready => new.id # None
         /\ \/ new = b /\ queue' = queue
            \/ /\ queue = <<>> <=> queue' = <<>>
               /\ \A k \in 1..Len(queue') : queue'[k].touched
               /\ queue' # <<>> => 1 \in 1..Len(queue')
<1>1. CASE new = b /\ UNCHANGED <<memory, made, queue>>
  BY <1>1
<1>2. CASE /\ new \in Buffers(size) /\ made' = made + 1 /\ memory' = Freed(b) \cup {made + 1}
           /\ queue' = IF b.id = None THEN queue ELSE Touch(queue)
  <2>1. HeapInv /\ Submitted(queue) /\ made \in Nat
    BY DEF DrawnInv, SoundInv, HeapInv
  <2>2. new.id # None \/ new = b
    <3>1. \/ new = b /\ UNCHANGED <<memory, made>>
          \/ new.id = made + 1
      BY <2>1, Grown
    <3>2. made + 1 \in Nat
      BY <2>1
    <3> QED BY <3>1, <3>2, UnitsAssumption
  <2>3. CASE b.id = None
    <3>1. queue' = queue
      BY <1>2, <2>3
    <3>2. \A k \in 1..Len(queue) : queue[k].touched
      BY <2>3 DEF DrawnInv, BehindInv, QueueInv, Intact
    <3>3. queue # <<>> => 1 \in 1..Len(queue)
      BY <2>1, QueueIs
    <3> QED BY <2>2, <3>1, <3>2, <3>3
  <2>4. CASE b.id # None
    <3>1. queue' = Touch(queue)
      BY <1>2, <2>4
    <3> QED BY <2>1, <2>2, <3>1, TouchedIs
  <2> QED BY <2>3, <2>4
<1> QED BY <1>1, <1>2 DEF Grow

LEMMA GrowVtxDrawn ==
  ASSUME DrawnInv, GrowVtx
  PROVE  DrawnInv'
<1>1. /\ draw.pc = "vtx" /\ draw' = [draw EXCEPT !.pc = "idx"]
      /\ UNCHANGED <<backend, idxBuffer, gpu, screen>>
      /\ Grow(vtxBuffer, vtxBuffer', TotalVtxSize(draw.frame))
  BY DEF GrowVtx
<1>2. SoundInv'
  BY GrowVtxSound DEF DrawnInv
<1>3. /\ vtxBuffer'.ready => vtxBuffer'.id # None
      /\ \/ vtxBuffer' = vtxBuffer /\ queue' = queue
         \/ /\ queue = <<>> <=> queue' = <<>>
            /\ \A k \in 1..Len(queue') : queue'[k].touched
            /\ queue' # <<>> => 1 \in 1..Len(queue')
  BY <1>1, GrownTouches DEF DrawnInv, SoundInv, HeapInv, BehindInv
<1>4. BehindInv'
  <2>1. CASE vtxBuffer' = vtxBuffer /\ queue' = queue
    BY <1>1, <2>1, BehindStays DEF DrawnInv
  <2>2. CASE /\ queue = <<>> <=> queue' = <<>>
             /\ \A k \in 1..Len(queue') : queue'[k].touched
             /\ queue' # <<>> => 1 \in 1..Len(queue')
    <3>1. idxBuffer'.ready => idxBuffer'.id # None
      BY <1>1 DEF DrawnInv, BehindInv
    <3> QED BY <1>1, <1>3, <2>2, <3>1, BehindTouched DEF DrawnInv
  <2> QED BY <1>3, <2>1, <2>2
<1>5. /\ draw'.pc = "idx" /\ draw'.next = draw.next /\ draw'.cmd = draw.cmd /\ draw'.bound = draw.bound
      /\ draw'.commands = draw.commands
  BY <1>1 DEF DrawnInv, SoundInv, DrawInv, DrawFields
<1>6. RecordInv' /\ InUseInv'
  BY <1>1, <1>5 DEF DrawnInv, RecordInv, InUseInv
<1> QED BY <1>2, <1>4, <1>6 DEF DrawnInv

LEMMA GrowIdxDrawn ==
  ASSUME DrawnInv, GrowIdx
  PROVE  DrawnInv'
<1>1. /\ draw.pc = "idx" /\ draw' = [draw EXCEPT !.pc = "test"]
      /\ UNCHANGED <<backend, vtxBuffer, gpu, screen>>
      /\ Grow(idxBuffer, idxBuffer', TotalIdxSize(draw.frame))
  BY DEF GrowIdx
<1>2. SoundInv'
  BY GrowIdxSound DEF DrawnInv
<1>3. /\ idxBuffer'.ready => idxBuffer'.id # None
      /\ \/ idxBuffer' = idxBuffer /\ queue' = queue
         \/ /\ queue = <<>> <=> queue' = <<>>
            /\ \A k \in 1..Len(queue') : queue'[k].touched
            /\ queue' # <<>> => 1 \in 1..Len(queue')
  BY <1>1, GrownTouches DEF DrawnInv, SoundInv, HeapInv, BehindInv
<1>4. BehindInv'
  <2>1. CASE idxBuffer' = idxBuffer /\ queue' = queue
    BY <1>1, <2>1, BehindStays DEF DrawnInv
  <2>2. CASE /\ queue = <<>> <=> queue' = <<>>
             /\ \A k \in 1..Len(queue') : queue'[k].touched
             /\ queue' # <<>> => 1 \in 1..Len(queue')
    <3>1. vtxBuffer'.ready => vtxBuffer'.id # None
      BY <1>1 DEF DrawnInv, BehindInv
    <3> QED BY <1>1, <1>3, <2>2, <3>1, BehindTouched DEF DrawnInv
  <2> QED BY <1>3, <2>1, <2>2
<1>5. /\ draw'.pc = "test" /\ draw'.next = draw.next /\ draw'.cmd = draw.cmd /\ draw'.bound = draw.bound
      /\ draw'.commands = draw.commands
  BY <1>1 DEF DrawnInv, SoundInv, DrawInv, DrawFields
<1>6. RecordInv' /\ InUseInv'
  BY <1>1, <1>5 DEF DrawnInv, RecordInv, InUseInv
<1> QED BY <1>2, <1>4, <1>6 DEF DrawnInv

LEMMA TestReadyDrawn ==
  ASSUME DrawnInv, TestReady
  PROVE  DrawnInv'
<1>1. /\ draw.pc = "test"
      /\ UNCHANGED <<backend, vtxBuffer, idxBuffer, queue, gpu, screen>>
      /\ draw' = IF BothReady THEN [draw EXCEPT !.pc = "record"] ELSE NoDraw
  BY DEF TestReady
<1>2. SoundInv'
  BY TestReadySound DEF DrawnInv
<1>3. BehindInv'
  BY <1>1, BehindStays DEF DrawnInv
<1>4. CASE BothReady
  <2>1. /\ draw'.pc = "record" /\ draw'.frame = draw.frame /\ draw'.next = 1 /\ draw'.cmd = 0
        /\ draw'.bound = None /\ draw'.commands = <<>>
    BY <1>1, <1>4 DEF DrawnInv, SoundInv, DrawInv, RecordInv, DrawFields
  <2>2. draw.frame \in Frames
    BY <1>1 DEF DrawnInv, SoundInv, DrawInv
  <2>3. /\ Reaches(draw.frame, Ids', <<>>, Start)
        /\ Start.tex = None /\ Start.seen = Earlier(draw.frame, <<1, 0>>)
    BY <2>2, ReachesStart, EarlierEnds DEF Start
  <2>4. \A i \in 1..Len(draw.frame.lists) : ~(i < 1)
    BY <2>2, FramesAssumption
  <2>5. RecordInv'
    BY <2>1, <2>3, <2>4 DEF RecordInv
  <2>6. InUseInv'
    BY <1>1 DEF DrawnInv, InUseInv
  <2> QED BY <1>2, <1>3, <2>5, <2>6 DEF DrawnInv
<1>5. CASE ~BothReady
  <2>1. draw'.pc = "out"
    BY <1>1, <1>5, NoDrawIs
  <2>2. RecordInv' /\ InUseInv'
    BY <1>1, <2>1 DEF DrawnInv, RecordInv, InUseInv
  <2> QED BY <1>2, <1>3, <2>2 DEF DrawnInv
<1> QED BY <1>4, <1>5

LEMMA RecordListDrawn ==
  ASSUME DrawnInv, RecordList
  PROVE  DrawnInv'
<1> DEFINE frame == draw.frame
           k     == draw.next
           list  == frame.lists[k]
           x     == [op |-> "vertices", id |-> vtxBuffer.id, at |-> draw.vtxOffset,
                     size |-> Len(list.vtx) * VtxUnits]
<1>1. /\ draw.pc = "record" /\ draw.cmd = 0 /\ k <= Len(frame.lists) /\ outcome = "none"
      /\ UNCHANGED <<backend, gpu, screen>>
  BY DEF RecordList
<1>2. SoundInv'
  BY RecordListSound DEF DrawnInv
<1>3. outcome' = "none"
  BY <1>2 DEF SoundInv, InBounds
<1>4. /\ vtxBuffer' = Written(vtxBuffer, draw.vtxOffset, list.vtx, VtxUnits)
      /\ idxBuffer' = Written(idxBuffer, draw.idxOffset, list.idx, 1)
      /\ draw' = [draw EXCEPT !.cmd = 1, !.commands = Append(@, x)]
      /\ queue' = Touch(queue)
      /\ draw.vtxOffset + VtxUnits * Len(list.vtx) <= vtxBuffer.size
      /\ draw.idxOffset + 1 * Len(list.idx) <= idxBuffer.size
  BY <1>1, <1>3 DEF RecordList, List, Fits
<1>5. /\ frame \in Frames /\ Len(frame.lists) \in Nat /\ k \in 1..Len(frame.lists)
      /\ draw.vtxOffset = VtxUnits * VtxBefore(frame, k) /\ draw.idxOffset = IdxBefore(frame, k)
  <2>1. frame \in Frames /\ k \in 1..Len(frame.lists) + 1
    BY <1>1 DEF DrawnInv, SoundInv, DrawInv
  <2>2. Len(frame.lists) \in Nat
    BY <2>1, FramesAssumption
  <2> QED BY <1>1, <2>1, <2>2 DEF DrawnInv, SoundInv, DrawInv
<1>6. /\ draw'.pc = "record" /\ draw'.frame = frame /\ draw'.next = k /\ draw'.cmd = 1
      /\ draw'.bound = draw.bound /\ draw'.commands = Append(draw.commands, x)
      /\ draw'.vtxOffset = draw.vtxOffset
  BY <1>1, <1>4 DEF DrawnInv, SoundInv, DrawInv, DrawFields
<1> HIDE DEF frame, k
<1>7. /\ Len(list.vtx) \in Nat /\ Len(list.idx) \in Nat
      /\ DOMAIN list.vtx = 1..Len(list.vtx) /\ DOMAIN list.idx = 1..Len(list.idx)
      /\ VtxBefore(frame, k) \in Nat /\ IdxBefore(frame, k) \in Nat
  BY <1>5, ListFits, FramesAssumption
<1>8. /\ vtxBuffer.ready /\ Sized(vtxBuffer) /\ BufferInv(vtxBuffer)
      /\ idxBuffer.ready /\ Sized(idxBuffer) /\ BufferInv(idxBuffer)
      /\ Submitted(queue)
  BY <1>1 DEF DrawnInv, SoundInv, RoomInv, HeapInv
<1>9. /\ vtxBuffer'.id = vtxBuffer.id /\ idxBuffer'.id = idxBuffer.id
  BY <1>4, <1>8 DEF Written, BufferInv
<1>10. vtxBuffer.id # None /\ idxBuffer.id # None
  BY <1>8 DEF DrawnInv, BehindInv
<1>11. BehindInv'
  <2>1. /\ queue = <<>> <=> queue' = <<>>
        /\ \A q \in 1..Len(queue') : queue'[q].touched
        /\ queue' # <<>> => 1 \in 1..Len(queue')
    BY <1>4, <1>8, TouchedIs
  <2> QED BY <1>1, <1>9, <1>10, <2>1, BehindTouched DEF DrawnInv
<1>12. /\ Held(vtxBuffer'.data, VtxUnits, VtxBefore(frame, k), list.vtx)
       /\ \A less \in Nat : \A old :
            /\ Held(vtxBuffer.data, VtxUnits, less, old) /\ Len(old) \in Nat
            /\ less + Len(old) <= VtxBefore(frame, k)
            => Held(vtxBuffer'.data, VtxUnits, less, old)
  <2>1. vtxBuffer' = Written(vtxBuffer, VtxUnits * VtxBefore(frame, k), list.vtx, VtxUnits)
    BY <1>4, <1>5
  <2>2. VtxUnits * VtxBefore(frame, k) + VtxUnits * Len(list.vtx) <= vtxBuffer.size
    BY <1>4, <1>5
  <2> HIDE DEF list
  <2> QED BY <1>7, <1>8, <2>1, <2>2, UnitsAssumption, WrittenHolds
<1>13. /\ Held(idxBuffer'.data, 1, IdxBefore(frame, k), list.idx)
       /\ \A less \in Nat : \A old :
            /\ Held(idxBuffer.data, 1, less, old) /\ Len(old) \in Nat
            /\ less + Len(old) <= IdxBefore(frame, k)
            => Held(idxBuffer'.data, 1, less, old)
  <2>1. 1 * IdxBefore(frame, k) = IdxBefore(frame, k) /\ 1 \in Nat \ {0}
    BY <1>7
  <2>2. idxBuffer' = Written(idxBuffer, 1 * IdxBefore(frame, k), list.idx, 1)
    BY <1>4, <1>5, <2>1
  <2>3. 1 * IdxBefore(frame, k) + 1 * Len(list.idx) <= idxBuffer.size
    BY <1>4, <1>5, <2>1
  <2> HIDE DEF list
  <2> QED BY <1>7, <1>8, <2>1, <2>2, <2>3, WrittenHolds
<1>14. ASSUME NEW i \in 1..Len(frame.lists), i < k \/ i = k
       PROVE  Holds(frame, i, vtxBuffer'.data, idxBuffer'.data)
  <2>1. CASE i = k
    BY <1>12, <1>13, <2>1 DEF Holds
  <2>2. CASE i < k
    <3>1. Holds(frame, i, vtxBuffer.data, idxBuffer.data)
      BY <1>1, <2>2 DEF DrawnInv, RecordInv, frame, k
    <3>2. /\ Held(vtxBuffer.data, VtxUnits, VtxBefore(frame, i), frame.lists[i].vtx)
          /\ Held(idxBuffer.data, 1, IdxBefore(frame, i), frame.lists[i].idx)
      BY <3>1 DEF Holds
    <3>3. i \in 1..k - 1
      BY <1>5, <2>2
    <3>4. /\ VtxBefore(frame, i) + Len(frame.lists[i].vtx) <= VtxBefore(frame, k)
          /\ IdxBefore(frame, i) + Len(frame.lists[i].idx) <= IdxBefore(frame, k)
      BY <1>5, <3>3, ListsBefore
    <3>5. /\ VtxBefore(frame, i) \in Nat /\ IdxBefore(frame, i) \in Nat
          /\ Len(frame.lists[i].vtx) \in Nat /\ Len(frame.lists[i].idx) \in Nat
      BY <1>5, ListFits
    <3>6. Held(vtxBuffer'.data, VtxUnits, VtxBefore(frame, i), frame.lists[i].vtx)
      BY <1>12, <3>2, <3>4, <3>5
    <3>7. Held(idxBuffer'.data, 1, IdxBefore(frame, i), frame.lists[i].idx)
      BY <1>13, <3>2, <3>4, <3>5
    <3> QED BY <3>6, <3>7 DEF Holds
  <2> QED BY <1>14, <2>1, <2>2
<1>15. PICK a : /\ Reaches(frame, Ids, draw.commands, a)
                /\ a.tex = draw.bound /\ a.seen = Earlier(frame, <<k, 0>>)
  BY <1>1 DEF DrawnInv, RecordInv, frame, k
<1> DEFINE b == [tex |-> a.tex, id |-> x.id, at |-> x.at, size |-> x.size, seen |-> a.seen]
<1>16. /\ b.tex = a.tex /\ b.id = vtxBuffer.id /\ b.at = draw.vtxOffset
       /\ b.size = Len(list.vtx) * VtxUnits /\ b.seen = a.seen
       /\ Leads(frame, Ids, a, x, b)
  BY DEF Leads
<1> HIDE DEF b, x
<1>17. Reaches(frame, Ids, Append(draw.commands, x), b)
  BY <1>15, <1>16, ReachesMore
<1>18. Earlier(frame, <<k, 1>>) = Earlier(frame, <<k, 0>>)
  <2>1. Len(frame.lists[k].cmds) + 1 \in Nat /\ Len(frame.lists[k].cmds) + 1 > Len(frame.lists[k].cmds)
    BY <1>5, FramesAssumption
  <2> QED BY <1>5, <2>1, EarlierLists
<1>19. Ids' = Ids /\ List' = list
  BY <1>6, <1>9 DEF Ids, List
<1>20. RecordInv'
  <2>1. /\ Reaches(draw'.frame, Ids', draw'.commands, b)
        /\ b.tex = draw'.bound /\ b.seen = Earlier(draw'.frame, <<draw'.next, draw'.cmd>>)
    BY <1>6, <1>15, <1>16, <1>17, <1>18, <1>19
  <2>2. b.id = vtxBuffer'.id /\ b.at = draw'.vtxOffset /\ b.size = Len(List.vtx)' * VtxUnits
    BY <1>6, <1>9, <1>16, <1>19
  <2>3. \A i \in 1..Len(draw'.frame.lists) : i < draw'.next \/ (i = draw'.next /\ draw'.cmd # 0) =>
          Holds(draw'.frame, i, vtxBuffer'.data, idxBuffer'.data)
    BY <1>6, <1>14
  <2>4. draw'.pc = "record"
    BY <1>6
  <2> QED BY <2>1, <2>2, <2>3, <2>4 DEF RecordInv
<1>21. InUseInv'
  BY <1>1 DEF DrawnInv, InUseInv
<1> QED BY <1>2, <1>11, <1>20, <1>21 DEF DrawnInv

LEMMA RecordCommandDrawn ==
  ASSUME DrawnInv, RecordCommand
  PROVE  DrawnInv'
<1> DEFINE frame == draw.frame
           k     == draw.next
           c     == draw.cmd
           list  == frame.lists[k]
           cmd   == list.cmds[c]
           x     == [op |-> "draw", id |-> idxBuffer.id, at |-> cmd.idxOffset + draw.idxOffset,
                     elems |-> cmd.elems, base |-> cmd.vtxOffset]
           t     == [op |-> "texture", tex |-> cmd.tex]
<1>1. /\ draw.pc = "record" /\ c # 0 /\ c <= Len(list.cmds)
      /\ UNCHANGED <<backend, vtxBuffer, idxBuffer, queue, gpu, screen>>
      /\ draw' = IF cmd.visible
                 THEN [draw EXCEPT !.cmd = @ + 1, !.bound = cmd.tex, !.commands = @ \o Recorded(cmd)]
                 ELSE [draw EXCEPT !.cmd = @ + 1]
  BY DEF RecordCommand, List
<1>2. SoundInv'
  BY RecordCommandSound DEF DrawnInv
<1>3. BehindInv'
  BY <1>1, BehindStays DEF DrawnInv
<1>4. InUseInv'
  BY <1>1 DEF DrawnInv, InUseInv
<1>5. /\ frame \in Frames /\ k \in 1..Len(frame.lists) /\ c \in 1..Len(frame.lists[k].cmds)
      /\ draw.vtxOffset = VtxUnits * VtxBefore(frame, k) /\ draw.idxOffset = IdxBefore(frame, k)
  <2>1. /\ frame \in Frames /\ k \in 1..Len(frame.lists) + 1 /\ c \in Nat /\ k <= Len(frame.lists)
        /\ draw.vtxOffset = VtxUnits * VtxBefore(frame, k) /\ draw.idxOffset = IdxBefore(frame, k)
    BY <1>1 DEF DrawnInv, SoundInv, DrawInv
  <2>2. k \in 1..Len(frame.lists) /\ Len(frame.lists[k].cmds) \in Nat
    BY <2>1, FramesAssumption, SMTT(30)
  <2> QED BY <1>1, <2>1, <2>2
<1>6. PICK a : /\ Reaches(frame, Ids, draw.commands, a)
               /\ a.tex = draw.bound /\ a.seen = Earlier(frame, <<k, c>>)
               /\ a.id = vtxBuffer.id /\ a.at = draw.vtxOffset /\ a.size = Len(list.vtx) * VtxUnits
  BY <1>1 DEF DrawnInv, RecordInv, List
<1>7. \A i \in 1..Len(frame.lists) : i < k \/ i = k =>
        Holds(frame, i, vtxBuffer.data, idxBuffer.data)
  BY <1>1 DEF DrawnInv, RecordInv
<1>8. DOMAIN draw = DrawFields
  BY DEF DrawnInv, SoundInv, DrawInv
<1>9. /\ draw'.pc = "record" /\ draw'.frame = frame /\ draw'.next = k /\ draw'.cmd = c + 1
      /\ draw'.vtxOffset = draw.vtxOffset
      /\ draw'.bound = IF cmd.visible THEN cmd.tex ELSE draw.bound
      /\ draw'.commands = IF cmd.visible THEN draw.commands \o Recorded(cmd) ELSE draw.commands
  <2>1. CASE cmd.visible
    <3>1. draw' = [draw EXCEPT !.cmd = @ + 1, !.bound = cmd.tex, !.commands = @ \o Recorded(cmd)]
      BY <1>1, <2>1
    <3> HIDE DEF cmd
    <3> QED BY <1>1, <1>8, <2>1, <3>1 DEF DrawFields
  <2>2. CASE ~cmd.visible
    <3>1. draw' = [draw EXCEPT !.cmd = @ + 1]
      BY <1>1, <2>2
    <3> HIDE DEF cmd
    <3> QED BY <1>1, <1>8, <2>2, <3>1 DEF DrawFields
  <2> QED BY <2>1, <2>2
<1>10. Ids' = Ids /\ List' = list
  BY <1>1, <1>9 DEF Ids, List
<1> HIDE DEF frame, k, c
<1>11. ASSUME NEW b, Reaches(frame, Ids, draw'.commands, b), b.tex = draw'.bound,
              b.seen = Earlier(frame, <<k, c + 1>>),
              b.id = a.id, b.at = a.at, b.size = a.size
       PROVE  RecordInv'
  <2>1. /\ Reaches(draw'.frame, Ids', draw'.commands, b)
        /\ b.tex = draw'.bound /\ b.seen = Earlier(draw'.frame, <<draw'.next, draw'.cmd>>)
    BY <1>9, <1>10, <1>11
  <2>2. b.id = vtxBuffer'.id /\ b.at = draw'.vtxOffset /\ b.size = Len(List.vtx)' * VtxUnits
    BY <1>1, <1>6, <1>9, <1>10, <1>11
  <2>3. \A i \in 1..Len(draw'.frame.lists) : i < draw'.next \/ (i = draw'.next /\ draw'.cmd # 0) =>
          Holds(draw'.frame, i, vtxBuffer'.data, idxBuffer'.data)
    BY <1>1, <1>7, <1>9
  <2>4. draw'.pc = "record"
    BY <1>9
  <2> QED BY <2>1, <2>2, <2>3, <2>4 DEF RecordInv
<1>12. CASE ~cmd.visible
  <2>1. Earlier(frame, <<k, c + 1>>) = Earlier(frame, <<k, c>>)
    BY <1>5, <1>12, EarlierMore
  <2> QED BY <1>2, <1>3, <1>4, <1>6, <1>9, <1>11, <1>12, <2>1 DEF DrawnInv
<1>13. CASE cmd.visible
  <2> DEFINE p == <<k, c>>
             m == [tex |-> cmd.tex, id |-> a.id, at |-> a.at, size |-> a.size, seen |-> a.seen]
             b == [tex |-> cmd.tex, id |-> a.id, at |-> a.at, size |-> a.size, seen |-> a.seen \cup {p}]
  <2>1. Earlier(frame, <<k, c + 1>>) = Earlier(frame, p) \cup {p} /\ p \in Shown(frame)
    BY <1>5, <1>13, EarlierMore, ShownIs
  <2>2. p[1] = k /\ p[2] = c
    OBVIOUS
  <2>3. /\ m.tex = cmd.tex /\ m.id = a.id /\ m.at = a.at /\ m.size = a.size /\ m.seen = a.seen
        /\ b.tex = cmd.tex /\ b.id = a.id /\ b.at = a.at /\ b.size = a.size /\ b.seen = a.seen \cup {p}
    OBVIOUS
  <2>4. /\ x.op = "draw" /\ x.id = idxBuffer.id /\ x.at = cmd.idxOffset + draw.idxOffset
        /\ x.elems = cmd.elems /\ x.base = cmd.vtxOffset
        /\ t.op = "texture" /\ t.tex = cmd.tex
    OBVIOUS
  <2>5. Recorded(cmd) = IF draw.bound # cmd.tex THEN <<t, x>> ELSE <<x>>
    BY DEF Recorded, Binds
  <2> HIDE DEF m, b, x, t
  <2>6. Serves(frame, Ids, p, m, x)
    <3>1. Ids[1] = vtxBuffer.id /\ Ids[2] = idxBuffer.id
      BY DEF Ids
    <3> HIDE DEF p
    <3> QED BY <1>5, <1>6, <2>2, <2>3, <2>4, <3>1 DEF Serves
  <2>7. Leads(frame, Ids, m, x, b)
    <3> HIDE DEF p
    <3> QED BY <1>6, <2>1, <2>3, <2>4, <2>6 DEF Leads, p
  <2>8. IsSeq(draw.commands)
    BY <1>6 DEF Reaches, Route
  <2>9. Reaches(frame, Ids, draw.commands \o Recorded(cmd), b)
    <3>1. PICK S : draw.commands \in Seq(S)
      BY <2>8 DEF IsSeq
    <3> DEFINE T == S \cup {x, t}
    <3>2. draw.commands \in Seq(T) /\ x \in T /\ t \in T
      BY <3>1
    <3> HIDE DEF T
    <3>3. CASE draw.bound # cmd.tex
      <4>1. draw.commands \o <<t, x>> = Append(Append(draw.commands, t), x)
        BY <3>2
      <4>2. Leads(frame, Ids, a, t, m)
        BY <2>3, <2>4 DEF Leads
      <4>3. Reaches(frame, Ids, Append(draw.commands, t), m)
        BY <1>6, <4>2, ReachesMore
      <4>4. Reaches(frame, Ids, Append(Append(draw.commands, t), x), b)
        BY <2>7, <4>3, ReachesMore
      <4> QED BY <2>5, <3>3, <4>1, <4>4
    <3>4. CASE draw.bound = cmd.tex
      <4>1. draw.commands \o <<x>> = Append(draw.commands, x)
        BY <3>2
      <4>2. Leads(frame, Ids, a, x, b)
        <5>1. Serves(frame, Ids, p, a, x)
          BY <1>6, <2>3, <2>6, <3>4 DEF Serves
        <5> HIDE DEF p
        <5>2. a.tex = b.tex
          BY <1>6, <2>3, <3>4
        <5> QED BY <1>6, <2>1, <2>3, <2>4, <5>1, <5>2 DEF Leads, p
      <4>3. Reaches(frame, Ids, Append(draw.commands, x), b)
        BY <1>6, <4>2, ReachesMore
      <4> QED BY <2>5, <3>4, <4>1, <4>3
    <3> QED BY <3>3, <3>4
  <2>10. draw'.commands = draw.commands \o Recorded(cmd) /\ draw'.bound = cmd.tex
    BY <1>9, <1>13
  <2>11. RecordInv'
    <3> HIDE DEF cmd
    <3>1. Reaches(frame, Ids, draw'.commands, b) /\ b.tex = draw'.bound
      BY <2>3, <2>9, <2>10
    <3>2. b.seen = Earlier(frame, <<k, c + 1>>)
      BY <1>6, <2>1, <2>3
    <3> QED BY <1>11, <2>3, <3>1, <3>2
  <2> QED BY <1>2, <1>3, <1>4, <2>11 DEF DrawnInv
<1> QED BY <1>12, <1>13

LEMMA NextListDrawn ==
  ASSUME DrawnInv, NextList
  PROVE  DrawnInv'
<1> DEFINE frame == draw.frame
           k     == draw.next
<1>1. /\ draw.pc = "record" /\ draw.cmd # 0 /\ draw.cmd > Len(frame.lists[k].cmds)
      /\ UNCHANGED <<backend, vtxBuffer, idxBuffer, queue, gpu, screen>>
      /\ \E v, i : draw' = [draw EXCEPT !.next = @ + 1, !.cmd = 0, !.vtxOffset = v, !.idxOffset = i]
  BY DEF NextList, List
<1>2. SoundInv'
  BY NextListSound DEF DrawnInv
<1>3. BehindInv'
  BY <1>1, BehindStays DEF DrawnInv
<1>4. InUseInv'
  BY <1>1 DEF DrawnInv, InUseInv
<1>5. /\ draw'.pc = "record" /\ draw'.frame = frame /\ draw'.next = k + 1 /\ draw'.cmd = 0
      /\ draw'.bound = draw.bound /\ draw'.commands = draw.commands
  BY <1>1 DEF DrawnInv, SoundInv, DrawInv, DrawFields
<1>6. /\ frame \in Frames /\ k \in 1..Len(frame.lists) /\ draw.cmd \in Nat
      /\ Len(frame.lists) \in Nat
  <2>1. frame \in Frames /\ k \in 1..Len(frame.lists) + 1 /\ draw.cmd \in Nat /\ k <= Len(frame.lists)
    BY <1>1 DEF DrawnInv, SoundInv, DrawInv
  <2> QED BY <2>1, FramesAssumption
<1>7. PICK b : /\ Reaches(frame, Ids, draw.commands, b)
               /\ b.tex = draw.bound /\ b.seen = Earlier(frame, <<k, draw.cmd>>)
  BY <1>1 DEF DrawnInv, RecordInv
<1>8. \A i \in 1..Len(frame.lists) : i < k \/ i = k =>
        Holds(frame, i, vtxBuffer.data, idxBuffer.data)
  BY <1>1 DEF DrawnInv, RecordInv
<1> HIDE DEF frame, k
<1>9. Earlier(frame, <<k + 1, 0>>) = Earlier(frame, <<k, draw.cmd>>)
  BY <1>1, <1>6, EarlierLists
<1>10. Ids' = Ids
  BY <1>1 DEF Ids
<1>11. \A i \in 1..Len(frame.lists) : i < k + 1 => i < k \/ i = k
  BY <1>6
<1>12. RecordInv'
  <2>1. /\ Reaches(draw'.frame, Ids', draw'.commands, b)
        /\ b.tex = draw'.bound /\ b.seen = Earlier(draw'.frame, <<draw'.next, draw'.cmd>>)
    BY <1>5, <1>7, <1>9, <1>10
  <2>2. \A i \in 1..Len(draw'.frame.lists) : i < draw'.next =>
          Holds(draw'.frame, i, vtxBuffer'.data, idxBuffer'.data)
    BY <1>1, <1>5, <1>8, <1>11
  <2>3. draw'.pc = "record" /\ draw'.cmd = 0
    BY <1>5
  <2> QED BY <2>1, <2>2, <2>3 DEF RecordInv
<1> QED BY <1>2, <1>3, <1>4, <1>12 DEF DrawnInv

LEMMA SubmitDrawn ==
  ASSUME DrawnInv, SubmitCommands
  PROVE  DrawnInv'
<1> DEFINE frame == draw.frame
<1>1. PICK e : /\ e = [frame |-> frame, commands |-> draw.commands, touched |-> FALSE]
               /\ queue' = Append(queue, e)
  BY DEF SubmitCommands
<1>2. /\ draw.pc = "record" /\ draw.cmd = 0 /\ draw.next > Len(frame.lists)
      /\ UNCHANGED <<backend, vtxBuffer, idxBuffer, gpu, screen>>
      /\ draw' = NoDraw
  BY DEF SubmitCommands
<1>3. SoundInv' /\ Submitted(queue)
  BY SubmitSound DEF DrawnInv, SoundInv
<1>4. frame \in Frames /\ Len(frame.lists) \in Nat /\ draw.next = Len(frame.lists) + 1
  <2>1. frame \in Frames /\ draw.next \in 1..Len(frame.lists) + 1
    BY <1>2 DEF DrawnInv, SoundInv, DrawInv
  <2>2. Len(frame.lists) \in Nat
    BY <2>1, FramesAssumption
  <2> QED BY <1>2, <2>1, <2>2
<1>5. RecordInv' /\ InUseInv'
  BY <1>2, NoDrawIs DEF DrawnInv, RecordInv, InUseInv
<1>6. e.frame = frame /\ e.commands = draw.commands /\ e.touched = FALSE
  BY <1>1
<1>7. Intact(e, vtxBuffer, idxBuffer)
  <2>1. PICK b : /\ Reaches(frame, Ids, draw.commands, b)
                 /\ b.seen = Earlier(frame, <<draw.next, draw.cmd>>)
    BY <1>2 DEF DrawnInv, RecordInv
  <2>2. b.seen = Shown(frame)
    BY <1>2, <1>4, <2>1, EarlierEnds
  <2>3. \A i \in 1..Len(frame.lists) : Holds(frame, i, vtxBuffer.data, idxBuffer.data)
    <3>1. \A i \in 1..Len(frame.lists) : i < draw.next
      BY <1>4
    <3> QED BY <1>2, <3>1 DEF DrawnInv, RecordInv
  <2>4. vtxBuffer.ready /\ idxBuffer.ready
    BY <1>2 DEF DrawnInv, SoundInv, RoomInv
  <2> HIDE DEF frame
  <2> QED BY <1>6, <2>1, <2>2, <2>3, <2>4 DEF Intact, Ids
<1> HIDE DEF frame
<1>8. /\ Len(queue) \in Nat /\ Len(queue') = Len(queue) + 1
      /\ \A q \in 1..Len(queue) : queue'[q] = queue[q]
      /\ queue'[Len(queue) + 1] = e
      /\ queue # <<>> => Head(queue) = queue[1] /\ 1 \in 1..Len(queue)
      /\ queue' # <<>> => Head(queue') = queue'[1]
  <2>1. Submitted(queue')
    BY <1>3 DEF SoundInv
  <2> QED BY <1>1, <1>3, <2>1, QueueIs, SeqMore
<1>9. QueueInv'
  <2> SUFFICES ASSUME NEW q \in 1..Len(queue'), ~queue'[q].touched
               PROVE  Intact(queue'[q], vtxBuffer, idxBuffer)
    BY <1>2 DEF QueueInv
  <2>1. CASE q = Len(queue) + 1
    BY <1>7, <1>8, <2>1
  <2>2. CASE q # Len(queue) + 1
    <3>1. q \in 1..Len(queue)
      BY <1>8, <2>2
    <3> QED BY <1>8, <3>1 DEF DrawnInv, BehindInv, QueueInv
  <2> QED BY <2>1, <2>2
<1>10. Ids' = Ids /\ gpu' = gpu
  BY <1>2 DEF Ids
<1>11. GpuInv'
  <2>1. queue' # <<>>
    BY <1>8, NoSeq
  <2>2. CASE queue # <<>>
    <3>1. Head(queue') = Head(queue)
      BY <1>8, <2>1, <2>2
    <3> QED BY <1>10, <2>1, <2>2, <3>1 DEF DrawnInv, BehindInv, GpuInv
  <2>3. CASE queue = <<>>
    <3>1. Head(queue') = e
      BY <1>8, <2>1, <2>3, NoSeq
    <3>2. gpu = NoGpu
      BY <2>3 DEF DrawnInv, BehindInv, GpuInv
    <3>3. \E st : OnRoute(e, Ids, st, NoGpu)
      BY <1>7, GpuStarts DEF Ids
    <3>4. gpu' = NoGpu
      BY <1>10, <3>2
    <3> QED BY <1>10, <2>1, <3>1, <3>3, <3>4, NoGpuIs DEF GpuInv
  <2> QED BY <2>2, <2>3
<1>12. BehindInv'
  BY <1>2, <1>9, <1>11 DEF DrawnInv, BehindInv, DrawsFrame
<1> QED BY <1>3, <1>5, <1>12 DEF DrawnInv

LEMMA ExecuteDrawn ==
  ASSUME DrawnInv, Execute
  PROVE  DrawnInv'
<1> DEFINE e == Head(queue)
           d == gpu.done
           x == e.commands[d + 1]
<1>1. /\ queue # <<>> /\ d < Len(e.commands)
      /\ UNCHANGED <<backend, vtxBuffer, idxBuffer, memory, made, draw, queue, screen, count, outcome>>
  BY DEF Execute
<1>2. \/ /\ x.op = "texture"
         /\ gpu' = [gpu EXCEPT !.done = @ + 1, !.tex = x.tex]
      \/ /\ x.op = "vertices"
         /\ gpu' = [gpu EXCEPT !.done = @ + 1, !.id = x.id, !.at = x.at, !.size = x.size]
      \/ /\ x.op = "draw"
         /\ gpu' = [gpu EXCEPT !.done = @ + 1, !.picture = Append(@, Drawn(x))]
  BY DEF Execute
<1>3. SoundInv'
  BY SoundIsKept DEF DrawnInv, Next
<1>4. Ids' = Ids
  BY <1>1 DEF Ids
<1>5. RecordInv' /\ InUseInv'
  BY <1>1, <1>4 DEF DrawnInv, RecordInv, InUseInv, List
<1>6. QueueInv' /\ DrawsFrame'
  BY <1>1 DEF DrawnInv, BehindInv, QueueInv, DrawsFrame
<1>7. DOMAIN gpu = GpuFields /\ d \in Nat
  BY DEF DrawnInv, BehindInv, GpuInv
<1> HIDE DEF x
<1>8. DOMAIN gpu' = GpuFields /\ gpu'.done = d + 1 /\ d + 1 \in Nat
  <2> HIDE DEF d
  <2>1. d + 1 \in Nat /\ d = gpu.done
    BY <1>7 DEF d
  <2>2. CASE gpu' = [gpu EXCEPT !.done = @ + 1, !.tex = x.tex]
    BY <1>7, <2>1, <2>2 DEF GpuFields
  <2>3. CASE gpu' = [gpu EXCEPT !.done = @ + 1, !.id = x.id, !.at = x.at, !.size = x.size]
    BY <1>7, <2>1, <2>3 DEF GpuFields
  <2>4. CASE gpu' = [gpu EXCEPT !.done = @ + 1, !.picture = Append(@, Drawn(x))]
    BY <1>7, <2>1, <2>4 DEF GpuFields
  <2> QED BY <1>2, <2>2, <2>3, <2>4
<1>9. ASSUME ~e.touched PROVE \E st : OnRoute(e, Ids, st, gpu')
  <2>1. PICK st : OnRoute(e, Ids, st, gpu)
    BY <1>1, <1>9 DEF DrawnInv, BehindInv, GpuInv
  <2> DEFINE a == st[d]
             b == st[d + 1]
  <2>2. /\ Route(e.frame, Ids, e.commands, st) /\ st[Len(e.commands)].seen = Shown(e.frame)
        /\ d <= Len(e.commands)
        /\ gpu.tex = a.tex /\ gpu.id = a.id /\ gpu.at = a.at /\ gpu.size = a.size
        /\ Pictured(gpu.picture, e.frame, a.seen)
    BY <2>1 DEF OnRoute
  <2>3. Len(e.commands) \in Nat
    BY <2>2, SeqMore DEF Route
  <2>4. d + 1 \in 1..Len(e.commands) /\ d + 1 <= Len(e.commands)
    BY <1>1, <1>7, <2>3
  <2>5. Leads(e.frame, Ids, a, x, b)
    <3> DEFINE q == d + 1
    <3>1. q \in 1..Len(e.commands) /\ q - 1 = d
      BY <1>7, <2>4
    <3> HIDE DEF q, e, d
    <3>2. Leads(e.frame, Ids, st[q - 1], e.commands[q], st[q])
      BY <2>2, <3>1 DEF Route
    <3>3. x = e.commands[q] /\ b = st[q]
      BY DEF x, q, e, d
    <3> QED BY <3>1, <3>2, <3>3
  <2>6. 1 \in 1..Len(queue) /\ e = queue[1] /\ e.frame \in Frames
    BY <1>1, QueueIs DEF DrawnInv, SoundInv
  <2>7. Intact(e, vtxBuffer, idxBuffer)
    BY <1>9, <2>6 DEF DrawnInv, BehindInv, QueueInv
  <2> HIDE DEF a, b, e, d
  <2>8. /\ gpu'.tex = b.tex /\ gpu'.id = b.id /\ gpu'.at = b.at /\ gpu'.size = b.size
        /\ Pictured(gpu'.picture, e.frame, b.seen)
    <3>1. CASE x.op = "texture"
      <4>1. gpu' = [gpu EXCEPT !.done = @ + 1, !.tex = x.tex]
        BY <1>2, <3>1
      <4>2. /\ gpu'.tex = x.tex /\ gpu'.id = gpu.id /\ gpu'.at = gpu.at /\ gpu'.size = gpu.size
            /\ gpu'.picture = gpu.picture
        BY <1>7, <4>1 DEF GpuFields
      <4>3. b.tex = x.tex /\ b.id = a.id /\ b.at = a.at /\ b.size = a.size /\ b.seen = a.seen
        BY <2>5, <3>1 DEF Leads
      <4> QED BY <2>2, <4>2, <4>3
    <3>2. CASE x.op = "vertices"
      <4>1. gpu' = [gpu EXCEPT !.done = @ + 1, !.id = x.id, !.at = x.at, !.size = x.size]
        BY <1>2, <3>2
      <4>2. /\ gpu'.tex = gpu.tex /\ gpu'.id = x.id /\ gpu'.at = x.at /\ gpu'.size = x.size
            /\ gpu'.picture = gpu.picture
        BY <1>7, <4>1 DEF GpuFields
      <4>3. b.tex = a.tex /\ b.id = x.id /\ b.at = x.at /\ b.size = x.size /\ b.seen = a.seen
        BY <2>5, <3>2 DEF Leads
      <4> QED BY <2>2, <4>2, <4>3
    <3>3. CASE x.op = "draw"
      <4>1. gpu' = [gpu EXCEPT !.done = @ + 1, !.picture = Append(@, Drawn(x))]
        BY <1>2, <3>3
      <4>2. /\ gpu'.tex = gpu.tex /\ gpu'.id = gpu.id /\ gpu'.at = gpu.at /\ gpu'.size = gpu.size
            /\ gpu'.picture = Append(gpu.picture, Drawn(x))
        BY <1>7, <4>1 DEF GpuFields
      <4>3. PICK p \in Shown(e.frame) :
              /\ b.tex = a.tex /\ b.id = a.id /\ b.at = a.at /\ b.size = a.size
              /\ a.seen = Earlier(e.frame, p) /\ b.seen = a.seen \cup {p}
              /\ Serves(e.frame, Ids, p, a, x)
        BY <2>5, <3>3 DEF Leads
      <4>4. Holds(e.frame, p[1], vtxBuffer.data, idxBuffer.data) /\ vtxBuffer.ready /\ idxBuffer.ready
        <5>1. PICK i, c : i \in 1..Len(e.frame.lists) /\ p = <<i, c>>
          BY <2>6, ShownIs
        <5> QED BY <2>7, <5>1 DEF Intact
      <4>5. Drawn(x) = Wanted(e.frame, p)
        BY <2>2, <2>6, <4>3, <4>4, DrawnIsWanted
      <4>6. Pictured(Append(gpu.picture, Wanted(e.frame, p)), e.frame, Earlier(e.frame, p) \cup {p})
        BY <2>2, <2>6, <4>3, PictureGrows
      <4> QED BY <2>2, <4>2, <4>3, <4>5, <4>6
    <3> QED BY <1>2, <3>1, <3>2, <3>3
  <2>9. OnRoute(e, Ids, st, gpu')
    BY <1>8, <2>2, <2>4, <2>8 DEF OnRoute, b
  <2> QED BY <2>9
<1>10. GpuInv'
  <2>1. queue' = queue /\ Head(queue') = e
    BY <1>1
  <2> HIDE DEF e
  <2> QED BY <1>1, <1>4, <1>8, <1>9, <2>1 DEF GpuInv
<1>11. BehindInv'
  BY <1>1, <1>6, <1>10 DEF DrawnInv, BehindInv
<1> QED BY <1>3, <1>5, <1>11 DEF DrawnInv

LEMMA CompleteDrawn ==
  ASSUME DrawnInv, Complete
  PROVE  DrawnInv'
<1> DEFINE e == Head(queue)
<1>1. /\ queue # <<>> /\ gpu.done = Len(e.commands)
      /\ screen' = [frame |-> e.frame, touched |-> e.touched,
                    picture |-> IF backend = "ready" THEN gpu.picture ELSE Junk]
      /\ queue' = Tail(queue) /\ gpu' = NoGpu
      /\ UNCHANGED <<backend, vtxBuffer, idxBuffer, draw>>
  BY DEF Complete
<1>2. SoundInv' /\ Submitted(queue) /\ Submitted(queue')
  BY CompleteSound DEF DrawnInv, SoundInv
<1>3. Ids' = Ids
  BY <1>1 DEF Ids
<1>4. RecordInv' /\ InUseInv'
  BY <1>1, <1>3 DEF DrawnInv, RecordInv, InUseInv, List
<1>5. /\ Len(queue) \in Nat /\ Len(queue') = Len(queue) - 1
      /\ \A k \in 1..Len(queue') : queue'[k] = queue[k + 1] /\ k + 1 \in 1..Len(queue)
      /\ queue' # <<>> => 1 \in 1..Len(queue') /\ Head(queue') = queue'[1]
  <2>1. PICK S : queue \in Seq(S)
    BY <1>2 DEF Submitted
  <2>2. queue' # <<>> => 1 \in 1..Len(queue') /\ Head(queue') = queue'[1]
    BY <1>2, QueueIs
  <2>3. Len(queue) \in Nat /\ Len(queue') = Len(queue) - 1
    BY <1>1, <2>1
  <2>4. ASSUME NEW k \in 1..Len(queue') PROVE queue'[k] = queue[k + 1] /\ k + 1 \in 1..Len(queue)
    BY <1>1, <2>1, <2>3
  <2> QED BY <2>2, <2>3, <2>4
<1>6. QueueInv'
  <2> SUFFICES ASSUME NEW k \in 1..Len(queue'), ~queue'[k].touched
               PROVE  Intact(queue'[k], vtxBuffer, idxBuffer)
    BY <1>1 DEF QueueInv
  <2> QED BY <1>5 DEF DrawnInv, BehindInv, QueueInv
<1>7. GpuInv'
  <2>1. ASSUME queue' # <<>>, ~Head(queue').touched PROVE \E st : OnRoute(Head(queue'), Ids, st, NoGpu)
    <3>1. Intact(Head(queue'), vtxBuffer, idxBuffer)
      BY <1>1, <1>5, <1>6, <2>1 DEF QueueInv
    <3> QED BY <3>1, GpuStarts DEF Ids
  <2> QED BY <1>1, <1>3, <2>1, NoGpuIs DEF GpuInv
<1>8. DrawsFrame'
  <2>1. screen'.frame = e.frame /\ screen'.touched = e.touched /\ screen'.picture = gpu.picture
    BY <1>1 DEF DrawnInv, InUseInv
  <2> SUFFICES ASSUME ~e.touched PROVE Shows(gpu.picture, e.frame)
    BY <2>1 DEF DrawsFrame
  <2>2. PICK st : OnRoute(e, Ids, st, gpu)
    BY <1>1 DEF DrawnInv, BehindInv, GpuInv
  <2>3. Pictured(gpu.picture, e.frame, Shown(e.frame))
    BY <1>1, <2>2 DEF OnRoute
  <2> QED BY <2>3 DEF Pictured, Shows
<1>9. BehindInv'
  BY <1>1, <1>6, <1>7, <1>8 DEF DrawnInv, BehindInv
<1> QED BY <1>2, <1>4, <1>9 DEF DrawnInv

LEMMA DrawnIsKept == DrawnInv /\ [Next]_vars => DrawnInv'
<1> SUFFICES ASSUME DrawnInv, [Next]_vars PROVE DrawnInv'
  OBVIOUS
<1>1. SoundInv'
  BY SoundIsKept DEF DrawnInv
<1>2. CASE InitBackend
  <2>1. /\ backend = "new"
        /\ UNCHANGED <<vtxBuffer, idxBuffer, draw, queue, gpu, screen>>
    BY <1>2 DEF InitBackend
  <2>2. BehindInv'
    BY <2>1, BehindStays DEF DrawnInv
  <2>3. Ids' = Ids
    BY <2>1 DEF Ids
  <2>4. RecordInv' /\ InUseInv'
    BY <2>1, <2>3 DEF DrawnInv, RecordInv, InUseInv, List
  <2> QED BY <1>1, <2>2, <2>4 DEF DrawnInv
<1>3. CASE Finished \/ UNCHANGED vars
  <2>1. UNCHANGED <<backend, vtxBuffer, idxBuffer, draw, queue, gpu, screen>>
    BY <1>3 DEF Finished, vars
  <2>2. BehindInv'
    BY <2>1, BehindStays DEF DrawnInv
  <2>3. Ids' = Ids
    BY <2>1 DEF Ids
  <2>4. RecordInv' /\ InUseInv'
    BY <2>1, <2>3 DEF DrawnInv, RecordInv, InUseInv, List
  <2> QED BY <1>1, <2>2, <2>4 DEF DrawnInv
<1> QED BY <1>2, <1>3, BeginDrawn, GrowVtxDrawn, GrowIdxDrawn, TestReadyDrawn, RecordListDrawn,
           RecordCommandDrawn, NextListDrawn, SubmitDrawn, ExecuteDrawn, CompleteDrawn
        DEF Next

(* Whatever frames ImGui gives, of however many lists and commands, however*)
(* far behind the GPU is and whatever the driver refused: what it has      *)
(* drawn of a frame whose memory nothing touched meanwhile is every visible*)
(* command, in ImGui's order, with its own texture and the vertices that   *)
(* its indices name in its own list (renderDrawData).                      *)
THEOREM FrameIsDrawn == Spec => []DrawsFrame
<1>1. DrawnInv => DrawsFrame
  BY DEF DrawnInv, BehindInv
<1> QED BY <1>1, DrawnStarts, DrawnIsKept, PTL DEF Spec
=============================================================================
