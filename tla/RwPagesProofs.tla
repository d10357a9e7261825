---------------------------- MODULE RwPagesProofs ----------------------------
(* Theorems about RwPages, for every number of threads, objects and pages. *)
EXTENDS RwPages, FiniteSetTheorems, TLAPS

USE DEF Unmapped, NewNode, LinkedBack, UndoFrom, MovedClaims

(* Sizes are aligned to a whole number of pages, at least one but for 0.   *)
LEMMA AlignUpType ==
  ASSUME NEW n \in Nat
  PROVE  /\ AlignUp(n) \in Nat
         /\ n > 0 => AlignUp(n) > 0
         /\ n = 0 => AlignUp(n) = 0
<1> DEFINE w == PageSize
<1>1. w \in Nat /\ w > 0
  BY SizeAssumption
<1> HIDE DEF w
<1>2. (n + w - 1) \div w \in Nat
  BY <1>1, Z3
<1>3. n > 0 => (n + w - 1) \div w > 0
  BY <1>1, Z3
<1>4. n = 0 => (n + w - 1) \div w = 0
  BY <1>1, Z3
<1> QED BY <1>2, <1>3, <1>4 DEF AlignUp, w

(* The pages of a claim, whatever the fields that do not matter to them.   *)
LEMMA PagesType ==
  ASSUME NEW c, c.size \in Nat
  PROVE  Pages(c) \in Nat
  BY AlignUpType DEF Pages

(* A round of ForEachMemRange goes forward and stays within the claim.     *)
LEMMA RangeStopType ==
  ASSUME NEW c, c.page \in Nat, c.size \in Nat, c.page + Pages(c) <= RoPages,
         NEW k \in Nat, k < Pages(c)
  PROVE  RangeStop(c, k) \in Nat /\ k < RangeStop(c, k) /\ RangeStop(c, k) <= Pages(c)
<1>1. Pages(c) \in Nat
  BY PagesType
<1>2. c.page + k \in 0..RoPages-1
  BY <1>1, SizeAssumption
<1>3. RangeEnd[c.page + k] \in Nat /\ RangeEnd[c.page + k] > c.page + k
  BY <1>2, RangeAssumption
<1> QED BY <1>1, <1>3 DEF RangeStop

Claims == [phase: {"none", "ctor", "live", "dtor"}, page: Nat, off: Nat, size: Nat, rw: Nat,
           rv: Nodes \cup {Null}, owner: BOOLEAN]
Ops    == [pc: PCs, obj: Objs \cup {Null}, at: Nat, tries: Nat]
ListNodes == [used: BOOLEAN, next: Nodes \cup {Null}, prev: Nodes \cup {Null},
              start: Nat, stop: Nat]

(* One field replaced in the claim of an object.                           *)
LEMMA ClaimUpdate ==
  ASSUME NEW f \in [Objs -> Claims], NEW o \in Objs, NEW n \in Nat,
         NEW ph \in {"none", "ctor", "live", "dtor"}
  PROVE  /\ [f EXCEPT ![o].rw = n] \in [Objs -> Claims]
         /\ [f EXCEPT ![o].phase = ph] \in [Objs -> Claims]
  BY DEF Claims

(* A thread moved to another place of its operation.                       *)
LEMMA OpUpdate ==
  ASSUME NEW f \in [Threads -> Ops], NEW t \in Threads, NEW pc \in PCs, NEW n \in Nat
  PROVE  /\ [f EXCEPT ![t].pc = pc] \in [Threads -> Ops]
         /\ [f EXCEPT ![t].at = n, ![t].pc = pc] \in [Threads -> Ops]
         /\ [f EXCEPT ![t].tries = n] \in [Threads -> Ops]
  BY DEF Ops

(* The inductive invariant: the types, and which object holds which page.  *)
IInv == TypeOK /\ AliasInv /\ UnmapNeverRefused

(* The object a thread is at has a claim of known type and bounds.         *)
LEMMA MineType ==
  ASSUME TypeOK, OneOperation, InBounds, NEW t \in Threads, op[t].pc # "idle"
  PROVE  /\ op[t].obj \in Objs /\ Mine(t) \in Claims /\ Pages(Mine(t)) \in Nat
         /\ Mine(t).page + Pages(Mine(t)) <= RoPages
         /\ op[t] \in Ops /\ Mine(t).owner
         /\ op[t].pc # "unmap" => Pages(Mine(t)) > 0
         /\ ~IsEmpty(Mine(t)) => Pages(Mine(t)) > 0
<1>1. /\ op[t].obj \in Objs /\ Mine(t).owner /\ Mine(t).phase # "none"
  BY DEF OneOperation
<1>2. Mine(t) \in Claims /\ op[t] \in Ops
  BY <1>1 DEF TypeOK, Mine, Claims, Ops
<1>3. Pages(Mine(t)) \in Nat
  BY <1>2, PagesType DEF Claims
<1>4. op[t].pc # "unmap" => ~IsEmpty(Mine(t))
  BY DEF OneOperation
<1>5. ~IsEmpty(Mine(t)) => Pages(Mine(t)) > 0
  BY <1>3 DEF IsEmpty
<1>6. Mine(t).page + Pages(Mine(t)) <= RoPages
  BY <1>1 DEF InBounds, Mine
<1> QED BY <1>1, <1>2, <1>3, <1>4, <1>5, <1>6

(* The two claims that are empty.                                          *)
LEMMA EmptyClaims ==
  /\ NoClaim \in Claims /\ NoClaim.phase = "none" /\ NoClaim.rv = Null /\ Pages(NoClaim) = 0
  /\ Emptied \in Claims /\ Emptied.phase = "live" /\ Emptied.rv = Null /\ Pages(Emptied) = 0
  /\ ~Emptied.owner /\ Emptied.page = 0 /\ Emptied.rw = 0
<1>1. AlignUp(0) = 0
  BY AlignUpType
<1> QED BY <1>1 DEF NoClaim, Emptied, Claims, Pages

(* The initial states.                                                     *)
LEMMA InitIInv == Init => IInv
<1> SUFFICES ASSUME Init PROVE IInv
  OBVIOUS
<1>1. TypeOK
  BY SizeAssumption DEF Init, TypeOK, NoClaim, NoNode, Idle, PCs, Showing
<1>2. OneOperation /\ InBounds
  BY EmptyClaims DEF Init, OneOperation, InBounds, IsEmpty, NoClaim, Idle
<1>3. HoldsExact
  BY DEF Init, HoldsExact, Holds, NoClaim, Idle
<1> QED BY <1>1, <1>2, <1>3 DEF Init, IInv, AliasInv, UnmapNeverRefused

(* A move to another object: its claim is the other's from now on, and     *)
(* empty itself.                                                           *)
LEMMA MoveEffect ==
  ASSUME TypeOK, NEW t \in Threads, NEW o \in Objs, NEW p \in Objs, o # p,
         MoveConstruct(t, o, p) \/ MoveAssign(t, o, p)
  PROVE  /\ op[t].pc = "idle" /\ outcome = "none"
         /\ frame' = frame /\ node' = node /\ head' = head /\ op' = op /\ outcome' = outcome
         /\ claim[o].phase = "live" /\ claim[p].phase \in {"none", "live"}
         /\ claim' \in [Objs -> Claims] /\ claim'[o] = Emptied
         /\ claim'[p].phase = "live" /\ claim'[p].page = claim[o].page
         /\ claim'[p].off = claim[o].off /\ claim'[p].size = claim[o].size
         /\ claim'[p].rw = claim[o].rw /\ claim'[p].rv = claim[o].rv
         /\ claim'[p].owner = IF claim[p].phase = "none" THEN claim[o].owner ELSE claim[p].owner
         /\ Pages(claim'[p]) = Pages(claim[o])
         /\ \A x \in Objs \ {o, p} : claim'[x] = claim[x]
<1> DEFINE mc == [claim[o] EXCEPT !.owner = claim[p].owner]
<1>0. claim \in [Objs -> Claims] /\ Emptied \in Claims
  BY EmptyClaims DEF TypeOK, Claims
<1>1. /\ op[t].pc = "idle" /\ outcome = "none"
      /\ frame' = frame /\ node' = node /\ head' = head /\ op' = op /\ outcome' = outcome
      /\ claim[o].phase = "live" /\ claim[p].phase \in {"none", "live"}
  BY DEF MoveConstruct, MoveAssign, At
<1>2. \/ claim' = [claim EXCEPT ![p] = claim[o], ![o] = Emptied] /\ claim[p].phase = "none"
      \/ claim' = [claim EXCEPT ![p] = mc, ![o] = Emptied] /\ claim[p].phase = "live"
  BY DEF MoveConstruct, MoveAssign, AssignedClaims
<1>3. /\ mc \in Claims /\ mc.phase = claim[o].phase /\ mc.page = claim[o].page
      /\ mc.off = claim[o].off /\ mc.size = claim[o].size
      /\ mc.rw = claim[o].rw /\ mc.rv = claim[o].rv /\ mc.owner = claim[p].owner
  BY <1>0 DEF Claims
<1>4. claim[o] \in Claims
  BY <1>0
<1> HIDE DEF mc, Emptied
<1>5. ASSUME NEW c \in Claims, claim' = [claim EXCEPT ![p] = c, ![o] = Emptied]
      PROVE  /\ claim' \in [Objs -> Claims] /\ claim'[o] = Emptied /\ claim'[p] = c
             /\ \A x \in Objs \ {o, p} : claim'[x] = claim[x]
  BY <1>0, <1>5
<1>6. \/ claim'[p] = claim[o] /\ claim[p].phase = "none"
      \/ claim'[p] = mc /\ claim[p].phase = "live"
  BY <1>2, <1>3, <1>4, <1>5
<1>7. /\ claim' \in [Objs -> Claims] /\ claim'[o] = Emptied
      /\ \A x \in Objs \ {o, p} : claim'[x] = claim[x]
  BY <1>2, <1>3, <1>4, <1>5
<1> QED BY <1>1, <1>3, <1>6, <1>7 DEF Pages

(* An assignment to itself: the object owns its claim no more.             *)
LEMMA SelfMoveEffect ==
  ASSUME TypeOK, NEW t \in Threads, NEW o \in Objs, MoveAssign(t, o, o)
  PROVE  /\ op[t].pc = "idle" /\ outcome = "none"
         /\ frame' = frame /\ node' = node /\ head' = head /\ op' = op /\ outcome' = outcome
         /\ orphans' = orphans /\ claim[o].phase = "live" /\ claim' \in [Objs -> Claims]
         /\ ~claim'[o].owner /\ \A x \in Objs \ {o} : claim'[x] = claim[x]
         /\ \A x \in Objs : /\ claim'[x].phase = claim[x].phase /\ claim'[x].page = claim[x].page
                             /\ claim'[x].off = claim[x].off /\ claim'[x].size = claim[x].size
                             /\ claim'[x].rw = claim[x].rw /\ claim'[x].rv = claim[x].rv
                             /\ Pages(claim'[x]) = Pages(claim[x])
<1>0. claim \in [Objs -> Claims]
  BY DEF TypeOK, Claims
<1> DEFINE mc == [claim[o] EXCEPT !.owner = FALSE]
<1>1. claim' = [claim EXCEPT ![o] = mc]
  BY DEF MoveAssign
<1>2. /\ mc.phase = claim[o].phase /\ mc.page = claim[o].page
      /\ mc.off = claim[o].off /\ mc.size = claim[o].size
      /\ mc.rw = claim[o].rw /\ mc.rv = claim[o].rv /\ mc.owner = FALSE
  BY <1>0 DEF Claims
<1>3. mc \in Claims
  BY <1>0 DEF Claims
<1> HIDE DEF mc
<1>4. /\ claim' \in [Objs -> Claims] /\ claim'[o] = mc
      /\ \A x \in Objs \ {o} : claim'[x] = claim[x]
  BY <1>0, <1>1, <1>3
<1>5. \A x \in Objs : /\ claim'[x].phase = claim[x].phase /\ claim'[x].page = claim[x].page
                      /\ claim'[x].off = claim[x].off /\ claim'[x].size = claim[x].size
                      /\ claim'[x].rw = claim[x].rw /\ claim'[x].rv = claim[x].rv
                      /\ Pages(claim'[x]) = Pages(claim[x])
  BY <1>2, <1>4 DEF Pages
<1> QED BY <1>2, <1>4, <1>5 DEF MoveAssign, At

(* A round over an empty claim is refused.                                 *)
LEMMA UnmapRefused ==
  ASSUME TypeOK, OneOperation, InBounds, NEW t \in Threads, UnmapRange(t)
  PROVE  \/ ~IsEmpty(Mine(t)) /\ op[t].at < Pages(Mine(t))
         \/ /\ IsEmpty(Mine(t)) /\ op[t].pc = "unmap" /\ outcome' = "unmapRefused"
            /\ UNCHANGED <<frame, node, head, claim, op, raced, orphans>>
<1> USE DEF At
<1>1. /\ op[t].pc = "unmap" /\ op[t].obj \in Objs /\ Mine(t) = claim[op[t].obj]
      /\ Mine(t).phase = "dtor" /\ (op[t].at = 0 \/ op[t].at < Pages(Mine(t)))
  BY DEF UnmapRange, OneOperation, Mine
<1>2. Mine(t) \in Claims /\ op[t].at \in Nat /\ Pages(Mine(t)) \in Nat
  BY <1>1, PagesType DEF TypeOK, Claims
<1>3. CASE ~IsEmpty(Mine(t))
  BY <1>1, <1>2, <1>3 DEF IsEmpty
<1>4. CASE IsEmpty(Mine(t))
  <2> DEFINE c == Mine(t)
  <2>1. c.page \in 0..RoPages-1 /\ op[t].at = 0 /\ Pages(c) = 0
    BY <1>1, <1>2, <1>4, SizeAssumption DEF InBounds, IsEmpty, Claims
  <2>2. RangeEnd[c.page] \in Nat /\ RangeEnd[c.page] > c.page
    BY <2>1, RangeAssumption
  <2>3. RangeStop(c, op[t].at) = 0
    <3>1. c.page + 0 = c.page /\ c.page \in Nat
      BY <2>1, SizeAssumption
    <3> QED BY <2>1, <2>2, <3>1 DEF RangeStop
  <2>4. c.rw + op[t].at .. c.rw + RangeStop(c, op[t].at) - 1 = {}
    BY <1>2, <2>1, <2>3 DEF Claims
  <2> QED BY <1>1, <1>4, <2>4 DEF UnmapRange
<1> QED BY <1>3, <1>4

(* Every step keeps the types.                                             *)
LEMMA TypeStep ==
  ASSUME TypeOK, OneOperation, InBounds, [Next]_vars
  PROVE  TypeOK'
<1> USE DEF TypeOK, At
<1>1. CASE UNCHANGED vars
  BY <1>1 DEF vars
<1>2. ASSUME NEW t \in Threads, NEW o \in Objs, NEW q \in Requests, Construct(t, o, q)
      PROVE  TypeOK'
  <2>1. q.page \in Nat /\ q.off \in Nat /\ q.size \in Nat
    BY RequestAssumption, SizeAssumption
  <2> QED BY <1>2, <2>1 DEF Construct, NoClaim, PCs
<1>3. ASSUME NEW t \in Threads, NEW p \in Slots, FindUnmapped(t, p) PROVE TypeOK'
  <2>1. op[t].obj \in Objs
    BY <1>3 DEF FindUnmapped, OneOperation
  <2>2. claim' \in [Objs -> Claims]
    <3>1. claim \in [Objs -> Claims] /\ p \in Nat
      BY DEF Claims, Slots
    <3>2. claim' = claim \/ claim' = [claim EXCEPT ![op[t].obj].rw = p]
      BY <1>3 DEF FindUnmapped
    <3>3. [claim EXCEPT ![op[t].obj].rw = p] \in [Objs -> Claims]
      BY ONLY <2>1, <3>1, ClaimUpdate
    <3> QED BY <3>1, <3>2, <3>3
  <2>3. op[t].tries + 1 \in Nat /\ op[t].pc = "find"
    <3>1. op[t].pc = "find"
      BY <1>3 DEF FindUnmapped
    <3>2. op[t] \in Ops
      BY <3>1, MineType
    <3> QED BY <3>1, <3>2 DEF Ops
  <2>4. op' \in [Threads -> Ops]
    <3>1. op \in [Threads -> Ops]
      BY DEF Ops
    <3>2. op' = [op EXCEPT ![t].pc = "reserved"] \/ op' = [op EXCEPT ![t].tries = op[t].tries + 1]
      BY <1>3, <3>1 DEF FindUnmapped, Goto
    <3>3. /\ [op EXCEPT ![t].pc = "reserved"] \in [Threads -> Ops]
          /\ [op EXCEPT ![t].tries = op[t].tries + 1] \in [Threads -> Ops]
      BY ONLY <2>3, <3>1, <1>3, OpUpdate, ZenonT(60) DEF PCs
    <3> QED BY <3>2, <3>3
  <2> QED BY <1>3, <2>2, <2>4 DEF FindUnmapped, Claims, Ops
<1>4. ASSUME NEW t \in Threads, FindUnreserved(t) \/ FindFails(t) PROVE TypeOK'
  BY <1>4, SMTT(60) DEF FindUnreserved, FindFails, Goto, PCs
<1>5. ASSUME NEW t \in Threads, NEW n \in Nodes, AddNode(t, n) PROVE TypeOK'
  <2>1. op[t].obj \in Objs /\ Mine(t) \in Claims /\ Pages(Mine(t)) \in Nat
    BY <1>5, MineType DEF AddNode
  <2>2. node' \in [Nodes -> ListNodes]
    BY <1>5, <2>1 DEF AddNode, Claims, ListNodes
  <2>3. claim' \in [Objs -> Claims]
    BY <1>5, <2>1, SMTT(60) DEF AddNode, Claims
  <2> QED BY <1>5, <2>2, <2>3, SMTT(60) DEF AddNode, Goto, PCs, Claims, ListNodes
<1>6. ASSUME NEW t \in Threads, AddFails(t) \/ Push(t) PROVE TypeOK'
  <2>1. CASE AddFails(t)
    BY <2>1 DEF AddFails
  <2>2. CASE Push(t)
    <3>1. head' \in Nodes
      BY <2>2 DEF Push, OneOperation, Mine
    <3>2. op' \in [Threads -> Ops]
      BY <2>2, ZenonT(60) DEF Push, Goto, PCs, Ops
    <3> QED BY <2>2, <3>1, <3>2 DEF Push, Ops
  <2> QED BY <1>6, <2>1, <2>2
<1>7. ASSUME NEW t \in Threads, LinkBack(t) PROVE TypeOK'
  <2>1. Mine(t).rv \in Nodes
    BY <1>7 DEF LinkBack, OneOperation
  <2>2. node' \in [Nodes -> ListNodes]
    <3> DEFINE nx == node[Mine(t).rv].next
    <3>1. node \in [Nodes -> ListNodes]
      BY DEF ListNodes
    <3>2. node' = node \/ node' = [node EXCEPT ![nx].prev = Mine(t).rv]
      BY <1>7 DEF LinkBack
    <3> HIDE DEF nx
    <3>3. [node EXCEPT ![nx].prev = Mine(t).rv] \in [Nodes -> ListNodes]
      BY <2>1, <3>1, ZenonT(60) DEF ListNodes
    <3> QED BY <3>1, <3>2, <3>3
  <2>3. op' \in [Threads -> Ops]
    BY <1>7, OpUpdate, ZenonT(60) DEF LinkBack, Goto, PCs, Ops
  <2> QED BY <1>7, <2>2, <2>3 DEF LinkBack, ListNodes, Ops
<1>8. ASSUME NEW t \in Threads, MapRange(t) PROVE TypeOK'
  <2>1. /\ Mine(t) \in Claims /\ Pages(Mine(t)) \in Nat /\ op[t].at \in Nat
        /\ Mine(t).page + Pages(Mine(t)) <= RoPages /\ op[t].at < Pages(Mine(t))
    <3>1. op[t].pc = "map" /\ (op[t].at = 0 \/ op[t].at < Pages(Mine(t)))
      BY <1>8 DEF MapRange, OneOperation
    <3> QED BY <3>1, MineType DEF Ops
  <2> DEFINE stop == RangeStop(Mine(t), op[t].at)
             c == Mine(t)
  <2>2. stop \in Nat /\ stop <= Pages(c)
    BY <2>1, RangeStopType DEF Claims
  <2>3. \A p \in c.rw + op[t].at .. c.rw + stop - 1 : c.page + (p - c.rw) \in 0..RoPages-1
    BY <2>1, <2>2, SizeAssumption DEF Claims
  <2>4. frame' \in [Slots -> Showing]
    BY <1>8, <2>3 DEF MapRange, Showing
  <2>5. op' \in [Threads -> Ops]
    <3>1. op \in [Threads -> Ops]
      BY DEF Ops
    <3>2. \/ op' = op
          \/ op' = [op EXCEPT ![t].at = stop, ![t].pc = IF stop = Pages(c) THEN "check" ELSE "map"]
      BY <1>8 DEF MapRange
    <3> HIDE DEF stop, c
    <3>3. [op EXCEPT ![t].at = stop, ![t].pc = IF stop = Pages(c) THEN "check" ELSE "map"]
            \in [Threads -> Ops]
      BY ONLY <2>2, <3>1, <1>8, OpUpdate, ZenonT(60) DEF PCs
    <3> QED BY <3>1, <3>2, <3>3
  <2> QED BY <1>8, <2>4, <2>5 DEF MapRange, Ops
<1>9. ASSUME NEW t \in Threads, Compare(t) PROVE TypeOK'
  <2>1. op[t].obj \in Objs
    BY <1>9 DEF Compare, OneOperation
  <2>2. claim' \in [Objs -> Claims]
    <3>1. claim \in [Objs -> Claims]
      BY DEF Claims
    <3>2. claim' = claim \/ claim' = [claim EXCEPT ![op[t].obj].phase = "live"]
      BY <1>9 DEF Compare
    <3>3. [claim EXCEPT ![op[t].obj].phase = "live"] \in [Objs -> Claims]
      BY ONLY <2>1, <3>1, ClaimUpdate
    <3> QED BY <3>1, <3>2, <3>3
  <2> QED BY <1>9, <2>2 DEF Compare, Return, Idle, PCs, Claims
<1>10. ASSUME NEW t \in Threads, NEW o \in Objs, Destroy(t, o) PROVE TypeOK'
  <2>1. claim' \in [Objs -> Claims]
    <3>1. claim \in [Objs -> Claims] /\ NoClaim \in Claims
      BY DEF Claims, NoClaim
    <3>2. [claim EXCEPT ![o].phase = "dtor"] \in [Objs -> Claims]
      BY ONLY <1>10, <3>1, ClaimUpdate
    <3> QED BY <1>10, <3>1, <3>2 DEF Destroy
  <2>2. op' \in [Threads -> Ops]
    BY <1>10 DEF Destroy, PCs, Ops
  <2>3. orphans' \subseteq Nodes
    BY <1>10 DEF Destroy, Reserved
  <2> QED BY <1>10, <2>1, <2>2, <2>3 DEF Destroy, Claims, Ops
<1>11. ASSUME NEW t \in Threads, UnmapRange(t) PROVE TypeOK'
  <2>1. CASE ~IsEmpty(Mine(t)) /\ op[t].at < Pages(Mine(t))
    <3>1. op[t].pc # "idle"
      BY <1>11 DEF UnmapRange
    <3>2. /\ Mine(t) \in Claims /\ op[t].at \in Nat
          /\ Mine(t).page + Pages(Mine(t)) <= RoPages
      BY <3>1, MineType DEF Ops
    <3>3. RangeStop(Mine(t), op[t].at) \in Nat
      BY <2>1, <3>2, RangeStopType DEF Claims
    <3>4. frame' \in [Slots -> Showing]
      BY <1>11 DEF UnmapRange, Showing
    <3>5. op' \in [Threads -> Ops]
      <4> DEFINE stop == RangeStop(Mine(t), op[t].at)
      <4>1. op \in [Threads -> Ops] /\ stop \in Nat
        BY <3>3 DEF Ops
      <4>2. \/ op' = op
            \/ op' = [op EXCEPT ![t].at = stop,
                         ![t].pc = IF stop = Pages(Mine(t)) THEN "unlink" ELSE "unmap"]
        BY <1>11 DEF UnmapRange
      <4> HIDE DEF stop
      <4>3. [op EXCEPT ![t].at = stop, ![t].pc = IF stop = Pages(Mine(t)) THEN "unlink" ELSE "unmap"]
              \in [Threads -> Ops]
        BY ONLY <4>1, <1>11, OpUpdate, ZenonT(60) DEF PCs
      <4> QED BY <4>1, <4>2, <4>3
    <3> QED BY <1>11, <3>4, <3>5 DEF UnmapRange, Ops
  <2>2. CASE outcome' = "unmapRefused" /\ UNCHANGED <<frame, node, head, claim, op, raced, orphans>>
    BY <2>2
  <2> QED BY <1>11, <2>1, <2>2, UnmapRefused
<1>12. ASSUME NEW t \in Threads, UnlinkNext(t) \/ UnlinkPrev(t) PROVE TypeOK'
  <2>1. Mine(t).rv \in Nodes /\ op[t].obj \in Objs
    BY <1>12 DEF UnlinkNext, UnlinkPrev, OneOperation
  <2>2. CASE UnlinkNext(t)
    BY <2>1, <2>2, SMTT(60) DEF UnlinkNext, Goto, PCs
  <2>3. CASE UnlinkPrev(t)
    <3>1. node' \in [Nodes -> ListNodes]
      BY <2>1, <2>3 DEF UnlinkPrev, NoNode, ListNodes
    <3> QED BY <2>1, <2>3, <3>1 DEF UnlinkPrev, Return, Idle, NoClaim, PCs, ListNodes
  <2> QED BY <1>12, <2>2, <2>3
<1>13. ASSUME NEW t \in Threads, NEW o \in Objs, NEW p \in Objs,
              MoveConstruct(t, o, p) \/ MoveAssign(t, o, p)
       PROVE  TypeOK'
  <2>1. claim' \in [Objs -> Claims]
    BY <1>13, MoveEffect, SelfMoveEffect DEF MoveConstruct
  <2>2. orphans' \subseteq Nodes
    BY <1>13 DEF MoveConstruct, MoveAssign, Reserved
  <2> QED BY <1>13, <2>1, <2>2 DEF MoveConstruct, MoveAssign, Claims
<1>15. ASSUME NEW p \in Slots, GameMaps(p) \/ GameUnmaps(p) PROVE TypeOK'
  BY <1>15 DEF GameMaps, GameUnmaps, Showing
<1>16. CASE Aborted
  BY <1>16 DEF Aborted, vars
<1> QED
  BY <1>1, <1>2, <1>3, <1>4, <1>5, <1>6, <1>7, <1>8, <1>9, <1>10, <1>11, <1>12, <1>13,
     <1>15, <1>16 DEF Next, Step

-----------------------------------------------------------------------------
(* Every step keeps each object in one operation, and claims in bounds.    *)
LEMMA OperationStep ==
  ASSUME TypeOK, TypeOK', OneOperation, InBounds, [Next]_vars
  PROVE  OneOperation' /\ InBounds'
<1> USE DEF OneOperation, InBounds, At, Mine, IsEmpty
<1>0. /\ claim \in [Objs -> Claims] /\ op \in [Threads -> Ops]
      /\ claim' \in [Objs -> Claims] /\ op' \in [Threads -> Ops]
  BY DEF TypeOK, Claims, Ops
<1>1. CASE UNCHANGED vars
  BY <1>1 DEF vars, Pages
<1>2. ASSUME NEW t \in Threads, NEW o \in Objs, NEW q \in Requests, Construct(t, o, q)
      PROVE  OneOperation' /\ InBounds'
  <2>1. /\ AlignUp(q.size) \in Nat /\ AlignUp(q.size) > 0
        /\ q.page + AlignUp(q.size) <= RoPages
    BY RequestAssumption, AlignUpType DEF AlignUp
  <2>2. /\ claim'[o].phase = "ctor" /\ claim'[o].owner /\ claim'[o].page = q.page
        /\ claim'[o].size = q.size /\ claim'[o].page \in Nat
        /\ AlignUp(claim'[o].size) = AlignUp(q.size)
    BY <1>0, <1>2, RequestAssumption DEF Construct, NoClaim
  <2>3. op'[t].obj = o /\ op'[t].pc = "find" /\ op'[t].at = 0
    BY <1>0, <1>2 DEF Construct
  <2>4. \A u \in Threads \ {t} : op'[u] = op[u] /\ (op[u].pc # "idle" => op[u].obj # o)
    BY <1>0, <1>2 DEF Construct
  <2>5. \A x \in Objs \ {o} : claim'[x] = claim[x]
    BY <1>0, <1>2 DEF Construct
  <2>6. OneOperation'
    BY <2>1, <2>2, <2>3, <2>4, <2>5 DEF Pages
  <2>8. q.page < RoPages /\ RoPages \in Nat
    BY <2>1, RequestAssumption, SizeAssumption
  <2>7. InBounds'
    BY <2>1, <2>2, <2>3, <2>4, <2>5, <2>8, SMTT(30) DEF Pages
  <2> QED BY <2>6, <2>7
<1>3. ASSUME NEW t \in Threads, NEW p \in Slots, FindUnmapped(t, p)
      PROVE  OneOperation' /\ InBounds'
  <2>1. op[t].pc = "find" /\ op[t].obj \in Objs /\ claim[op[t].obj].phase = "ctor"
    BY <1>3 DEF FindUnmapped
  <2>2. CASE claim' = claim
    <3>1. \/ op' = [op EXCEPT ![t].pc = "reserved"]
             /\ p + Pages(claim[op[t].obj]) <= RwPagesMax /\ claim[op[t].obj].rw = p
          \/ op' = [op EXCEPT ![t].tries = op[t].tries + 1]
      <4>1. \/ op' = [op EXCEPT ![t].tries = op[t].tries + 1]
            \/ /\ claim' = [claim EXCEPT ![op[t].obj].rw = p]
               /\ op' = [op EXCEPT ![t].pc = "reserved"]
               /\ p + Pages(claim[op[t].obj]) <= RwPagesMax
        BY <1>3 DEF FindUnmapped, Candidates, Goto
      <4>2. claim' = [claim EXCEPT ![op[t].obj].rw = p] => claim'[op[t].obj].rw = p
        BY <1>0, <2>1 DEF Claims
      <4> QED BY <2>2, <4>1, <4>2
    <3>2. \A u \in Threads : /\ op'[u].obj = op[u].obj /\ op'[u].at = op[u].at
                             /\ u # t => op'[u].pc = op[u].pc
      BY <1>0, <3>1 DEF Ops
    <3>3. \/ op'[t].pc = "find"
          \/ /\ op'[t].pc = "reserved" /\ claim[op[t].obj].rw = p
             /\ p + Pages(claim[op[t].obj]) <= RwPagesMax
      BY <1>0, <2>1, <3>1 DEF Ops
    <3>4. OneOperation'
      BY <2>1, <2>2, <3>2, <3>3 DEF Pages
    <3>5. InBounds'
      BY <2>1, <2>2, <3>2, <3>3 DEF Pages
    <3> QED BY <3>4, <3>5
  <2>3. CASE claim' # claim
    <3>1. /\ claim' = [claim EXCEPT ![op[t].obj].rw = p]
          /\ op' = [op EXCEPT ![t].pc = "reserved"]
          /\ p + Pages(claim[op[t].obj]) <= RwPagesMax
      BY <1>3, <2>3 DEF FindUnmapped, Goto, Candidates
    <3>2. /\ \A x \in Objs : /\ Pages(claim'[x]) = Pages(claim[x])
                              /\ claim'[x].phase = claim[x].phase
                              /\ claim'[x].owner = claim[x].owner
                              /\ claim'[x].page = claim[x].page
                              /\ claim'[x].rv = claim[x].rv
                              /\ claim'[x].rw = IF x = op[t].obj THEN p ELSE claim[x].rw
      BY <1>0, <2>1, <3>1 DEF Pages, Claims
    <3>3. \A u \in Threads : /\ op'[u].obj = op[u].obj /\ op'[u].at = op[u].at
                             /\ op'[u].pc = IF u = t THEN "reserved" ELSE op[u].pc
      BY <1>0, <3>1 DEF Ops
    <3>4. OneOperation'
      BY <2>1, <3>2, <3>3
    <3>5. InBounds'
      BY <2>1, <3>1, <3>2, <3>3
    <3> QED BY <3>4, <3>5
  <2> QED BY <2>2, <2>3
<1>4. ASSUME NEW t \in Threads,
             FindUnreserved(t) \/ Push(t) \/ LinkBack(t) \/ UnlinkNext(t)
      PROVE  OneOperation' /\ InBounds'
  <2>1. \A u \in Threads \ {t} : op'[u] = op[u]
    BY <1>0, <1>4 DEF FindUnreserved, Push, LinkBack, UnlinkNext, Goto
  <2>2. op'[t].obj = op[t].obj /\ op'[t].at = op[t].at /\ claim' = claim
    <3>1. claim' = claim
      BY <1>4 DEF FindUnreserved, Push, LinkBack, UnlinkNext
    <3>2. \/ \E pc \in PCs : op' = [op EXCEPT ![t].pc = pc]
          \/ op' = [op EXCEPT ![t].pc = "find", ![t].tries = op[t].tries + 1]
      BY <1>4 DEF FindUnreserved, Push, LinkBack, UnlinkNext, Goto, PCs
    <3> QED BY <1>0, <3>1, <3>2 DEF Ops
  <2>3. \/ op[t].pc = "reserved" /\ op'[t].pc \in {"find", "add"}
        \/ op[t].pc = "push" /\ op'[t].pc = "back"
        \/ op[t].pc = "back" /\ op'[t].pc = "map" /\ op[t].at = 0
        \/ op[t].pc = "unlink" /\ op'[t].pc = "free"
    <3>1. CASE FindUnreserved(t)
      <4>1. \/ op' = [op EXCEPT ![t].pc = "find", ![t].tries = op[t].tries + 1]
            \/ op' = [op EXCEPT ![t].pc = "add"]
        BY <3>1 DEF FindUnreserved, Goto
      <4> QED BY <1>0, <3>1, <4>1 DEF FindUnreserved, Ops
    <3>2. CASE Push(t)
      BY <1>0, <3>2 DEF Push, Goto, Ops
    <3>3. CASE LinkBack(t)
      BY <1>0, <3>3 DEF LinkBack, Goto, Ops
    <3>4. CASE UnlinkNext(t)
      BY <1>0, <3>4, ZenonT(60) DEF UnlinkNext, Goto, Ops
    <3> QED BY <1>4, <3>1, <3>2, <3>3, <3>4
  <2>4. OneOperation'
    BY <2>1, <2>2, <2>3 DEF Pages
  <2>5. InBounds'
    BY <2>1, <2>2, <2>3 DEF Pages
  <2> QED BY <2>4, <2>5
<1>5. ASSUME NEW t \in Threads, NEW n \in Nodes, AddNode(t, n)
      PROVE  OneOperation' /\ InBounds'
  <2>1. op[t].pc = "add" /\ op[t].obj \in Objs /\ claim[op[t].obj].phase = "ctor"
    BY <1>5 DEF AddNode
  <2>2. \A x \in Objs : /\ Pages(claim'[x]) = Pages(claim[x])
                        /\ claim'[x].phase = claim[x].phase
                        /\ claim'[x].owner = claim[x].owner
                        /\ claim'[x].page = claim[x].page
                        /\ claim'[x].rw = claim[x].rw
                        /\ claim'[x].rv = IF x = op[t].obj THEN n ELSE claim[x].rv
    BY <1>0, <1>5, <2>1 DEF AddNode, Pages, Claims
  <2>3. \A u \in Threads : /\ op'[u].obj = op[u].obj /\ op'[u].at = op[u].at
                           /\ op'[u].pc = IF u = t THEN "push" ELSE op[u].pc
    BY <1>0, <1>5 DEF AddNode, Goto, Ops
  <2>4. OneOperation'
    BY <2>1, <2>2, <2>3
  <2>5. InBounds'
    BY <2>1, <2>2, <2>3
  <2> QED BY <2>4, <2>5
<1>6. ASSUME NEW t \in Threads, FindFails(t) \/ AddFails(t) PROVE OneOperation' /\ InBounds'
  BY <1>6 DEF FindFails, AddFails, Pages
<1>7. ASSUME NEW t \in Threads, MapRange(t) \/ UnmapRange(t) PROVE OneOperation' /\ InBounds'
  <2> DEFINE stop == RangeStop(Mine(t), op[t].at)
  <2>r. CASE IsEmpty(Mine(t))
    <3>1. op[t].pc # "map"
      BY <2>r
    <3>2. claim' = claim /\ op' = op
      BY <1>7, <2>r, <3>1, UnmapRefused DEF MapRange
    <3> QED BY <3>2 DEF Pages
  <2> SUFFICES ASSUME ~IsEmpty(Mine(t)) PROVE OneOperation' /\ InBounds'
    BY <2>r
  <2>0. op[t].pc \in {"map", "unmap"} /\ op[t].obj \in Objs
    BY <1>7 DEF MapRange, UnmapRange
  <2>1. op[t].pc \in {"map", "unmap"} /\ op[t].obj \in Objs /\ op[t].at < Pages(Mine(t))
    <3>1. Pages(Mine(t)) > 0
      BY <2>0, MineType
    <3> QED BY <2>0, <3>1
  <2>2. stop \in Nat /\ stop <= Pages(Mine(t)) /\ Pages(Mine(t)) \in Nat
    BY <1>0, <2>1, MineType, RangeStopType DEF Claims, Ops
  <2> HIDE DEF stop
  <2>3. claim' = claim
    BY <1>7 DEF MapRange, UnmapRange
  <2>4. \/ op' = op
        \/ op' = [op EXCEPT ![t].at = stop,
                            ![t].pc = IF stop = Pages(Mine(t)) THEN "check" ELSE "map"]
           /\ op[t].pc = "map"
        \/ op' = [op EXCEPT ![t].at = stop,
                            ![t].pc = IF stop = Pages(Mine(t)) THEN "unlink" ELSE "unmap"]
           /\ op[t].pc = "unmap"
    BY <1>7 DEF MapRange, UnmapRange, stop
  <2>5. CASE op' = op
    BY <2>3, <2>5 DEF Pages
  <2>6. CASE op' # op
    <3>1. /\ \A u \in Threads \ {t} : op'[u] = op[u]
          /\ op'[t].obj = op[t].obj /\ op'[t].at = stop
      BY <1>0, <2>4, <2>6 DEF Ops
    <3>2. \/ op[t].pc = "map" /\ op'[t].pc = "check"
          \/ op[t].pc = "map" /\ op'[t].pc = "map" /\ stop < Pages(Mine(t))
          \/ op[t].pc = "unmap" /\ op'[t].pc = "unlink"
          \/ op[t].pc = "unmap" /\ op'[t].pc = "unmap" /\ stop < Pages(Mine(t))
      <4> DEFINE n == Pages(Mine(t))
      <4>1. stop \in Nat /\ n \in Nat /\ stop <= n
        BY <2>2
      <4> HIDE DEF n
      <4>2. ASSUME NEW a, NEW b, op' = [op EXCEPT ![t].at = stop, ![t].pc = IF stop = n THEN a ELSE b]
            PROVE  op'[t].pc = a \/ (op'[t].pc = b /\ stop < n)
        <5>1. op \in [Threads -> [pc : PCs, obj : Objs \cup {Null}, at : Nat, tries : Nat]]
          BY <1>0 DEF Ops
        <5>2. op'[t].pc = IF stop = n THEN a ELSE b
          BY ONLY <4>2, <5>1
        <5> QED BY <4>1, <5>2
      <4> DEFINE Past(a, b) == op' = [op EXCEPT ![t].at = stop, ![t].pc = IF stop = n THEN a ELSE b]
      <4>3. Past("check", "map") => op'[t].pc = "check" \/ (op'[t].pc = "map" /\ stop < n)
        BY <4>2
      <4>4. Past("unlink", "unmap") => op'[t].pc = "unlink" \/ (op'[t].pc = "unmap" /\ stop < n)
        BY <4>2
      <4>5. \/ Past("check", "map") /\ op[t].pc = "map"
            \/ Past("unlink", "unmap") /\ op[t].pc = "unmap"
        BY <2>4, <2>6 DEF n
      <4> HIDE DEF Past
      <4>6. n = Pages(Mine(t))
        BY DEF n
      <4> QED BY <4>3, <4>4, <4>5, <4>6
    <3>3. OneOperation'
      BY <2>1, <2>3, <3>1, <3>2 DEF Pages
    <3>4. InBounds'
      BY <2>1, <2>3, <3>1, <3>2 DEF Pages
    <3> QED BY <3>3, <3>4
  <2> QED BY <2>5, <2>6
<1>8. ASSUME NEW t \in Threads, Compare(t) PROVE OneOperation' /\ InBounds'
  <2>1. op[t].pc = "check" /\ op[t].obj \in Objs /\ claim[op[t].obj].rv \in Nodes
    BY <1>8 DEF Compare
  <2>2. CASE claim' = claim /\ op' = op
    BY <2>2 DEF Pages
  <2>3. CASE claim' = [claim EXCEPT ![op[t].obj].phase = "live"] /\ op' = [op EXCEPT ![t] = Idle]
    <3>1. \A x \in Objs : /\ Pages(claim'[x]) = Pages(claim[x])
                          /\ claim'[x].phase = IF x = op[t].obj THEN "live" ELSE claim[x].phase
                          /\ claim'[x].owner = claim[x].owner
                          /\ claim'[x].page = claim[x].page
                          /\ claim'[x].rv = claim[x].rv
                          /\ claim'[x].rw = claim[x].rw
      BY <1>0, <2>1, <2>3 DEF Pages, Claims
    <3>2. op'[t].pc = "idle" /\ \A u \in Threads \ {t} : op'[u] = op[u]
      BY <1>0, <2>3 DEF Idle
    <3>3. OneOperation'
      BY <2>1, <3>1, <3>2
    <3>4. InBounds'
      BY <2>1, <3>1, <3>2
    <3> QED BY <3>3, <3>4
  <2> QED BY <1>8, <2>2, <2>3 DEF Compare, Return
<1>9. ASSUME NEW t \in Threads, NEW o \in Objs, Destroy(t, o) PROVE OneOperation' /\ InBounds'
  <2>1. op[t].pc = "idle" /\ claim[o].phase = "live"
    BY <1>9 DEF Destroy
  <2>2. \A u \in Threads : op[u].pc # "idle" => op[u].obj # o
    BY <2>1
  <2>3. CASE claim[o].owner
    <3>1. \A x \in Objs : /\ Pages(claim'[x]) = Pages(claim[x])
                          /\ claim'[x].phase = IF x = o THEN "dtor" ELSE claim[x].phase
                          /\ claim'[x].owner = claim[x].owner
                          /\ claim'[x].page = claim[x].page
                          /\ claim'[x].rv = claim[x].rv
                          /\ claim'[x].rw = claim[x].rw
      BY <1>0, <1>9, <2>3 DEF Destroy, Pages, Claims
    <3>2. /\ op'[t].pc = "unmap" /\ op'[t].obj = o /\ op'[t].at = 0
          /\ \A u \in Threads \ {t} : op'[u] = op[u]
      BY <1>0, <1>9, <2>3 DEF Destroy
    <3>3. OneOperation'
      BY <2>1, <2>2, <2>3, <3>1, <3>2
    <3>4. InBounds'
      BY <2>1, <2>2, <2>3, <3>1, <3>2
    <3> QED BY <3>3, <3>4
  <2>4. CASE ~claim[o].owner
    <3>1. op' = op /\ claim'[o] = NoClaim /\ \A x \in Objs \ {o} : claim'[x] = claim[x]
      BY <1>0, <1>9, <2>4 DEF Destroy
    <3>2. /\ claim'[o].phase = "none" /\ claim'[o].rv = Null /\ AlignUp(claim'[o].size) = 0
      BY <3>1, EmptyClaims DEF Pages
    <3>3. OneOperation'
      BY <2>2, <3>1 DEF Pages
    <3>4. InBounds'
      BY <2>2, <3>1, <3>2 DEF Pages
    <3> QED BY <3>3, <3>4
  <2> QED BY <2>3, <2>4
<1>10. ASSUME NEW t \in Threads, UnlinkPrev(t) PROVE OneOperation' /\ InBounds'
  <2>1. op[t].pc = "free" /\ op[t].obj \in Objs
    BY <1>10 DEF UnlinkPrev
  <2>2. /\ claim'[op[t].obj] = NoClaim
        /\ \A x \in Objs \ {op[t].obj} : claim'[x] = claim[x]
        /\ op'[t].pc = "idle" /\ \A u \in Threads \ {t} : op'[u] = op[u]
    BY <1>0, <1>10, <2>1 DEF UnlinkPrev, Return, Idle
  <2>5. /\ claim'[op[t].obj].phase = "none" /\ claim'[op[t].obj].rv = Null
        /\ AlignUp(claim'[op[t].obj].size) = 0
    BY <2>2, EmptyClaims DEF Pages
  <2>3. OneOperation'
    BY <2>1, <2>2 DEF Pages
  <2>4. InBounds'
    BY <2>1, <2>2, <2>5 DEF Pages
  <2> QED BY <2>3, <2>4
<1>11. ASSUME NEW t \in Threads, NEW o \in Objs, NEW p \in Objs,
              MoveConstruct(t, o, p) \/ MoveAssign(t, o, p)
       PROVE  OneOperation' /\ InBounds'
  <2>1. CASE o = p
    <3>1. /\ op[t].pc = "idle" /\ op' = op /\ claim[o].phase = "live"
          /\ \A x \in Objs \ {o} : claim'[x] = claim[x]
          /\ \A x \in Objs : /\ claim'[x].phase = claim[x].phase /\ claim'[x].page = claim[x].page
                              /\ claim'[x].rw = claim[x].rw /\ claim'[x].rv = claim[x].rv
                              /\ Pages(claim'[x]) = Pages(claim[x])
      <4>1. MoveAssign(t, o, o)
        BY <1>11, <2>1 DEF MoveConstruct
      <4> QED BY <4>1, SelfMoveEffect
    <3>2. \A u \in Threads : op[u].pc # "idle" => op[u].obj # o
      BY <3>1
    <3>3. OneOperation'
      BY <3>1, <3>2
    <3>4. InBounds'
      BY <3>1
    <3> QED BY <3>3, <3>4
  <2>2. CASE o # p
    <3>1. /\ op' = op /\ claim[o].phase = "live" /\ claim[p].phase \in {"none", "live"}
          /\ claim'[o] = Emptied /\ claim'[p].phase = "live" /\ claim'[p].page = claim[o].page
          /\ claim'[p].rw = claim[o].rw /\ claim'[p].rv = claim[o].rv
          /\ Pages(claim'[p]) = Pages(claim[o])
          /\ \A x \in Objs \ {o, p} : claim'[x] = claim[x]
      BY <1>11, <2>2, MoveEffect
    <3>2. /\ Emptied.phase = "live" /\ Emptied.rv = Null /\ Pages(Emptied) = 0
          /\ Emptied.page = 0 /\ Emptied.rw = 0
      BY EmptyClaims
    <3>3. \A u \in Threads : op[u].pc # "idle" => op[u].obj # o /\ op[u].obj # p
      BY <3>1
    <3>4. RoPages \in Nat /\ RoPages > 0 /\ RwPagesMax \in Nat
      BY <1>0, <3>1, SizeAssumption DEF Claims
    <3> HIDE DEF Emptied
    <3>5. OneOperation'
      BY <3>1, <3>3 DEF Pages
    <3>6. ASSUME NEW x \in Objs
          PROVE  /\ claim'[x].phase # "none" =>
                      /\ claim'[x].page < RoPages /\ claim'[x].page + Pages(claim'[x]) <= RoPages
                      /\ claim'[x].phase # "ctor" => claim'[x].rw + Pages(claim'[x]) <= RwPagesMax
                 /\ IF Pages(claim'[x]) = 0 THEN claim'[x].rv = Null
                    ELSE claim'[x].phase \in {"live", "dtor"} => claim'[x].rv \in Nodes
      <4>1. CASE x = o
        BY <3>1, <3>2, <3>4, <4>1
      <4>2. CASE x = p
        BY <3>1, <2>2, <4>2
      <4>3. CASE x \notin {o, p}
        BY <3>1, <4>3
      <4> QED BY <4>1, <4>2, <4>3
    <3>7. \A u \in Threads : op'[u].pc \notin {"idle", "find"} =>
             claim'[op'[u].obj].rw + Pages(claim'[op'[u].obj]) <= RwPagesMax
      BY <3>1, <3>3
    <3>8. InBounds'
      BY ONLY <3>6, <3>7 DEF InBounds, IsEmpty, Mine
    <3> QED BY <3>5, <3>8
  <2> QED BY <2>1, <2>2
<1>12. ASSUME NEW p \in Slots, GameMaps(p) \/ GameUnmaps(p) PROVE OneOperation' /\ InBounds'
  BY <1>12 DEF GameMaps, GameUnmaps, Pages
<1>13. CASE Aborted
  BY <1>13 DEF Aborted, vars, Pages
<1> QED
  BY <1>1, <1>2, <1>3, <1>4, <1>5, <1>6, <1>7, <1>8, <1>9, <1>10, <1>11, <1>12, <1>13
     DEF Next, Step

-----------------------------------------------------------------------------
(* The steps that leave the pages alone: searching, and the list.          *)
QuietStep(t) ==
  \/ \E p \in Slots : FindUnmapped(t, p)
  \/ FindUnreserved(t) \/ FindFails(t)
  \/ \E n \in Nodes : AddNode(t, n)
  \/ AddFails(t) \/ Push(t) \/ LinkBack(t) \/ UnlinkNext(t)

(* They move their thread on, and of its claim change the slice or the node. *)
LEMMA QuietEffect ==
  ASSUME TypeOK, TypeOK', OneOperation, InBounds, NEW t \in Threads, QuietStep(t)
  PROVE  /\ op[t].pc \in {"find", "reserved", "add", "push", "back", "unlink"} /\ frame' = frame
         /\ op[t].obj \in Objs /\ claim[op[t].obj].phase \in {"ctor", "dtor"}
         /\ \A u \in Threads \ {t} : op'[u] = op[u]
         /\ \A u \in Threads \ {t} : op[u].pc # "idle" => op[u].obj # op[t].obj
         /\ op'[t].obj = op[t].obj /\ op'[t].at = op[t].at
         /\ \/ op'[t].pc \in {"find", "reserved", "add", "push", "back", "unlink", "free"}
            \/ op'[t].pc = "map" /\ op[t].pc = "back"
         /\ op'[t].pc = "map" => op'[t].at = 0
         /\ \A x \in Objs : /\ claim'[x].page = claim[x].page /\ claim'[x].size = claim[x].size
                            /\ claim'[x].phase = claim[x].phase /\ claim'[x].owner = claim[x].owner
                            /\ x # op[t].obj => claim'[x].rw = claim[x].rw
<1> USE DEF At, Mine
<1>0. /\ claim \in [Objs -> Claims] /\ op \in [Threads -> Ops]
      /\ claim' \in [Objs -> Claims] /\ op' \in [Threads -> Ops]
  BY DEF TypeOK, Claims, Ops
<1>1. op[t].pc \in {"find", "reserved", "add", "push", "back", "unlink"} /\ frame' = frame
  BY DEF QuietStep, FindUnmapped, FindUnreserved, FindFails, AddNode, AddFails, Push, LinkBack,
     UnlinkNext
<1>2. op[t].obj \in Objs /\ claim[op[t].obj].phase \in {"ctor", "dtor"}
  BY <1>1 DEF OneOperation
<1>3. \A u \in Threads \ {t} : op'[u] = op[u]
  BY <1>0 DEF QuietStep, FindUnmapped, FindUnreserved, FindFails, AddNode, AddFails, Push,
     LinkBack, UnlinkNext, Goto
<1>4. /\ \/ op' = op
         \/ \E pc \in {"reserved", "add", "push", "back", "free"} : op' = [op EXCEPT ![t].pc = pc]
         \/ op' = [op EXCEPT ![t].tries = op[t].tries + 1]
         \/ op' = [op EXCEPT ![t].pc = "find", ![t].tries = op[t].tries + 1]
         \/ op' = [op EXCEPT ![t].pc = "map"] /\ op[t].pc = "back"
      /\ \/ claim' = claim
         \/ \E p \in Slots : claim' = [claim EXCEPT ![op[t].obj].rw = p]
         \/ \E n \in Nodes : claim' = [claim EXCEPT ![op[t].obj].rv = n]
  <2>1. CASE \E p \in Slots : FindUnmapped(t, p)
    BY <2>1 DEF FindUnmapped, Goto
  <2>2. CASE FindUnreserved(t)
    BY <2>2 DEF FindUnreserved, Goto
  <2>3. CASE FindFails(t) \/ AddFails(t)
    BY <2>3 DEF FindFails, AddFails
  <2>4. CASE \E n \in Nodes : AddNode(t, n)
    BY <2>4 DEF AddNode, Goto
  <2>5. CASE Push(t)
    BY <2>5 DEF Push, Goto
  <2>6. CASE LinkBack(t)
    BY <2>6 DEF LinkBack, Goto
  <2>7. CASE UnlinkNext(t)
    BY <2>7 DEF UnlinkNext, Goto
  <2> QED BY <2>1, <2>2, <2>3, <2>4, <2>5, <2>6, <2>7 DEF QuietStep
<1>5. /\ op'[t].obj = op[t].obj /\ op'[t].at = op[t].at
      /\ \/ op'[t].pc \in {"find", "reserved", "add", "push", "back", "unlink", "free"}
         \/ op'[t].pc = "map" /\ op[t].pc = "back"
  BY <1>0, <1>1, <1>4 DEF Ops
<1>6. \A x \in Objs : /\ claim'[x].page = claim[x].page /\ claim'[x].size = claim[x].size
                      /\ claim'[x].phase = claim[x].phase /\ claim'[x].owner = claim[x].owner
                      /\ x # op[t].obj => claim'[x].rw = claim[x].rw
  <2>1. CASE claim' = claim
    BY <2>1
  <2>2. ASSUME NEW p, claim' = [claim EXCEPT ![op[t].obj].rw = p] PROVE \A x \in Objs :
           /\ claim'[x].page = claim[x].page /\ claim'[x].size = claim[x].size
           /\ claim'[x].phase = claim[x].phase /\ claim'[x].owner = claim[x].owner
           /\ x # op[t].obj => claim'[x].rw = claim[x].rw
    BY <1>0, <1>2, <2>2 DEF Claims
  <2>3. ASSUME NEW n, claim' = [claim EXCEPT ![op[t].obj].rv = n] PROVE \A x \in Objs :
           /\ claim'[x].page = claim[x].page /\ claim'[x].size = claim[x].size
           /\ claim'[x].phase = claim[x].phase /\ claim'[x].owner = claim[x].owner
           /\ x # op[t].obj => claim'[x].rw = claim[x].rw
    BY <1>0, <1>2, <2>3 DEF Claims
  <2> QED BY <1>4, <2>1, <2>2, <2>3
<1>7. \A u \in Threads \ {t} : op[u].pc # "idle" => op[u].obj # op[t].obj
  BY <1>1 DEF OneOperation
<1>8. op'[t].pc = "map" => op'[t].at = 0
  BY <1>5 DEF OneOperation
<1> QED BY <1>1, <1>2, <1>3, <1>5, <1>6, <1>7, <1>8

(* A range that is mapped was free, and shows the claim's next pages; else *)
(* a page of it was taken.                                                 *)
LEMMA MapEffect ==
  ASSUME TypeOK, OneOperation, InBounds, NEW t \in Threads, MapRange(t)
  PROVE  LET o == op[t].obj
         IN  /\ op[t].pc = "map" /\ o \in Objs /\ claim' = claim
             /\ claim[o].phase = "ctor" /\ op[t].at < Pages(claim[o])
             /\ claim[o].rw + Pages(claim[o]) <= RwPagesMax
             /\ claim[o].rw \in Nat /\ claim[o].page \in Nat /\ Pages(claim[o]) \in Nat
             /\ op[t].at \in Nat
             /\ \E stop \in Nat :
                  /\ stop <= Pages(claim[o]) /\ op[t].at < stop
                  /\ \/ /\ op' = op /\ frame' = frame
                        /\ \E p \in Slots : /\ claim[o].rw + op[t].at <= p /\ p < claim[o].rw + stop
                                            /\ frame[p] # Free
                     \/ /\ \A p \in Slots : claim[o].rw + op[t].at <= p /\ p < claim[o].rw + stop =>
                             frame[p] = Free /\ frame'[p] = claim[o].page + (p - claim[o].rw)
                        /\ \A p \in Slots : ~(claim[o].rw + op[t].at <= p /\ p < claim[o].rw + stop) =>
                             frame'[p] = frame[p]
                        /\ op'[t].obj = o /\ op'[t].at = stop
                        /\ op'[t].pc = IF stop = Pages(claim[o]) THEN "check" ELSE "map"
                        /\ \A u \in Threads \ {t} : op'[u] = op[u]
                        /\ outcome' = outcome
<1> USE DEF At, Mine
<1> DEFINE o == op[t].obj
           stop == RangeStop(Mine(t), op[t].at)
           slots == claim[o].rw + op[t].at .. claim[o].rw + stop - 1
<1>0. claim \in [Objs -> Claims] /\ op \in [Threads -> Ops]
  BY DEF TypeOK, Claims, Ops
<1>1. /\ op[t].pc = "map" /\ o \in Objs /\ claim' = claim
      /\ claim[o].phase = "ctor" /\ op[t].at < Pages(claim[o])
      /\ claim[o].rw + Pages(claim[o]) <= RwPagesMax
  <2>1. op[t].pc = "map" /\ Pages(Mine(t)) > 0
    BY MineType DEF MapRange
  <2> QED BY <2>1 DEF MapRange, OneOperation, InBounds
<1>2. /\ stop \in Nat /\ stop <= Pages(claim[o]) /\ Pages(claim[o]) \in Nat
      /\ op[t].at \in Nat /\ op[t].at < stop
  BY <1>0, <1>1, MineType, RangeStopType DEF Claims, Ops
<1>3. claim[o].rw \in Nat /\ claim[o].page \in Nat
  BY <1>0, <1>1 DEF Claims
<1>4. \A p \in Slots : p \in slots <=> (claim[o].rw + op[t].at <= p /\ p < claim[o].rw + stop)
  BY <1>2, <1>3 DEF Slots
<1>5. slots \subseteq Slots
  BY <1>1, <1>2, <1>3, SizeAssumption DEF Slots
<1>6. \/ op' = op /\ frame' = frame /\ \E p \in slots : frame[p] # Free
      \/ /\ \A p \in slots : frame[p] = Free
         /\ frame' = [p \in Slots |-> IF p \in slots THEN claim[o].page + (p - claim[o].rw)
                                     ELSE frame[p]]
         /\ op' = [op EXCEPT ![t].at = stop,
                      ![t].pc = IF stop = Pages(claim[o]) THEN "check" ELSE "map"]
         /\ outcome' = outcome
  BY DEF MapRange
<1> HIDE DEF slots, stop
<1>7. CASE op' = op /\ frame' = frame /\ \E p \in slots : frame[p] # Free
  BY <1>1, <1>2, <1>3, <1>4, <1>5, <1>7
<1>8. CASE ~(op' = op /\ frame' = frame /\ \E p \in slots : frame[p] # Free)
  <2>1. /\ op'[t].obj = o /\ op'[t].at = stop
        /\ op'[t].pc = IF stop = Pages(claim[o]) THEN "check" ELSE "map"
        /\ \A u \in Threads \ {t} : op'[u] = op[u]
    BY <1>0, <1>6, <1>8 DEF Ops
  <2> QED BY <1>1, <1>2, <1>3, <1>4, <1>6, <1>8, <2>1
<1> QED BY <1>7, <1>8

(* A range that is unmapped is free.                                       *)
LEMMA UnmapEffect ==
  ASSUME TypeOK, OneOperation, InBounds, NEW t \in Threads, UnmapRange(t), ~IsEmpty(Mine(t))
  PROVE  LET o == op[t].obj
         IN  /\ op[t].pc = "unmap" /\ o \in Objs /\ claim' = claim
             /\ claim[o].phase = "dtor" /\ op[t].at < Pages(claim[o])
             /\ claim[o].rw \in Nat /\ claim[o].page \in Nat /\ Pages(claim[o]) \in Nat
             /\ op[t].at \in Nat
             /\ \E stop \in Nat :
                  /\ stop <= Pages(claim[o]) /\ op[t].at < stop
                  /\ \/ op' = op /\ frame' = frame
                     \/ /\ \A p \in Slots : ~(claim[o].rw + op[t].at <= p /\ p < claim[o].rw + stop) =>
                             frame'[p] = frame[p]
                        /\ \A p \in Slots : claim[o].rw + op[t].at <= p /\ p < claim[o].rw + stop =>
                             frame'[p] = Free
                        /\ op'[t].obj = o /\ op'[t].at = stop
                        /\ op'[t].pc = IF stop = Pages(claim[o]) THEN "unlink" ELSE "unmap"
                        /\ \A u \in Threads \ {t} : op'[u] = op[u]
<1> USE DEF At, Mine
<1> DEFINE o == op[t].obj
           stop == RangeStop(Mine(t), op[t].at)
           slots == claim[o].rw + op[t].at .. claim[o].rw + stop - 1
<1>0. claim \in [Objs -> Claims] /\ op \in [Threads -> Ops]
  BY DEF TypeOK, Claims, Ops
<1>1. /\ op[t].pc = "unmap" /\ o \in Objs /\ claim' = claim
      /\ claim[o].phase = "dtor" /\ op[t].at < Pages(claim[o])
  BY UnmapRefused DEF UnmapRange, OneOperation
<1>2. /\ stop \in Nat /\ stop <= Pages(claim[o]) /\ Pages(claim[o]) \in Nat
      /\ op[t].at \in Nat /\ op[t].at < stop
  BY <1>0, <1>1, MineType, RangeStopType DEF Claims, Ops
<1>3. claim[o].rw \in Nat /\ claim[o].page \in Nat
  BY <1>0, <1>1 DEF Claims
<1>4. \A p \in Slots : p \in slots <=> (claim[o].rw + op[t].at <= p /\ p < claim[o].rw + stop)
  BY <1>2, <1>3 DEF Slots
<1>5. \/ op' = op /\ frame' = frame
      \/ /\ frame' = [p \in Slots |-> IF p \in slots THEN Free ELSE frame[p]]
         /\ op' = [op EXCEPT ![t].at = stop,
                      ![t].pc = IF stop = Pages(claim[o]) THEN "unlink" ELSE "unmap"]
  BY DEF UnmapRange
<1> HIDE DEF slots, stop
<1>6. CASE op' = op /\ frame' = frame
  BY <1>1, <1>2, <1>3, <1>6
<1>7. CASE ~(op' = op /\ frame' = frame)
  <2>1. /\ op'[t].obj = o /\ op'[t].at = stop
        /\ op'[t].pc = IF stop = Pages(claim[o]) THEN "unlink" ELSE "unmap"
        /\ \A u \in Threads \ {t} : op'[u] = op[u]
    BY <1>0, <1>5, <1>7 DEF Ops
  <2> QED BY <1>1, <1>2, <1>3, <1>4, <1>5, <1>7, <2>1
<1> QED BY <1>6, <1>7

(* A slot that shows code is held by at most one object, before and after. *)
LEMMA HoldsStep ==
  ASSUME TypeOK, TypeOK', OneOperation, InBounds, OneOperation', InBounds', HoldsExact, [Next]_vars
  PROVE  HoldsExact'
<1> USE DEF HoldsExact, At, Mine
<1>0. /\ claim \in [Objs -> Claims] /\ op \in [Threads -> Ops]
      /\ claim' \in [Objs -> Claims] /\ op' \in [Threads -> Ops]
      /\ frame \in [Slots -> Showing] /\ frame' \in [Slots -> Showing]
  BY DEF TypeOK, Claims, Ops
<1>s. ASSUME frame' = frame,
             \A o \in Objs : \A p \in Slots : Holds(o, p)' =>
               \E x \in Objs : /\ Holds(x, p) /\ claim'[o].page = claim[x].page
                              /\ claim'[o].rw = claim[x].rw,
             \A o, y \in Objs : \A p \in Slots : Holds(o, p)' /\ Holds(y, p)' /\ o # y =>
               \E x, z \in Objs : x # z /\ Holds(x, p) /\ Holds(z, p)
      PROVE  HoldsExact'
  BY <1>s
<1>k. ASSUME frame' = frame,
             \A o \in Objs : \A p \in Slots : Holds(o, p)' =>
               /\ Holds(o, p) /\ claim'[o].page = claim[o].page /\ claim'[o].rw = claim[o].rw
      PROVE  HoldsExact'
  BY <1>k
<1>1. CASE UNCHANGED vars
  <2>1. \A o \in Objs : \A p \in Slots : Holds(o, p)' => Holds(o, p)
    BY <1>1 DEF vars, Holds, Pages
  <2> QED BY <1>1, <1>k, <2>1 DEF vars
<1>2. ASSUME NEW t \in Threads, NEW o \in Objs, NEW q \in Requests, Construct(t, o, q)
      PROVE  HoldsExact'
  <2>1. claim'[o].phase = "ctor" /\ \A x \in Objs \ {o} : claim'[x] = claim[x]
    BY <1>0, <1>2 DEF Construct, NoClaim
  <2>2. op[t].pc = "idle" /\ op'[t].pc = "find" /\ \A u \in Threads \ {t} : op'[u] = op[u]
    BY <1>0, <1>2 DEF Construct
  <2>3. \A u \in Threads : op'[u].pc \in {"map", "check", "unmap"} => op'[u].obj # o
    BY <1>2, <2>2 DEF OneOperation, Construct
  <2>4. \A x \in Objs : \A p \in Slots : Holds(x, p)' =>
          Holds(x, p) /\ claim'[x].page = claim[x].page /\ claim'[x].rw = claim[x].rw
    <3> SUFFICES ASSUME NEW x \in Objs, NEW p \in Slots, Holds(x, p)'
                 PROVE  Holds(x, p) /\ claim'[x].page = claim[x].page /\ claim'[x].rw = claim[x].rw
      OBVIOUS
    <3>1. x # o
      BY <2>1, <2>3 DEF Holds
    <3> QED BY <2>1, <2>2, <3>1 DEF Holds, Pages
  <2> QED BY <1>2, <1>k, <2>4 DEF Construct
<1>3. ASSUME NEW t \in Threads, QuietStep(t) PROVE HoldsExact'
  <2>1. /\ op[t].pc \in {"find", "reserved", "add", "push", "back", "unlink"} /\ frame' = frame
        /\ op[t].obj \in Objs /\ claim[op[t].obj].phase \in {"ctor", "dtor"}
        /\ \A u \in Threads \ {t} : op'[u] = op[u]
        /\ \A u \in Threads \ {t} : op[u].pc # "idle" => op[u].obj # op[t].obj
        /\ op'[t].obj = op[t].obj /\ op'[t].at = op[t].at
        /\ \/ op'[t].pc \in {"find", "reserved", "add", "push", "back", "unlink", "free"}
           \/ op'[t].pc = "map" /\ op[t].pc = "back"
        /\ op'[t].pc = "map" => op'[t].at = 0
        /\ \A x \in Objs : /\ claim'[x].page = claim[x].page /\ claim'[x].size = claim[x].size
                           /\ claim'[x].phase = claim[x].phase /\ claim'[x].owner = claim[x].owner
                           /\ x # op[t].obj => claim'[x].rw = claim[x].rw
    BY <1>3, QuietEffect
  <2>9. \A x \in Objs : \A p \in Slots : Holds(x, p)' =>
          Holds(x, p) /\ claim'[x].page = claim[x].page /\ claim'[x].rw = claim[x].rw
    <3> SUFFICES ASSUME NEW x \in Objs, NEW p \in Slots, Holds(x, p)'
                 PROVE  Holds(x, p) /\ claim'[x].page = claim[x].page /\ claim'[x].rw = claim[x].rw
      OBVIOUS
    <3>1. x # op[t].obj
      <4> SUFFICES ASSUME x = op[t].obj PROVE FALSE
        OBVIOUS
      <4>1. claim'[x].phase # "live"
        BY <2>1
      <4>2. PICK u \in Threads : /\ op'[u].obj = x
                                 /\ \/ op'[u].pc = "map" /\ p < claim'[x].rw + op'[u].at
                                    \/ op'[u].pc = "check" \/ op'[u].pc = "unmap"
                                 /\ claim'[x].rw <= p
        BY <4>1 DEF Holds
      <4>3. u = t
        BY <2>1, <4>2
      <4>4. op'[t].pc = "map" /\ p < claim'[x].rw + 0 /\ claim'[x].rw <= p
        BY <2>1, <4>2, <4>3
      <4> QED BY <1>0, <4>4 DEF Claims, Slots
    <3>2. \A u \in Threads : op'[u].obj = x => u # t /\ op'[u] = op[u]
      BY <2>1, <3>1
    <3> QED BY <2>1, <3>1, <3>2 DEF Holds, Pages
  <2> QED BY <1>k, <2>1, <2>9
<1>4. ASSUME NEW t \in Threads, MapRange(t) PROVE HoldsExact'
  <2> DEFINE o == op[t].obj
  <2>1. /\ op[t].pc = "map" /\ o \in Objs /\ claim' = claim
        /\ claim[o].phase = "ctor" /\ op[t].at < Pages(claim[o])
        /\ claim[o].rw + Pages(claim[o]) <= RwPagesMax
        /\ claim[o].rw \in Nat /\ claim[o].page \in Nat /\ Pages(claim[o]) \in Nat
        /\ op[t].at \in Nat
    BY <1>4, MapEffect
  <2>2. PICK stop \in Nat :
          /\ stop <= Pages(claim[o]) /\ op[t].at < stop
          /\ \/ op' = op /\ frame' = frame
             \/ /\ \A p \in Slots : claim[o].rw + op[t].at <= p /\ p < claim[o].rw + stop =>
                     frame[p] = Free /\ frame'[p] = claim[o].page + (p - claim[o].rw)
                /\ \A p \in Slots : ~(claim[o].rw + op[t].at <= p /\ p < claim[o].rw + stop) =>
                     frame'[p] = frame[p]
                /\ op'[t].obj = o /\ op'[t].at = stop
                /\ op'[t].pc = IF stop = Pages(claim[o]) THEN "check" ELSE "map"
                /\ \A u \in Threads \ {t} : op'[u] = op[u]
    BY <1>4, MapEffect
  <2>5. CASE op' = op /\ frame' = frame
    BY <1>k, <2>1, <2>5 DEF Holds, Pages
  <2>6. CASE ~(op' = op /\ frame' = frame)
    <3>1. \A x \in Objs : \A p \in Slots : Holds(x, p)' =>
            \/ Holds(x, p)
            \/ x = o /\ claim[o].rw + op[t].at <= p /\ p < claim[o].rw + stop
      <4> SUFFICES ASSUME NEW x \in Objs, NEW p \in Slots, Holds(x, p)', ~Holds(x, p)
                   PROVE  x = o /\ claim[o].rw + op[t].at <= p /\ p < claim[o].rw + stop
        OBVIOUS
      <4>1. PICK u \in Threads : /\ op'[u].obj = x
                                 /\ \/ op'[u].pc = "map" /\ p < claim[x].rw + op'[u].at
                                    \/ op'[u].pc = "check"
                                    \/ op'[u].pc = "unmap" /\ claim[x].rw + op'[u].at <= p
        BY <2>1 DEF Holds, Pages
      <4>2. u = t /\ x = o
        BY <2>1, <2>2, <2>6, <4>1, SMTT(30) DEF Holds, Pages
      <4>3. p < claim[o].rw + stop
        BY <1>0, <2>1, <2>2, <2>6, <4>1, <4>2 DEF Holds, Pages, Slots
      <4>4. claim[o].rw + op[t].at <= p
        <5>1. claim[o].rw <= p /\ p < claim[o].rw + Pages(claim[o])
          BY <2>1, <4>2 DEF Holds, Pages
        <5>2. ~(p < claim[o].rw + op[t].at)
          BY <2>1, <4>2, <5>1 DEF Holds
        <5> QED BY <2>2, <2>1, <5>2 DEF Slots
      <4> QED BY <4>2, <4>3, <4>4
    <3>2. \A x \in Objs : \A p \in Slots : Holds(x, p) => frame[p] # Free
      BY <1>0, FrameAssumption DEF Claims, Slots, Holds
    <3>3. \A x \in Objs : \A p \in Slots : Holds(x, p)' =>
            frame'[p] = claim[x].page + (p - claim[x].rw)
      BY <2>2, <2>6, <3>1, <3>2
    <3>4. \A x, y \in Objs : \A p \in Slots : Holds(x, p)' /\ Holds(y, p)' => x = y
      BY <2>2, <2>6, <3>1, <3>2
    <3> QED BY <2>1, <3>3, <3>4
  <2> QED BY <2>5, <2>6
<1>e. ASSUME NEW t \in Threads, UnmapRange(t), IsEmpty(Mine(t)) PROVE HoldsExact'
  <2>1. frame' = frame /\ claim' = claim /\ op' = op
    BY <1>e, UnmapRefused
  <2>2. \A o \in Objs : \A p \in Slots : Holds(o, p)' => Holds(o, p)
    BY <2>1 DEF Holds, Pages
  <2> QED BY <1>k, <2>1, <2>2
<1>5. ASSUME NEW t \in Threads, UnmapRange(t), ~IsEmpty(Mine(t)) PROVE HoldsExact'
  <2> DEFINE o == op[t].obj
  <2>1. /\ op[t].pc = "unmap" /\ o \in Objs /\ claim' = claim
        /\ claim[o].phase = "dtor" /\ op[t].at < Pages(claim[o])
        /\ claim[o].rw \in Nat /\ claim[o].page \in Nat /\ Pages(claim[o]) \in Nat
        /\ op[t].at \in Nat
    BY <1>5, UnmapEffect
  <2>2. PICK stop \in Nat :
          /\ stop <= Pages(claim[o]) /\ op[t].at < stop
          /\ \/ op' = op /\ frame' = frame
             \/ /\ \A p \in Slots : ~(claim[o].rw + op[t].at <= p /\ p < claim[o].rw + stop) =>
                     frame'[p] = frame[p]
                /\ op'[t].obj = o /\ op'[t].at = stop
                /\ op'[t].pc \in {"unlink", "unmap"}
                /\ \A u \in Threads \ {t} : op'[u] = op[u]
    BY <1>5, UnmapEffect, Zenon
  <2>5. CASE op' = op /\ frame' = frame
    BY <1>k, <2>1, <2>5 DEF Holds, Pages
  <2>6. CASE ~(op' = op /\ frame' = frame)
    <3>1. \A x \in Objs : \A p \in Slots : Holds(x, p)' =>
            Holds(x, p) /\ (x = o => claim[o].rw + stop <= p)
      <4> SUFFICES ASSUME NEW x \in Objs, NEW p \in Slots, Holds(x, p)'
                   PROVE  Holds(x, p) /\ (x = o => claim[o].rw + stop <= p)
        OBVIOUS
      <4>1. CASE x # o
        BY <2>1, <2>2, <2>6, <4>1 DEF Holds, Pages
      <4>2. CASE x = o
        <5>1. PICK u \in Threads : /\ op'[u].obj = o
                                   /\ \/ op'[u].pc = "map" \/ op'[u].pc = "check"
                                      \/ op'[u].pc = "unmap" /\ claim[o].rw + op'[u].at <= p
          BY <2>1, <4>2 DEF Holds
        <5>2. u = t
          BY <2>1, <2>2, <2>6, <5>1 DEF OneOperation
        <5>3. claim[o].rw + stop <= p
          BY <2>2, <2>6, <5>1, <5>2
        <5>4. claim[o].rw <= p /\ p < claim[o].rw + Pages(claim[o])
          BY <2>1, <4>2 DEF Holds, Pages
        <5>5. claim[o].rw + op[t].at <= p
          BY <2>2, <2>1, <5>3 DEF Slots
        <5> QED BY <2>1, <4>2, <5>3, <5>4, <5>5 DEF Holds
      <4> QED BY <4>1, <4>2
    <3>3. \A p \in Slots : claim[o].rw + op[t].at <= p /\ p < claim[o].rw + stop => Holds(o, p)
      BY <2>1, <2>2 DEF Holds, Slots
    <3>4. \A x \in Objs : \A p \in Slots : Holds(x, p)' => frame'[p] = frame[p]
      <4> SUFFICES ASSUME NEW x \in Objs, NEW p \in Slots, Holds(x, p)'
                   PROVE  frame'[p] = frame[p]
        OBVIOUS
      <4>1. ~(claim[o].rw + op[t].at <= p /\ p < claim[o].rw + stop)
        BY <2>1, <2>2, <3>1, <3>3 DEF Slots
      <4> QED BY <2>2, <2>6, <4>1
    <3> QED BY <2>1, <3>1, <3>4
  <2> QED BY <2>5, <2>6
<1>6. ASSUME NEW t \in Threads, Compare(t) PROVE HoldsExact'
  <2> DEFINE o == op[t].obj
  <2>1. op[t].pc = "check" /\ o \in Objs /\ frame' = frame
    BY <1>6 DEF Compare, OneOperation
  <2>2. CASE claim' = claim /\ op' = op
    BY <1>k, <2>1, <2>2 DEF Holds, Pages
  <2>3. CASE ~(claim' = claim /\ op' = op)
    <3>1. claim' = [claim EXCEPT ![o].phase = "live"] /\ op' = [op EXCEPT ![t] = Idle]
      BY <1>6, <2>3 DEF Compare, Return
    <3>2. \A x \in Objs : /\ claim'[x].page = claim[x].page /\ claim'[x].size = claim[x].size
                          /\ claim'[x].rw = claim[x].rw /\ claim'[x].owner = claim[x].owner
                          /\ x # o => claim'[x].phase = claim[x].phase
      BY <1>0, <2>1, <3>1 DEF Claims
    <3>3. op'[t].pc = "idle" /\ \A u \in Threads \ {t} : op'[u] = op[u]
      BY <1>0, <3>1 DEF Idle
    <3>4. ASSUME NEW x \in Objs, NEW p \in Slots, Holds(x, p)' PROVE Holds(x, p)
      <4>1. CASE x = o
        BY <2>1, <3>2, <3>4, <4>1 DEF Holds, Pages
      <4>2. CASE x # o
        BY <3>2, <3>3, <3>4, <4>2 DEF Holds, Pages
      <4> QED BY <4>1, <4>2
    <3> QED BY <1>k, <2>1, <3>2, <3>4
  <2> QED BY <2>2, <2>3
<1>7. ASSUME NEW t \in Threads, NEW o \in Objs, Destroy(t, o) PROVE HoldsExact'
  <2>1. op[t].pc = "idle" /\ claim[o].phase = "live" /\ frame' = frame
    BY <1>7 DEF Destroy
  <2>2. \A x \in Objs \ {o} : claim'[x] = claim[x]
    BY <1>0, <1>7 DEF Destroy
  <2>3. \A u \in Threads \ {t} : op'[u] = op[u] /\ (op[u].pc # "idle" => op[u].obj # o)
    BY <1>0, <1>7, <2>1 DEF Destroy, OneOperation
  <2>4. op'[t].pc = "idle" \/ op'[t].obj = o
    BY <1>0, <1>7, <2>1 DEF Destroy
  <2>5. ASSUME NEW x \in Objs, NEW p \in Slots, Holds(x, p)'
        PROVE  Holds(x, p) /\ claim'[x].page = claim[x].page /\ claim'[x].rw = claim[x].rw
    <3>1. CASE x # o
      BY <2>2, <2>3, <2>4, <2>5, <3>1 DEF Holds, Pages
    <3>2. CASE x = o
      <4>1. CASE claim[o].owner
        <5>1. claim' = [claim EXCEPT ![o].phase = "dtor"]
          BY <1>7, <4>1 DEF Destroy
        <5>2. /\ claim'[o].rw = claim[o].rw /\ claim'[o].page = claim[o].page
              /\ claim'[o].size = claim[o].size
          BY <1>0, <5>1 DEF Claims
        <5> QED BY <2>1, <2>5, <3>2, <4>1, <5>2 DEF Holds, Pages
      <4>2. CASE ~claim[o].owner
        <5>1. claim'[o] = NoClaim /\ op' = op
          BY <1>0, <1>7, <4>2 DEF Destroy
        <5> QED BY <2>1, <2>3, <2>5, <3>2, <5>1 DEF Holds, NoClaim
      <4> QED BY <4>1, <4>2
    <3> QED BY <3>1, <3>2
  <2> QED BY <1>k, <2>1, <2>5
<1>8. ASSUME NEW t \in Threads, UnlinkPrev(t) PROVE HoldsExact'
  <2> DEFINE o == op[t].obj
  <2>1. op[t].pc = "free" /\ o \in Objs /\ frame' = frame
    BY <1>8 DEF UnlinkPrev, OneOperation
  <2>2. claim'[o] = NoClaim /\ \A x \in Objs \ {o} : claim'[x] = claim[x]
    BY <1>0, <1>8, <2>1 DEF UnlinkPrev
  <2>3. op'[t].pc = "idle" /\ \A u \in Threads \ {t} : op'[u] = op[u]
    BY <1>0, <1>8 DEF UnlinkPrev, Return, Idle
  <2>4. \A u \in Threads \ {t} : op[u].pc # "idle" => op[u].obj # o
    BY <2>1 DEF OneOperation
  <2>5. ASSUME NEW x \in Objs, NEW p \in Slots, Holds(x, p)'
        PROVE  Holds(x, p) /\ claim'[x].page = claim[x].page /\ claim'[x].rw = claim[x].rw
    <3>1. x # o
      BY <2>2, <2>3, <2>4, <2>5 DEF Holds, NoClaim
    <3> QED BY <2>2, <2>3, <2>5, <3>1 DEF Holds, Pages
  <2> QED BY <1>k, <2>1, <2>5
<1>13. ASSUME NEW t \in Threads, NEW o \in Objs, MoveAssign(t, o, o) PROVE HoldsExact'
  <2>1. /\ frame' = frame /\ op' = op
        /\ \A x \in Objs : /\ claim'[x].phase = claim[x].phase /\ claim'[x].page = claim[x].page
                            /\ claim'[x].rw = claim[x].rw /\ Pages(claim'[x]) = Pages(claim[x])
    BY <1>13, SelfMoveEffect
  <2>2. \A x \in Objs : \A s \in Slots : Holds(x, s)' => Holds(x, s)
    BY <2>1 DEF Holds, Pages
  <2> QED BY <1>k, <2>1, <2>2
<1>9. ASSUME NEW t \in Threads, NEW o \in Objs, NEW p \in Objs, o # p,
             MoveConstruct(t, o, p) \/ MoveAssign(t, o, p)
      PROVE  HoldsExact'
  <2>1. /\ frame' = frame /\ op' = op
        /\ claim[o].phase = "live" /\ claim[p].phase \in {"none", "live"}
        /\ claim'[o] = Emptied /\ claim'[p].phase = "live" /\ claim'[p].page = claim[o].page
        /\ claim'[p].rw = claim[o].rw /\ Pages(claim'[p]) = Pages(claim[o])
        /\ \A x \in Objs \ {o, p} : claim'[x] = claim[x]
    BY <1>9, MoveEffect
  <2>2. \A u \in Threads : op[u].pc # "idle" => op[u].obj \notin {o, p}
    BY <2>1 DEF OneOperation
  <2>7. ASSUME NEW x \in Objs, NEW s \in Slots, Holds(x, s)'
        PROVE  /\ x # o
               /\ x = p => /\ Holds(o, s) /\ claim'[p].page = claim[o].page
                           /\ claim'[p].rw = claim[o].rw
               /\ x # p => Holds(x, s) /\ claim'[x] = claim[x]
    <3>1. x # o
      <4> SUFFICES ASSUME x = o PROVE FALSE
        OBVIOUS
      <4>1. claim'[o].rw = 0 /\ Pages(claim'[o]) = 0
        BY <2>1, EmptyClaims
      <4>2. claim'[o].rw <= s /\ s < claim'[o].rw + Pages(claim'[o])
        BY <2>7 DEF Holds, Pages
      <4> QED BY <4>1, <4>2 DEF Slots
    <3>2. CASE x = p
      <4>1. claim'[p].rw <= s /\ s < claim'[p].rw + Pages(claim'[p])
        BY <2>7, <3>2 DEF Holds, Pages
      <4>2. claim[o].rw <= s /\ s < claim[o].rw + Pages(claim[o])
        BY <2>1, <4>1
      <4>3. Holds(o, s)
        BY <2>1, <4>2 DEF Holds
      <4> QED BY <2>1, <3>1, <3>2, <4>3
    <3>3. CASE x # p
      BY <2>1, <2>7, <3>1, <3>3 DEF Holds, Pages
    <3> QED BY <2>1, <3>1, <3>2, <3>3
  <2>8. \A x \in Objs : \A s \in Slots : Holds(x, s)' =>
           frame'[s] = claim'[x].page + (s - claim'[x].rw)
    BY <2>1, <2>7
  <2>9. \A x, y \in Objs : \A s \in Slots : Holds(x, s)' /\ Holds(y, s)' => x = y
    <3> SUFFICES ASSUME NEW x \in Objs, NEW y \in Objs, NEW s \in Slots, Holds(x, s)', Holds(y, s)'
                 PROVE  x = y
      OBVIOUS
    <3>1. x # o /\ y # o
      BY <2>7
    <3>2. Holds(IF x = p THEN o ELSE x, s) /\ Holds(IF y = p THEN o ELSE y, s)
      BY <2>7
    <3> QED BY <3>1, <3>2
  <2> QED BY <2>8, <2>9
<1>10. ASSUME NEW p \in Slots, GameMaps(p) \/ GameUnmaps(p) PROVE HoldsExact'
  <2>1. /\ claim' = claim /\ op' = op /\ frame[p] \in {Free, Game}
        /\ \A s \in Slots \ {p} : frame'[s] = frame[s]
    BY <1>0, <1>10 DEF GameMaps, GameUnmaps
  <2>2. \A x \in Objs : \A s \in Slots : Holds(x, s)' => Holds(x, s)
    BY <2>1 DEF Holds, Pages
  <2>3. \A x \in Objs : \A s \in Slots : Holds(x, s) => frame[s] \in Nat
    <3> SUFFICES ASSUME NEW x \in Objs, NEW s \in Slots, Holds(x, s) PROVE frame[s] \in Nat
      OBVIOUS
    <3>1. claim[x].rw <= s /\ claim[x].rw \in Nat /\ claim[x].page \in Nat /\ s \in Nat
      BY <1>0 DEF Holds, Claims, Slots
    <3> QED BY <3>1
  <2>4. \A x \in Objs : \A s \in Slots : Holds(x, s) => s # p
    BY <2>1, <2>3, FrameAssumption
  <2> QED BY <2>1, <2>2, <2>4
<1>11. CASE Aborted
  <2>1. \A o \in Objs : \A p \in Slots : Holds(o, p)' => Holds(o, p)
    BY <1>11 DEF Aborted, vars, Holds, Pages
  <2> QED BY <1>11, <1>k, <2>1 DEF Aborted, vars
<1> QED
  BY <1>1, <1>2, <1>3, <1>4, <1>5, <1>6, <1>7, <1>8, <1>9, <1>10, <1>11, <1>13, <1>e
     DEF Next, Step, QuietStep, MoveConstruct

-----------------------------------------------------------------------------
(* The pages a destructor's next range covers are all still its object's,  *)
(* so that only the range of an empty claim, which has none, is refused.   *)
LEMMA UnmapStep ==
  ASSUME TypeOK, OneOperation, InBounds, HoldsExact, UnmapNeverRefused, [Next]_vars
  PROVE  UnmapNeverRefused'
<1> USE DEF UnmapNeverRefused
<1>1. ASSUME NEW t \in Threads, UnmapRange(t), ~IsEmpty(Mine(t)) PROVE outcome' # "unmapRefused"
  <2> DEFINE o == op[t].obj
             c == Mine(t)
             stop == RangeStop(Mine(t), op[t].at)
  <2>1. op[t].pc = "unmap" /\ o \in Objs /\ c.phase = "dtor" /\ op[t].at < Pages(c)
    BY <1>1, UnmapRefused DEF UnmapRange, OneOperation, At, Mine
  <2>2. /\ c \in Claims /\ op[t] \in Ops /\ Pages(c) \in Nat
        /\ c.page + Pages(c) <= RoPages /\ c.rw + Pages(c) <= RwPagesMax
    BY <2>1, MineType DEF InBounds, Mine
  <2>3. /\ stop \in Nat /\ stop <= Pages(c) /\ op[t].at < stop
        /\ op[t].at \in Nat /\ c.rw \in Nat
    BY <2>1, <2>2, RangeStopType DEF Claims, Ops
  <2> HIDE DEF stop
  <2>4. \A p \in c.rw + op[t].at .. c.rw + stop - 1 :
           p \in Slots /\ c.rw <= p /\ p < c.rw + Pages(c) /\ c.rw + op[t].at <= p
    BY <2>2, <2>3, SizeAssumption DEF Slots
  <2>5. \A p \in c.rw + op[t].at .. c.rw + stop - 1 : Holds(o, p)
    BY <2>1, <2>4 DEF Holds, Mine
  <2>6. \A p \in c.rw + op[t].at .. c.rw + stop - 1 : frame[p] = c.page + (p - c.rw)
    BY <2>1, <2>4, <2>5 DEF HoldsExact, Mine
  <2>7. c.rw + op[t].at \in c.rw + op[t].at .. c.rw + stop - 1
    BY <2>3
  <2>8. outcome = "none" /\ outcome' = outcome
    BY <1>1, <2>6, <2>7 DEF UnmapRange, At, stop
  <2> QED BY <2>8
<1>2. ASSUME NEW t \in Threads, UnmapRange(t), IsEmpty(Mine(t)) PROVE UnmapNeverRefused'
  <2>1. op[t].pc = "unmap" /\ op' = op /\ claim' = claim
    BY <1>2, UnmapRefused
  <2>2. op'[t].pc = "unmap" /\ IsEmpty(Mine(t))'
    BY <1>2, <2>1 DEF IsEmpty, Mine, Pages
  <2> QED BY <2>2
<1>3. CASE UNCHANGED vars \/ Aborted
  BY <1>3 DEF Aborted, vars, IsEmpty, Mine, Pages
<1>4. CASE \E t \in Threads :
             \/ \E o \in Objs, q \in Requests : Construct(t, o, q)
             \/ \E o \in Objs : Destroy(t, o)
             \/ \E o, p \in Objs : MoveConstruct(t, o, p) \/ MoveAssign(t, o, p)
  <2>1. outcome' # "unmapRefused"
    BY <1>4, ZenonT(60) DEF Construct, Destroy, MoveConstruct, MoveAssign, At
  <2> QED BY <2>1
<1>5. CASE \E t \in Threads : Step(t) /\ ~UnmapRange(t)
  <2>1. outcome' # "unmapRefused"
    BY <1>5, ZenonT(60) DEF Step, FindUnmapped, FindUnreserved, FindFails, AddNode, AddFails, Push,
       LinkBack, MapRange, Compare, UnlinkNext, UnlinkPrev, At
  <2> QED BY <2>1
<1>6. CASE \E p \in Slots : GameMaps(p) \/ GameUnmaps(p)
  <2>1. outcome' # "unmapRefused"
    BY <1>6 DEF GameMaps, GameUnmaps
  <2> QED BY <2>1
<1> QED BY <1>1, <1>2, <1>3, <1>4, <1>5, <1>6 DEF Next

(* The inductive invariant is kept by every step, and holds always.        *)
LEMMA InductiveStep == IInv /\ [Next]_vars => IInv'
<1> SUFFICES ASSUME IInv, [Next]_vars PROVE IInv'
  OBVIOUS
<1> USE DEF IInv, AliasInv
<1>1. TypeOK'
  BY TypeStep
<1>2. OneOperation' /\ InBounds'
  BY <1>1, OperationStep
<1>3. HoldsExact'
  BY <1>1, <1>2, HoldsStep
<1>4. UnmapNeverRefused'
  BY UnmapStep
<1> QED BY <1>1, <1>2, <1>3, <1>4

LEMMA Inductive == Spec => []IInv
  BY InductiveStep, InitIInv, PTL DEF Spec

(* Every variable keeps its type, whatever the threads and the game do.    *)
THEOREM TypeCorrect == Spec => []TypeOK
<1>1. IInv => TypeOK
  BY DEF IInv
<1> QED BY <1>1, Inductive, PTL

(* Each page of the address space is held by at most one object, and shows *)
(* that object's code page while it is held, half-done maps and unmaps     *)
(* included: RwPages with any number of threads and no lock at all.        *)
THEOREM HeldExactly == Spec => []AliasSound
<1>1. IInv => AliasSound
  BY DEF IInv, AliasSound
<1> QED BY <1>1, Inductive, PTL

(* A constructed RwPages shows its code pages, all of them, until it is    *)
(* destroyed or moved from.                                                *)
THEOREM AliasIsExact == Spec => []AliasExact
<1>1. IInv => AliasExact
  <2> SUFFICES ASSUME IInv, NEW o \in Objs, claim[o].phase = "live",
                      NEW k \in 0 .. Pages(claim[o]) - 1
               PROVE  claim[o].rw + k \in Slots /\ Shows(claim[o], k)
    BY DEF AliasExact
  <2>1. claim[o] \in Claims
    BY DEF IInv, TypeOK, Claims
  <2>2. claim[o].rw \in Nat /\ claim[o].page \in Nat /\ Pages(claim[o]) \in Nat
    BY <2>1, PagesType DEF Claims
  <2>3. claim[o].rw + Pages(claim[o]) <= RwPagesMax
    BY DEF IInv, AliasInv, InBounds
  <2>4. claim[o].rw + k \in Slots
    BY <2>2, <2>3, SizeAssumption DEF Slots
  <2>5. Holds(o, claim[o].rw + k)
    BY <2>2 DEF Holds
  <2>6. frame[claim[o].rw + k] = claim[o].page + ((claim[o].rw + k) - claim[o].rw)
    BY <2>4, <2>5 DEF IInv, AliasInv, HoldsExact
  <2> QED BY <2>2, <2>4, <2>6 DEF Shows
<1> QED BY <1>1, Inductive, PTL

(* Whatever is constructed, moved, assigned and destroyed, by any number   *)
(* of threads, ~RwPages aborts for one reason only: its claim is empty and *)
(* owned all the same, for it was assigned from an object moved from.      *)
THEOREM UnmapsSucceed == Spec => []UnmapNeverRefused
<1>1. IInv => UnmapNeverRefused
  BY DEF IInv
<1> QED BY <1>1, Inductive, PTL

-----------------------------------------------------------------------------
(* The list of reservations, with one thread at work.                      *)

(* What a walk over the nodes from h visits.                               *)
Visited(h, nodes) ==
  {n \in Nodes : \A S \in SUBSET Nodes : ClosedFrom(h, nodes, S) => n \in S}

(* Its set is closed, and it is the least that is.                         *)
LEMMA VisitedClosed ==
  ASSUME NEW h \in Nodes \cup {Null}, NEW f \in [Nodes -> ListNodes]
  PROVE  ClosedFrom(h, f, Visited(h, f))
<1>1. \A n \in Nodes : f[n].next \in Nodes \cup {Null}
  BY DEF ListNodes
<1>2. h # Null => h \in Visited(h, f)
  BY DEF Visited, ClosedFrom
<1>3. ASSUME NEW n \in Visited(h, f), f[n].next # Null PROVE f[n].next \in Visited(h, f)
  <2>1. n \in Nodes /\ f[n].next \in Nodes
    BY <1>1, <1>3 DEF Visited
  <2>2. ASSUME NEW S \in SUBSET Nodes, ClosedFrom(h, f, S) PROVE f[n].next \in S
    <3>1. n \in S
      BY <2>2 DEF Visited
    <3> QED BY <1>3, <2>2, <3>1 DEF ClosedFrom
  <2> QED BY <2>1, <2>2 DEF Visited
<1> QED BY <1>2, <1>3 DEF ClosedFrom

LEMMA VisitedLeast ==
  ASSUME NEW h, NEW f, NEW S \in SUBSET Nodes, ClosedFrom(h, f, S)
  PROVE  Visited(h, f) \subseteq S
  BY DEF Visited

LEMMA VisitedType ==
  ASSUME NEW h, NEW f
  PROVE  Visited(h, f) \in SUBSET Nodes
  BY DEF Visited

(* A walk sees only the links of the nodes it visits.                      *)
LEMMA VisitedSame ==
  ASSUME NEW h \in Nodes \cup {Null},
         NEW f \in [Nodes -> ListNodes], NEW g \in [Nodes -> ListNodes],
         \A n \in Visited(h, f) : g[n].next = f[n].next
  PROVE  Visited(h, g) = Visited(h, f)
<1> DEFINE V == Visited(h, f)
           W == Visited(h, g)
<1>1. V \in SUBSET Nodes /\ W \in SUBSET Nodes
  BY VisitedType
<1>2. ClosedFrom(h, f, V) /\ ClosedFrom(h, g, W)
  BY VisitedClosed
<1>3. \A n \in V : g[n].next = f[n].next
  OBVIOUS
<1> HIDE DEF V, W
<1>4. ClosedFrom(h, g, V)
  BY <1>2, <1>3 DEF ClosedFrom
<1>5. W \subseteq V
  BY <1>1, <1>4, VisitedLeast DEF W
<1>6. ClosedFrom(h, f, W)
  BY <1>2, <1>3, <1>5 DEF ClosedFrom
<1>7. V \subseteq W
  BY <1>1, <1>6, VisitedLeast DEF V
<1> QED BY <1>5, <1>7 DEF V, W

(* A new first node that leads to the old one is all that is added.        *)
LEMMA VisitedPush ==
  ASSUME NEW h \in Nodes \cup {Null}, NEW f \in [Nodes -> ListNodes], NEW n \in Nodes,
         f[n].next = h
  PROVE  Visited(n, f) = {n} \cup Visited(h, f)
<1> DEFINE V == Visited(h, f)
           W == Visited(n, f)
<1>1. V \in SUBSET Nodes /\ W \in SUBSET Nodes
  BY VisitedType
<1>2. ClosedFrom(h, f, V) /\ ClosedFrom(n, f, W)
  BY VisitedClosed
<1>3. n # Null
  BY NullAssumption
<1> HIDE DEF V, W
<1>4. ClosedFrom(n, f, {n} \cup V)
  BY <1>2 DEF ClosedFrom
<1>5. W \subseteq {n} \cup V
  <2>1. {n} \cup V \in SUBSET Nodes
    BY <1>1
  <2> QED BY <1>4, <2>1, VisitedLeast DEF W
<1>6. n \in W /\ ClosedFrom(h, f, W)
  BY <1>2, <1>3 DEF ClosedFrom
<1>7. V \subseteq W
  BY <1>1, <1>6, VisitedLeast DEF V
<1> QED BY <1>5, <1>6, <1>7 DEF V, W

(* Both ways along a walk the links agree, and the first node has no       *)
(* predecessor.                                                            *)
DoublyLinked(h, f) ==
  /\ h # Null => f[h].prev = Null
  /\ \A n \in Visited(h, f) : /\ f[n].next # Null => f[f[n].next].prev = n
                              /\ f[n].prev # Null => f[f[n].prev].next = n

(* A node of it is first, or the one its link goes back to leads to it.    *)
LEMMA VisitedPrev ==
  ASSUME NEW h \in Nodes \cup {Null}, NEW f \in [Nodes -> ListNodes],
         NEW n \in Visited(h, f), DoublyLinked(h, f)
  PROVE  /\ f[n].prev = Null <=> h = n
         /\ f[n].next # n
         /\ f[n].next # Null => f[n].next \in Visited(h, f)
         /\ f[n].prev # Null => f[n].prev \in Visited(h, f) \ {n}
         /\ \A m \in Visited(h, f) \ {n} : f[m].next = n => m = f[n].prev
<1> DEFINE V == Visited(h, f)
<1>1. V \in SUBSET Nodes /\ n \in V /\ n \in Nodes /\ n # Null
  BY VisitedType, NullAssumption
<1>2. ClosedFrom(h, f, V)
  BY VisitedClosed
<1>3. /\ h # Null => f[h].prev = Null
      /\ \A m \in V : /\ f[m].next # Null => f[f[m].next].prev = m
                      /\ f[m].prev # Null => f[f[m].prev].next = m
  BY DEF DoublyLinked
<1>4. \A S \in SUBSET Nodes : ClosedFrom(h, f, S) => V \subseteq S
  BY VisitedLeast
<1> HIDE DEF V
(* Without a way to it the set would not be least.                         *)
<1>5. h = n \/ \E m \in V \ {n} : f[m].next = n
  <2> SUFFICES ASSUME h # n, \A m \in V \ {n} : f[m].next # n PROVE FALSE
    OBVIOUS
  <2>1. ClosedFrom(h, f, V \ {n}) /\ V \ {n} \in SUBSET Nodes
    BY <1>1, <1>2 DEF ClosedFrom
  <2> QED BY <1>1, <1>4, <2>1
<1>6. f[n].prev = Null <=> h = n
  BY <1>1, <1>3, <1>5, NullAssumption
<1>7. f[n].next # n
  BY <1>1, <1>3, <1>5
<1>8. f[n].prev # Null => f[n].prev \in V \ {n}
  BY <1>1, <1>3, <1>5
<1>9. \A m \in V \ {n} : f[m].next = n => m = f[n].prev
  BY <1>1, <1>3
<1>10. f[n].next # Null => f[n].next \in V
  BY <1>1, <1>2 DEF ClosedFrom
<1> QED BY <1>6, <1>7, <1>8, <1>9, <1>10 DEF V

(* The links g of a list that was h's in f, around its node n.             *)
LinkedAround(h, f, n, k, g) ==
  /\ k = IF f[n].prev = Null THEN f[n].next ELSE h
  /\ \A m \in Visited(h, f) \ {n} :
       /\ g[m].next = IF m = f[n].prev THEN f[n].next ELSE f[m].next
       /\ g[m].prev = IF m = f[n].next THEN f[n].prev ELSE f[m].prev

(* In a doubly linked list a node that is linked around is all that is     *)
(* lost.                                                                   *)
LEMMA VisitedUnlink ==
  ASSUME NEW h \in Nodes \cup {Null}, NEW f \in [Nodes -> ListNodes],
         NEW g \in [Nodes -> ListNodes], NEW n \in Visited(h, f), DoublyLinked(h, f),
         NEW k, LinkedAround(h, f, n, k, g)
  PROVE  Visited(k, g) = Visited(h, f) \ {n}
<1> DEFINE V == Visited(h, f)
           W == Visited(k, g)
<1>1. /\ V \in SUBSET Nodes /\ W \in SUBSET Nodes /\ n \in V /\ n \in Nodes
      /\ f[n].next \in Nodes \cup {Null} /\ f[n].prev \in Nodes \cup {Null}
      /\ k \in Nodes \cup {Null} /\ n # Null
      /\ k = IF f[n].prev = Null THEN f[n].next ELSE h
  BY VisitedType, NullAssumption DEF ListNodes, LinkedAround
<1>2. ClosedFrom(h, f, V) /\ ClosedFrom(k, g, W)
  BY <1>1, VisitedClosed
<1>3. /\ h # Null => f[h].prev = Null
      /\ \A m \in V : /\ f[m].next # Null => f[f[m].next].prev = m
                      /\ f[m].prev # Null => f[f[m].prev].next = m
  BY DEF DoublyLinked
<1>4. \A m \in V \ {n} : g[m].next = IF m = f[n].prev THEN f[n].next ELSE f[m].next
  BY DEF LinkedAround
<1>5. \A S \in SUBSET Nodes : ClosedFrom(h, f, S) => V \subseteq S
  BY VisitedLeast
<1>6. \A S \in SUBSET Nodes : ClosedFrom(k, g, S) => W \subseteq S
  BY VisitedLeast
<1> HIDE DEF V, W
<1>8. /\ f[n].prev = Null <=> h = n
      /\ f[n].next # n
      /\ f[n].prev # Null => f[n].prev \in V \ {n}
      /\ \A m \in V \ {n} : f[m].next = n => m = f[n].prev
  BY VisitedPrev DEF V
<1>12. W \subseteq V \ {n}
  <2>1. ClosedFrom(k, g, V \ {n})
    <3>1. k # Null => k \in V \ {n}
      BY <1>1, <1>2, <1>8 DEF ClosedFrom
    <3>2. ASSUME NEW m \in V \ {n}, g[m].next # Null PROVE g[m].next \in V \ {n}
      <4>1. CASE m = f[n].prev
        BY <1>1, <1>2, <1>4, <1>8, <3>2, <4>1 DEF ClosedFrom
      <4>2. CASE m # f[n].prev
        <5>1. g[m].next = f[m].next
          BY <1>4, <4>2
        <5> QED BY <1>2, <1>8, <3>2, <4>2, <5>1 DEF ClosedFrom
      <4> QED BY <4>1, <4>2
    <3> QED BY <3>1, <3>2 DEF ClosedFrom
  <2> QED BY <1>1, <1>6, <2>1
<1>13. V \subseteq W \cup {n}
  <2>1. ClosedFrom(h, f, W \cup {n})
    <3>1. h # Null => h \in W \cup {n}
      BY <1>1, <1>2, <1>8 DEF ClosedFrom
    <3>2. ASSUME NEW m \in W, f[m].next # Null PROVE f[m].next \in W \cup {n}
      <4>1. CASE m = f[n].prev
        BY <1>1, <1>3, <4>1, NullAssumption
      <4>2. CASE m # f[n].prev
        BY <1>2, <1>4, <1>12, <3>2, <4>2 DEF ClosedFrom
      <4> QED BY <4>1, <4>2
    <3>3. ASSUME f[n].next # Null PROVE f[n].next \in W \cup {n}
      <4>1. CASE f[n].prev = Null
        BY <1>1, <1>2, <3>3, <4>1 DEF ClosedFrom
      <4>2. CASE f[n].prev # Null
        <5>1. f[n].prev \in W
          <6> SUFFICES ASSUME f[n].prev \notin W PROVE FALSE
            OBVIOUS
          <6>1. ClosedFrom(h, f, W)
            BY <1>1, <1>2, <1>4, <1>12, <4>2 DEF ClosedFrom
          <6> QED BY <1>1, <1>5, <1>12, <6>1
        <5> QED BY <1>2, <1>4, <1>8, <1>12, <3>3, <4>2, <5>1 DEF ClosedFrom
      <4> QED BY <4>1, <4>2
    <3> QED BY <3>1, <3>2, <3>3 DEF ClosedFrom
  <2> QED BY <1>1, <1>5, <2>1
<1> QED BY <1>12, <1>13, <1>1 DEF V, W

(* Links that are the same along the walk are doubly linked as they were.  *)
LEMMA LinksSame ==
  ASSUME NEW h \in Nodes \cup {Null}, NEW f \in [Nodes -> ListNodes],
         NEW g \in [Nodes -> ListNodes], DoublyLinked(h, f),
         \A m \in Visited(h, f) : g[m].next = f[m].next /\ g[m].prev = f[m].prev
  PROVE  Visited(h, g) = Visited(h, f) /\ DoublyLinked(h, g)
<1> DEFINE V == Visited(h, f)
<1>1. Visited(h, g) = V
  BY VisitedSame
<1>2. \A m \in V : g[m].next = f[m].next /\ g[m].prev = f[m].prev
  OBVIOUS
<1>3. \A m \in V : /\ f[m].next # Null => f[m].next \in V
                   /\ f[m].prev # Null => f[m].prev \in V
  BY VisitedPrev
<1>4. h # Null => h \in V
  BY VisitedClosed DEF ClosedFrom
<1>5. /\ h # Null => f[h].prev = Null
      /\ \A m \in V : /\ f[m].next # Null => f[f[m].next].prev = m
                      /\ f[m].prev # Null => f[f[m].prev].next = m
  BY DEF DoublyLinked
<1> HIDE DEF V
<1>6. h # Null => g[h].prev = Null
  BY <1>2, <1>4, <1>5
<1>7. \A m \in V : /\ g[m].next # Null => g[g[m].next].prev = m
                   /\ g[m].prev # Null => g[g[m].prev].next = m
  BY <1>2, <1>3, <1>5
<1> QED BY <1>1, <1>6, <1>7 DEF DoublyLinked, V

(* The links with the one back to node n put in, which LinkBack writes.    *)
Relinked(f, n) == IF f[n].next = Null THEN f ELSE [f EXCEPT ![f[n].next].prev = n]

LEMMA RelinkedLinks ==
  ASSUME NEW f \in [Nodes -> ListNodes], NEW n \in Nodes
  PROVE  /\ Relinked(f, n) \in [Nodes -> ListNodes]
         /\ \A m \in Nodes : /\ Relinked(f, n)[m].next = f[m].next
                             /\ Relinked(f, n)[m].used = f[m].used
                             /\ Relinked(f, n)[m].prev = IF m = f[n].next THEN n ELSE f[m].prev
<1>1. f[n].next \in Nodes \cup {Null} /\ Null \notin Nodes
  BY NullAssumption DEF ListNodes
<1>2. CASE f[n].next = Null
  BY <1>1, <1>2 DEF Relinked
<1>3. CASE f[n].next # Null
  <2> DEFINE k == f[n].next
  <2>1. k \in Nodes /\ Relinked(f, n) = [f EXCEPT ![k].prev = n]
    BY <1>1, <1>3 DEF Relinked
  <2> HIDE DEF k
  <2>2. [f EXCEPT ![k].prev = n] \in [Nodes -> ListNodes]
    BY <2>1 DEF ListNodes
  <2>3. \A m \in Nodes : /\ [f EXCEPT ![k].prev = n][m].next = f[m].next
                         /\ [f EXCEPT ![k].prev = n][m].used = f[m].used
                         /\ [f EXCEPT ![k].prev = n][m].prev = IF m = k THEN n ELSE f[m].prev
    BY <2>1 DEF ListNodes
  <2> QED BY <2>1, <2>2, <2>3 DEF k
<1> QED BY <1>2, <1>3

(* A node before the first, once the first leads back to it, ...           *)
LEMMA PushLinks ==
  ASSUME NEW h \in Nodes \cup {Null}, NEW f \in [Nodes -> ListNodes], DoublyLinked(h, f),
         NEW n \in Nodes \ Visited(h, f), f[n].next = h, f[n].prev = Null
  PROVE  DoublyLinked(n, Relinked(f, n))
<1> DEFINE V == Visited(h, f)
           g == Relinked(f, n)
<1>0. /\ g \in [Nodes -> ListNodes]
      /\ \A m \in Nodes : g[m].next = f[m].next /\ g[m].prev = IF m = h THEN n ELSE f[m].prev
  BY RelinkedLinks
<1> HIDE DEF g
<1>1. V \in SUBSET Nodes /\ n \in Nodes \ V /\ n # Null /\ Null \notin Nodes
  BY VisitedType, NullAssumption
<1>2. (h # Null => h \in V) /\ \A m \in V : f[m].next # Null => f[m].next \in V
  BY VisitedClosed DEF ClosedFrom
<1>3. \A m \in V : f[m].prev # Null => f[m].prev \in V
  BY VisitedPrev
<1>4. Visited(n, g) = {n} \cup V
  <2>1. Visited(n, f) = {n} \cup V
    BY VisitedPush
  <2>2. Visited(n, g) = Visited(n, f)
    <3>1. \A m \in Visited(n, f) : g[m].next = f[m].next
      BY <1>0, VisitedType
    <3> QED BY <1>0, <3>1, VisitedSame
  <2> QED BY <2>1, <2>2
<1>5. /\ h # Null => f[h].prev = Null
      /\ \A m \in V : /\ f[m].next # Null => f[f[m].next].prev = m
                      /\ f[m].prev # Null => f[f[m].prev].next = m
  BY DEF DoublyLinked
<1> HIDE DEF V
<1>6. g[n].prev = Null /\ g[n].next = h /\ (h # Null => g[h].prev = n)
  BY <1>0, <1>1, <1>2
<1>7. ASSUME NEW m \in V
      PROVE  /\ g[m].next # Null => g[g[m].next].prev = m
             /\ g[m].prev # Null => g[g[m].prev].next = m
  <2>1. g[m].next # Null => g[g[m].next].prev = m
    BY <1>0, <1>1, <1>2, <1>5, <1>7
  <2>2. g[m].prev # Null => g[g[m].prev].next = m
    BY <1>0, <1>1, <1>2, <1>3, <1>5, <1>7
  <2> QED BY <2>1, <2>2
<1>8. DoublyLinked(n, g)
  BY <1>1, <1>4, <1>6, <1>7 DEF DoublyLinked
<1> QED BY <1>8 DEF g

(* ... and what is left once a node is linked around, are doubly linked.   *)
LEMMA UnlinkLinks ==
  ASSUME NEW h \in Nodes \cup {Null}, NEW f \in [Nodes -> ListNodes],
         NEW g \in [Nodes -> ListNodes], NEW n \in Visited(h, f), DoublyLinked(h, f),
         NEW k, LinkedAround(h, f, n, k, g)
  PROVE  DoublyLinked(k, g)
<1> DEFINE V == Visited(h, f)
<1>1. V \in SUBSET Nodes /\ n \in V /\ n \in Nodes /\ n # Null /\ Null \notin Nodes
  BY VisitedType, NullAssumption
<1>2. (h # Null => h \in V) /\ \A m \in V : f[m].next # Null => f[m].next \in V
  BY VisitedClosed DEF ClosedFrom
<1>3. \A m \in V : f[m].prev # Null => f[m].prev \in V
  BY VisitedPrev
<1>4. /\ f[n].prev = Null <=> h = n
      /\ f[n].next # n /\ f[n].prev # n
      /\ \A m \in V \ {n} : f[m].next = n => m = f[n].prev
  BY <1>1, VisitedPrev
<1>5. Visited(k, g) = V \ {n}
  BY VisitedUnlink
<1>6. /\ h # Null => f[h].prev = Null
      /\ \A m \in V : /\ f[m].next # Null => f[f[m].next].prev = m
                      /\ f[m].prev # Null => f[f[m].prev].next = m
  BY DEF DoublyLinked
<1>7. /\ k = IF f[n].prev = Null THEN f[n].next ELSE h
      /\ \A m \in V \ {n} : /\ g[m].next = IF m = f[n].prev THEN f[n].next ELSE f[m].next
                            /\ g[m].prev = IF m = f[n].next THEN f[n].prev ELSE f[m].prev
  BY DEF LinkedAround
<1> HIDE DEF V
<1>8. k # Null => g[k].prev = Null
  <2>1. CASE f[n].prev = Null
    BY <1>1, <1>2, <1>4, <1>7, <2>1
  <2>2. CASE f[n].prev # Null
    BY <1>1, <1>2, <1>4, <1>6, <1>7, <2>2
  <2> QED BY <2>1, <2>2
<1>9. ASSUME NEW m \in V \ {n}, g[m].next # Null PROVE g[g[m].next].prev = m
  <2>1. CASE m = f[n].prev
    <3>1. g[m].next = f[n].next /\ f[n].next \in V \ {n}
      BY <1>1, <1>2, <1>4, <1>7, <1>9, <2>1
    <3> QED BY <1>7, <2>1, <3>1
  <2>2. CASE m # f[n].prev
    <3>1. g[m].next = f[m].next /\ f[m].next \in V \ {n}
      BY <1>2, <1>4, <1>7, <1>9, <2>2
    <3>2. f[f[m].next].prev = m /\ f[m].next # f[n].next
      BY <1>1, <1>6, <1>9, <3>1
    <3> QED BY <1>7, <3>1, <3>2
  <2> QED BY <2>1, <2>2
<1>10. ASSUME NEW m \in V \ {n}, g[m].prev # Null PROVE g[g[m].prev].next = m
  <2>1. CASE m = f[n].next
    <3>1. g[m].prev = f[n].prev /\ f[n].prev \in V \ {n}
      BY <1>1, <1>3, <1>4, <1>7, <1>10, <2>1
    <3> QED BY <1>7, <2>1, <3>1
  <2>2. CASE m # f[n].next
    <3>1. g[m].prev = f[m].prev /\ f[m].prev \in V \ {n} /\ f[f[m].prev].next = m
      BY <1>3, <1>6, <1>7, <1>10, <2>2
    <3>2. f[m].prev # f[n].prev
      BY <1>1, <1>6, <1>10, <3>1
    <3> QED BY <1>7, <3>1, <3>2
  <2> QED BY <2>1, <2>2
<1> QED BY <1>5, <1>8, <1>9, <1>10 DEF DoublyLinked

-----------------------------------------------------------------------------
(* Reservations and who holds them, with any number of threads.            *)

UsedNodes == {n \in Nodes : node[n].used}
Seeking == {"find", "reserved", "add"}

(* A claim's node spans it and is no other's; a node in use is in a claim  *)
(* unless it was forgotten.                                                *)
OwnInv ==
  /\ \A o \in Objs : claim[o].phase = "none" => claim[o].rv = Null
  /\ \A o \in Objs : claim[o].rv # Null =>
       /\ claim[o].rv \in UsedNodes \ orphans
       /\ node[claim[o].rv].start = claim[o].rw
       /\ node[claim[o].rv].stop = claim[o].rw + Pages(claim[o])
  /\ \A o, x \in Objs :
       claim[o].rv = claim[x].rv /\ claim[o].rv # Null => o = x
  /\ \A n \in UsedNodes \ orphans : \E o \in Objs : claim[o].rv = n
  /\ orphans \subseteq UsedNodes
  /\ \A t \in Threads : op[t].pc \in Seeking => Mine(t).rv = Null

(* Every step keeps it.                                                    *)
LEMMA OwnStep ==
  ASSUME IInv, IInv', OwnInv, [Next]_vars
  PROVE  OwnInv'
<1> USE DEF OwnInv, UsedNodes, At, Mine
<1>0. /\ claim \in [Objs -> Claims] /\ op \in [Threads -> Ops]
      /\ claim' \in [Objs -> Claims] /\ op' \in [Threads -> Ops]
      /\ node \in [Nodes -> ListNodes] /\ node' \in [Nodes -> ListNodes]
      /\ OneOperation /\ OneOperation' /\ InBounds /\ TypeOK
  BY DEF IInv, AliasInv, TypeOK, Claims, Ops, ListNodes
<1>k. ASSUME orphans' = orphans,
             \A n \in Nodes : /\ node'[n].used = node[n].used /\ node'[n].start = node[n].start
                              /\ node'[n].stop = node[n].stop,
             \A o \in Objs : /\ claim'[o].rv = claim[o].rv
                             /\ claim'[o].size = claim[o].size
                             /\ claim[o].rv # Null => claim'[o].rw = claim[o].rw
                             /\ claim'[o].phase = "none" => claim[o].phase = "none",
             \A t \in Threads : op'[t].pc \in Seeking =>
                op[t].pc \in Seeking /\ op'[t].obj = op[t].obj
      PROVE  OwnInv'
  <2>1. UsedNodes' = UsedNodes
    BY <1>k
  <2>2. \A o \in Objs : Pages(claim'[o]) = Pages(claim[o])
    BY <1>k DEF Pages
  <2>3. \A t \in Threads : op'[t].pc \in Seeking => op'[t].obj \in Objs /\ Mine(t)'.rv = Null
    <3> SUFFICES ASSUME NEW t \in Threads, op'[t].pc \in Seeking
                 PROVE  op'[t].obj \in Objs /\ claim'[op'[t].obj].rv = Null
      OBVIOUS
    <3>1. op[t].obj \in Objs
      BY <1>0, <1>k DEF OneOperation, Seeking
    <3> QED BY <1>k, <3>1
  <2> HIDE DEF UsedNodes
  <2>4. \A o \in Objs : claim'[o].rv # Null =>
          /\ claim'[o].rv \in UsedNodes' \ orphans'
          /\ node'[claim'[o].rv].start = claim'[o].rw
          /\ node'[claim'[o].rv].stop = claim'[o].rw + Pages(claim'[o])
    BY <1>0, <1>k, <2>1, <2>2 DEF Claims
  <2> QED BY <1>k, <2>1, <2>3, <2>4
<1>1. CASE UNCHANGED vars \/ Aborted
  BY <1>1, <1>k DEF vars, Aborted
<1>2. ASSUME NEW t \in Threads, NEW o \in Objs, NEW q \in Requests, Construct(t, o, q)
      PROVE  OwnInv'
  <2>1. /\ claim'[o].rv = Null /\ claim[o].rv = Null /\ claim'[o].phase = "ctor"
        /\ \A x \in Objs \ {o} : claim'[x] = claim[x]
    BY <1>0, <1>2 DEF Construct, NoClaim
  <2>2. node' = node /\ orphans' = orphans
    BY <1>2 DEF Construct
  <2>3. /\ op'[t].obj = o /\ \A u \in Threads \ {t} : op'[u] = op[u]
        /\ \A u \in Threads \ {t} : op'[u].pc # "idle" => op'[u].obj \in Objs /\ op'[u].obj # o
    BY <1>0, <1>2 DEF Construct, OneOperation
  <2>4. \A u \in Threads : op'[u].pc \in Seeking => claim'[op'[u].obj].rv = Null
    BY <2>1, <2>3 DEF Seeking
  <2>5. \A x \in Objs : claim'[x].rv # Null => x # o /\ Pages(claim'[x]) = Pages(claim[x])
    BY <2>1
  <2>6. \A n \in UsedNodes \ orphans : \E x \in Objs : claim'[x].rv = n
    BY <2>1, NullAssumption
  <2> QED BY <2>1, <2>2, <2>4, <2>5, <2>6
<1>3. ASSUME NEW t \in Threads, NEW p \in Slots, FindUnmapped(t, p) PROVE OwnInv'
  <2>1. op[t].pc = "find" /\ op[t].obj \in Objs /\ claim[op[t].obj].rv = Null
    BY <1>0, <1>3 DEF FindUnmapped, OneOperation, Seeking
  <2>2. claim' = claim \/ claim' = [claim EXCEPT ![op[t].obj].rw = p]
    BY <1>3 DEF FindUnmapped
  <2>3. \A x \in Objs : /\ claim'[x].rv = claim[x].rv
                        /\ claim'[x].size = claim[x].size /\ claim'[x].phase = claim[x].phase
                        /\ x # op[t].obj => claim'[x].rw = claim[x].rw
    <3>1. CASE claim' = claim
      BY <3>1
    <3>2. CASE claim' = [claim EXCEPT ![op[t].obj].rw = p]
      BY <1>0, <2>1, <3>2 DEF Claims
    <3> QED BY <2>2, <3>1, <3>2
  <2>4. \A u \in Threads : /\ op'[u].obj = op[u].obj
                           /\ u # t => op'[u].pc = op[u].pc
    <3>1. op' = [op EXCEPT ![t].pc = "reserved"] \/ op' = [op EXCEPT ![t].tries = op[t].tries + 1]
      BY <1>0, <1>3 DEF FindUnmapped, Goto
    <3> QED BY <1>0, <3>1 DEF Ops
  <2>5. node' = node /\ orphans' = orphans
    BY <1>3 DEF FindUnmapped
  <2> QED BY <1>k, <2>1, <2>3, <2>4, <2>5 DEF Seeking
<1>4. ASSUME NEW t \in Threads,
             FindUnreserved(t) \/ FindFails(t) \/ AddFails(t) \/ Push(t) \/ MapRange(t)
             \/ UnmapRange(t)
      PROVE  OwnInv'
  <2>1. claim' = claim /\ node' = node /\ orphans' = orphans
    BY <1>4 DEF FindUnreserved, FindFails, AddFails, Push, MapRange, UnmapRange
  <2>2. \A u \in Threads \ {t} : op'[u] = op[u]
    BY <1>0, <1>4, SMTT(30) DEF FindUnreserved, FindFails, AddFails, Push, MapRange, UnmapRange, Goto
  <2>3. op'[t].obj = op[t].obj /\ (op'[t].pc \in Seeking => op[t].pc \in Seeking)
    <3>1. CASE FindFails(t) \/ AddFails(t)
      BY <3>1 DEF FindFails, AddFails
    <3>2. CASE FindUnreserved(t)
      <4>1. op[t].pc = "reserved"
        BY <3>2 DEF FindUnreserved
      <4>2. \/ op' = [op EXCEPT ![t].pc = "find", ![t].tries = op[t].tries + 1]
            \/ op' = [op EXCEPT ![t].pc = "add"]
        BY <3>2 DEF FindUnreserved, Goto
      <4> QED BY <1>0, <4>1, <4>2 DEF Ops, Seeking
    <3>3. CASE Push(t)
      BY <1>0, <3>3 DEF Push, Goto, Ops, Seeking
    <3>4. CASE MapRange(t) \/ UnmapRange(t)
      <4> DEFINE n == RangeStop(Mine(t), op[t].at)
                 Past(pc, qc) == op' = [op EXCEPT ![t].at = n,
                                                  ![t].pc = IF n = Pages(Mine(t)) THEN pc ELSE qc]
      <4>1. op' = op \/ Past("check", "map") \/ Past("unlink", "unmap")
        BY <3>4 DEF MapRange, UnmapRange
      <4> HIDE DEF n
      <4>2. ASSUME NEW pc \in PCs \ Seeking, NEW qc \in PCs \ Seeking, Past(pc, qc)
            PROVE  op'[t].obj = op[t].obj /\ op'[t].pc \notin Seeking
        BY <1>0, <4>2 DEF Ops
      <4> HIDE DEF Past
      <4>3. "check" \in PCs \ Seeking /\ "map" \in PCs \ Seeking
            /\ "unlink" \in PCs \ Seeking /\ "unmap" \in PCs \ Seeking
        BY DEF PCs, Seeking
      <4> QED BY <4>1, <4>2, <4>3
    <3> QED BY <1>4, <3>1, <3>2, <3>3, <3>4
  <2> QED BY <1>k, <2>1, <2>2, <2>3
<1>5. ASSUME NEW t \in Threads, NEW n \in Nodes, AddNode(t, n) PROVE OwnInv'
  <2> DEFINE o == op[t].obj
  <2>1. op[t].pc = "add" /\ o \in Objs /\ claim[o].rv = Null /\ n \notin UsedNodes
    BY <1>0, <1>5 DEF AddNode, OneOperation, Seeking
  <2>2. \A x \in Objs : /\ Pages(claim'[x]) = Pages(claim[x])
                        /\ claim'[x].phase = claim[x].phase
                        /\ claim'[x].rw = claim[x].rw
                        /\ claim'[x].rv = IF x = o THEN n ELSE claim[x].rv
    BY <1>0, <1>5, <2>1 DEF AddNode, Pages, Claims
  <2>3. \A u \in Threads : /\ op'[u].obj = op[u].obj
                           /\ op'[u].pc = IF u = t THEN "push" ELSE op[u].pc
    BY <1>0, <1>5 DEF AddNode, Goto, Ops
  <2>4. /\ node'[n].used /\ node'[n].start = claim[o].rw
        /\ node'[n].stop = claim[o].rw + Pages(claim[o])
        /\ \A x \in Nodes \ {n} : node'[x] = node[x]
        /\ orphans' = orphans
    BY <1>0, <1>5 DEF AddNode
  <2>5. UsedNodes' = UsedNodes \cup {n}
    BY <2>4
  <2>6. \A u \in Threads \ {t} : op[u].pc # "idle" => op[u].obj \in Objs /\ op[u].obj # o
    BY <1>0, <2>1 DEF OneOperation
  <2>7. \A u \in Threads : op'[u].pc \in Seeking => claim'[op'[u].obj].rv = Null
    BY <2>2, <2>3, <2>6 DEF Seeking
  <2>8. claim[o].phase # "none"
    BY <1>0, <2>1 DEF OneOperation
  <2>9. n # Null
    BY NullAssumption
  <2> HIDE DEF o, UsedNodes
  <2>10. \A x \in Objs : claim[x].rv # Null => claim[x].rv # n
    BY <2>1
  <2>11. \A x \in Objs : claim'[x].rv # Null =>
           /\ claim'[x].rv \in UsedNodes' \ orphans'
           /\ node'[claim'[x].rv].start = claim'[x].rw
           /\ node'[claim'[x].rv].stop = claim'[x].rw + Pages(claim'[x])
    <3> SUFFICES ASSUME NEW x \in Objs, claim'[x].rv # Null
                 PROVE  /\ claim'[x].rv \in UsedNodes' \ orphans'
                        /\ node'[claim'[x].rv].start = claim'[x].rw
                        /\ node'[claim'[x].rv].stop = claim'[x].rw + Pages(claim'[x])
      OBVIOUS
    <3>1. CASE x = o
      BY <2>1, <2>2, <2>4, <2>5, <3>1
    <3>2. CASE x # o
      <4>1. claim[x].rv \in Nodes \ {n}
        BY <1>0, <2>2, <2>10, <3>2 DEF Claims
      <4> QED BY <2>2, <2>4, <2>5, <3>2, <4>1
    <3> QED BY <3>1, <3>2
  <2>12. \A x \in Objs : claim'[x].phase = "none" => claim'[x].rv = Null
    BY <2>2, <2>8
  <2>13. \A x, y \in Objs : claim'[x].rv = claim'[y].rv
                            /\ claim'[x].rv # Null => x = y
    BY <2>2, <2>10
  <2>14. \A m \in UsedNodes' \ orphans' : \E x \in Objs : claim'[x].rv = m
    <3> SUFFICES ASSUME NEW m \in UsedNodes \cup {n}, m \notin orphans
                 PROVE  \E x \in Objs : claim'[x].rv = m
      BY <2>4, <2>5
    <3>1. CASE m = n
      BY <2>1, <2>2, <3>1
    <3>2. CASE m # n
      <4>1. PICK x \in Objs : claim[x].rv = m
        BY <3>2
      <4>2. x # o
        BY <2>1, <4>1, <3>2, NullAssumption DEF UsedNodes
      <4> QED BY <2>2, <4>1, <4>2
    <3> QED BY <3>1, <3>2
  <2> QED BY <2>4, <2>5, <2>7, <2>11, <2>12, <2>13, <2>14
<1>6. ASSUME NEW t \in Threads, LinkBack(t) \/ UnlinkNext(t) PROVE OwnInv'
  <2>1. claim' = claim /\ orphans' = orphans
    BY <1>6 DEF LinkBack, UnlinkNext
  <2>2. \E x, y : node' = node \/ node' = [node EXCEPT ![x].prev = y]
    <3>1. CASE LinkBack(t)
      BY <3>1, Zenon DEF LinkBack
    <3>2. CASE UnlinkNext(t)
      BY <3>2, Zenon DEF UnlinkNext
    <3> QED BY <1>6, <3>1, <3>2
  <2>3. \A n \in Nodes : /\ node'[n].used = node[n].used /\ node'[n].start = node[n].start
                         /\ node'[n].stop = node[n].stop
    BY <1>0, <2>2 DEF ListNodes
  <2>4. \/ op' = [op EXCEPT ![t].pc = "map"]
        \/ op' = [op EXCEPT ![t].pc = "free"]
    BY <1>6 DEF LinkBack, UnlinkNext, Goto
  <2>5. \A u \in Threads : op'[u].pc \in Seeking => op[u].pc \in Seeking /\ op'[u].obj = op[u].obj
    BY <1>0, <2>4 DEF Ops, Seeking
  <2> QED BY <1>k, <2>1, <2>3, <2>5
<1>7. ASSUME NEW t \in Threads, Compare(t) PROVE OwnInv'
  <2>1. op[t].pc = "check" /\ op[t].obj \in Objs /\ node' = node /\ orphans' = orphans
    BY <1>0, <1>7 DEF Compare, OneOperation
  <2>2. CASE claim' = claim /\ op' = op
    BY <1>k, <2>1, <2>2
  <2>3. CASE claim' = [claim EXCEPT ![op[t].obj].phase = "live"] /\ op' = [op EXCEPT ![t] = Idle]
    <3>1. \A x \in Objs : /\ claim'[x].rv = claim[x].rv
                          /\ claim'[x].size = claim[x].size /\ claim'[x].rw = claim[x].rw
                          /\ claim'[x].phase = "none" => claim[x].phase = "none"
      BY <1>0, <2>1, <2>3 DEF Claims
    <3>2. \A u \in Threads : op'[u].pc \in Seeking => op[u].pc \in Seeking /\ op'[u].obj = op[u].obj
      BY <1>0, <2>3 DEF Idle, Seeking
    <3> QED BY <1>k, <2>1, <3>1, <3>2
  <2> QED BY <1>7, <2>2, <2>3 DEF Compare, Return
<1>8. ASSUME NEW t \in Threads, NEW o \in Objs, Destroy(t, o) PROVE OwnInv'
  <2>1. node' = node
    BY <1>8 DEF Destroy
  <2>2. CASE claim[o].owner
    <3>1. claim' = [claim EXCEPT ![o].phase = "dtor"] /\ orphans' = orphans
      BY <1>8, <2>2 DEF Destroy
    <3>2. \A x \in Objs : /\ claim'[x].rv = claim[x].rv
                          /\ claim'[x].size = claim[x].size /\ claim'[x].rw = claim[x].rw
                          /\ claim'[x].phase = "none" => claim[x].phase = "none"
      BY <1>0, <3>1 DEF Claims
    <3>3. \A u \in Threads : op'[u].pc \in Seeking => op[u].pc \in Seeking /\ op'[u].obj = op[u].obj
      BY <1>0, <1>8, <2>2 DEF Destroy, Seeking
    <3> QED BY <1>k, <2>1, <3>1, <3>2, <3>3
  <2>3. CASE ~claim[o].owner
    <3> DEFINE lost == Reserved(claim[o])
    <3>1. /\ op' = op /\ claim'[o].phase = "none" /\ claim'[o].rv = Null
          /\ orphans' = orphans \cup lost
          /\ \A x \in Objs \ {o} : claim'[x] = claim[x]
      BY <1>0, <1>8, <2>3 DEF Destroy, NoClaim
    <3>2. \A u \in Threads : op'[u].pc \in Seeking => claim'[op'[u].obj].rv = Null
      BY <1>0, <3>1 DEF Seeking, OneOperation
    <3>3. \A x \in Objs : claim'[x].rv # Null => x # o /\ Pages(claim'[x]) = Pages(claim[x])
      BY <3>1
    <3>5. lost = IF claim[o].rv = Null THEN {} ELSE {claim[o].rv}
      BY DEF Reserved
    <3> HIDE DEF lost, UsedNodes
    <3>6. UsedNodes' = UsedNodes
      BY <2>1 DEF UsedNodes
    <3>4. \A n \in UsedNodes \ (orphans \cup lost) : \E x \in Objs : claim'[x].rv = n
      <4> SUFFICES ASSUME NEW n \in UsedNodes \ orphans, n \notin lost
                   PROVE  \E x \in Objs : claim'[x].rv = n
        OBVIOUS
      <4>1. PICK x \in Objs : claim[x].rv = n
        OBVIOUS
      <4>2. n # Null
        BY NullAssumption DEF UsedNodes
      <4> QED BY <3>1, <3>5, <4>1, <4>2
    <3>7. \A x \in Objs : claim'[x].rv # Null =>
             /\ claim'[x].rv \in UsedNodes \ (orphans \cup lost)
             /\ node[claim'[x].rv].start = claim'[x].rw
             /\ node[claim'[x].rv].stop = claim'[x].rw + Pages(claim'[x])
      BY <3>1, <3>3, <3>5
    <3>8. \A x, y \in Objs : claim'[x].rv = claim'[y].rv /\ claim'[x].rv # Null => x = y
      BY <3>1, <3>3
    <3>9. orphans \cup lost \subseteq UsedNodes
      BY <3>5
    <3>10. \A x \in Objs : claim'[x].phase = "none" => claim'[x].rv = Null
      BY <3>1
    <3> QED BY <2>1, <3>1, <3>2, <3>4, <3>6, <3>7, <3>8, <3>9, <3>10
  <2> QED BY <2>2, <2>3
<1>9. ASSUME NEW t \in Threads, UnlinkPrev(t) PROVE OwnInv'
  <2> DEFINE o == op[t].obj
             n == claim[o].rv
  <2>1. op[t].pc = "free" /\ o \in Objs /\ n \in Nodes
    BY <1>0, <1>9 DEF UnlinkPrev, OneOperation
  <2>2. /\ claim'[o].phase = "none" /\ claim'[o].rv = Null
        /\ \A x \in Objs \ {o} : claim'[x] = claim[x]
    BY <1>0, <1>9, <2>1 DEF UnlinkPrev, NoClaim
  <2>3. op'[t].pc = "idle" /\ \A u \in Threads \ {t} : op'[u] = op[u]
    BY <1>0, <1>9 DEF UnlinkPrev, Return, Idle
  <2>4. /\ orphans' = orphans
        /\ \/ node' = [node EXCEPT ![n] = NoNode]
           \/ \E x, y : node' = [node EXCEPT ![x].next = y, ![n] = NoNode]
    BY <1>9 DEF UnlinkPrev
  <2>5. n # Null
    BY <2>1, NullAssumption
  <2> HIDE DEF n, o
  <2>6. /\ ~node'[n].used
        /\ \A x \in Nodes \ {n} : /\ node'[x].used = node[x].used /\ node'[x].start = node[x].start
                                  /\ node'[x].stop = node[x].stop
    <3>1. ~NoNode.used
      BY DEF NoNode
    <3>2. CASE node' = [node EXCEPT ![n] = NoNode]
      BY <1>0, <2>1, <3>1, <3>2
    <3>3. CASE \E x, y : node' = [node EXCEPT ![x].next = y, ![n] = NoNode]
      <4>1. PICK x, y : node' = [node EXCEPT ![x].next = y, ![n] = NoNode]
        BY <3>3
      <4> QED BY <1>0, <2>1, <3>1, <4>1 DEF ListNodes
    <3> QED BY <2>4, <3>2, <3>3
  <2>7. n \in UsedNodes \ orphans /\ \A x \in Objs \ {o} : claim[x].rv # n
    BY <2>1, <2>5 DEF n
  <2>8. UsedNodes' = UsedNodes \ {n}
    BY <2>6
  <2>9. \A u \in Threads : op'[u].pc \in Seeking => claim'[op'[u].obj].rv = Null
    BY <1>0, <2>1, <2>2, <2>3 DEF Seeking, OneOperation, o
  <2> HIDE DEF UsedNodes
  <2>10. \A x \in Objs : claim'[x].rv # Null =>
           /\ claim'[x].rv \in UsedNodes' \ orphans'
           /\ node'[claim'[x].rv].start = claim'[x].rw
           /\ node'[claim'[x].rv].stop = claim'[x].rw + Pages(claim'[x])
    BY <1>0, <2>2, <2>4, <2>6, <2>7, <2>8 DEF Claims
  <2>11. \A m \in UsedNodes' \ orphans' : \E x \in Objs : claim'[x].rv = m
    <3> SUFFICES ASSUME NEW m \in UsedNodes \ {n}, m \notin orphans
                 PROVE  \E x \in Objs : claim'[x].rv = m
      BY <2>4, <2>8
    <3>1. PICK x \in Objs : claim[x].rv = m
      OBVIOUS
    <3>2. x # o
      BY <3>1 DEF n
    <3> QED BY <2>2, <3>1, <3>2
  <2> QED BY <2>2, <2>4, <2>7, <2>8, <2>9, <2>10, <2>11
<1>10. ASSUME NEW t \in Threads, NEW o \in Objs, MoveAssign(t, o, o) PROVE OwnInv'
  <2>1. /\ op' = op /\ node' = node /\ orphans' = orphans
        /\ \A x \in Objs : /\ claim'[x].rv = claim[x].rv /\ claim'[x].size = claim[x].size
                            /\ claim'[x].rw = claim[x].rw /\ claim'[x].phase = claim[x].phase
    BY <1>0, <1>10, SelfMoveEffect
  <2> QED BY <1>k, <2>1
<1>11. ASSUME NEW t \in Threads, NEW o \in Objs, NEW p \in Objs, o # p,
              MoveConstruct(t, o, p) \/ MoveAssign(t, o, p)
       PROVE  OwnInv'
  <2> DEFINE lost == Reserved(claim[p])
  <2>1. /\ op' = op /\ node' = node
        /\ claim[o].phase = "live" /\ claim[p].phase \in {"none", "live"}
        /\ claim'[o].rv = Null /\ claim'[o].phase = "live" /\ claim'[p].phase = "live"
        /\ claim'[p].rw = claim[o].rw /\ claim'[p].rv = claim[o].rv
        /\ Pages(claim'[p]) = Pages(claim[o])
        /\ \A x \in Objs \ {o, p} : claim'[x] = claim[x]
    BY <1>0, <1>11, MoveEffect, EmptyClaims
  <2>2. orphans' = orphans \cup lost
    <3>1. CASE MoveConstruct(t, o, p)
      BY <3>1 DEF MoveConstruct, Reserved
    <3>2. CASE MoveAssign(t, o, p)
      BY <1>11, <3>2 DEF MoveAssign
    <3> QED BY <1>11, <3>1, <3>2
  <2>3. \A u \in Threads : op[u].pc \in Seeking => op[u].obj # o /\ op[u].obj # p /\ op[u].obj \in Objs
    BY <1>0, <2>1 DEF OneOperation, Seeking
  <2>4. lost = IF claim[p].rv = Null THEN {} ELSE {claim[p].rv}
    BY DEF Reserved
  <2> HIDE DEF UsedNodes, lost
  <2>5. UsedNodes' = UsedNodes
    BY <2>1 DEF UsedNodes
(* What an object has now the object it moved from had before.             *)
  <2>6. ASSUME NEW x \in Objs, claim'[x].rv # Null
        PROVE  LET y == IF x = p THEN o ELSE x
               IN  /\ x # o /\ y # p /\ y \in Objs /\ claim'[x].rv = claim[y].rv
                   /\ claim'[x].rw = claim[y].rw /\ Pages(claim'[x]) = Pages(claim[y])
    BY <1>11, <2>1, <2>6
  <2>7. \A m \in UsedNodes' \ orphans' : \E x \in Objs : claim'[x].rv = m
    <3> SUFFICES ASSUME NEW m \in UsedNodes \ orphans, m \notin lost
                 PROVE  \E x \in Objs : claim'[x].rv = m
      BY <2>2, <2>5
    <3>1. PICK x \in Objs : claim[x].rv = m
      OBVIOUS
    <3>2. m # Null
      BY NullAssumption DEF UsedNodes
    <3>3. x # p
      BY <2>4, <3>1, <3>2
    <3> QED BY <2>1, <3>1, <3>3
  <2>8. \A x \in Objs : claim'[x].rv # Null =>
           /\ claim'[x].rv \in UsedNodes' \ orphans'
           /\ node'[claim'[x].rv].start = claim'[x].rw
           /\ node'[claim'[x].rv].stop = claim'[x].rw + Pages(claim'[x])
    <3> SUFFICES ASSUME NEW x \in Objs, claim'[x].rv # Null
                 PROVE  /\ claim'[x].rv \in UsedNodes \ (orphans \cup lost)
                        /\ node[claim'[x].rv].start = claim'[x].rw
                        /\ node[claim'[x].rv].stop = claim'[x].rw + Pages(claim'[x])
      BY <2>1, <2>2, <2>5
    <3>1. PICK y \in Objs \ {p} : /\ claim'[x].rv = claim[y].rv
                                  /\ claim'[x].rw = claim[y].rw
                                  /\ Pages(claim'[x]) = Pages(claim[y])
      BY <2>6
    <3>2. claim[y].rv \notin lost
      BY <2>4, <3>1
    <3> QED BY <3>1, <3>2
  <2>9. \A x, y \in Objs : claim'[x].rv = claim'[y].rv /\ claim'[x].rv # Null => x = y
    <3> SUFFICES ASSUME NEW x \in Objs, NEW y \in Objs,
                        claim'[x].rv = claim'[y].rv, claim'[x].rv # Null
                 PROVE  x = y
      OBVIOUS
    <3>1. (IF x = p THEN o ELSE x) = (IF y = p THEN o ELSE y)
      BY <2>6
    <3> QED BY <2>6, <3>1
  <2>10. \A u \in Threads : op'[u].pc \in Seeking => claim'[op'[u].obj].rv = Null
    <3> SUFFICES ASSUME NEW u \in Threads, op[u].pc \in Seeking PROVE claim'[op[u].obj].rv = Null
      BY <2>1
    <3>1. claim'[op[u].obj] = claim[op[u].obj]
      BY <2>1, <2>3
    <3> QED BY <3>1
  <2>11. ASSUME NEW x \in Objs, claim'[x].phase = "none" PROVE claim'[x].rv = Null
    <3>1. x # p /\ x # o
      BY <2>1, <2>11
    <3> QED BY <2>1, <2>11, <3>1
  <2>12. orphans' \subseteq UsedNodes'
    BY <2>2, <2>4, <2>5
  <2> QED BY <2>7, <2>8, <2>9, <2>10, <2>11, <2>12
<1>12. ASSUME NEW p \in Slots, GameMaps(p) \/ GameUnmaps(p) PROVE OwnInv'
  BY <1>12, <1>k DEF GameMaps, GameUnmaps
<1> QED
  BY <1>1, <1>2, <1>3, <1>4, <1>5, <1>6, <1>7, <1>8, <1>9, <1>10, <1>11, <1>12
     DEF Next, Step, MoveConstruct

(* It holds of every behaviour.                                            *)
LEMMA InitOwn == Init => OwnInv
  BY DEF Init, OwnInv, UsedNodes, NoClaim, NoNode, Idle, Seeking

LEMMA OwnInductive == Spec => [](IInv /\ OwnInv)
<1>1. Init => OwnInv
  BY InitOwn
<1>2. IInv /\ [Next]_vars => IInv'
  BY InductiveStep
<1>3. IInv /\ OwnInv /\ [Next]_vars => (IInv /\ OwnInv)'
  BY <1>2, OwnStep
<1> QED BY <1>1, <1>3, InitIInv, PTL DEF Spec

(* Each reservation has exactly one holder or was forgotten by a move      *)
(* assignment, and no object refers to one that is freed.                  *)
LEMMA OwnersAreExact ==
  ASSUME OwnInv
  PROVE  ReservationsOwned
<1> SUFFICES ASSUME NEW n \in Nodes
             PROVE  LET holders == {o \in Objs : claim[o].rv = n}
                    IN  IF node[n].used /\ n \notin orphans THEN Cardinality(holders) = 1
                        ELSE holders = {}
  BY DEF ReservationsOwned
<1> DEFINE holders == {o \in Objs : claim[o].rv = n}
<1>1. n # Null
  BY NullAssumption
<1>2. CASE node[n].used /\ n \notin orphans
  <2>1. PICK o \in Objs : claim[o].rv = n
    BY <1>2 DEF OwnInv, UsedNodes
  <2>2. holders = {o}
    BY <1>1, <2>1 DEF OwnInv
  <2>3. Cardinality({o}) = 1
    BY FS_Singleton
  <2> QED BY <1>2, <2>2, <2>3
<1>3. CASE ~(node[n].used /\ n \notin orphans)
  <2>1. holders = {}
    BY <1>1, <1>3 DEF OwnInv, UsedNodes
  <2> QED BY <1>3, <2>1
<1> QED BY <1>2, <1>3

(* So it stays whatever threads construct, move and destroy objects.       *)
THEOREM ReservationsHaveOwners == Spec => []ReservationsOwned
  BY OwnInductive, OwnersAreExact, PTL

(* What shows code is held by an object, or was forgotten with its node.   *)
Forgotten(p) == \E n \in orphans : node[n].start <= p /\ p < node[n].stop
CodeInv ==
  \A p \in Slots : frame[p] \in 0..RoPages-1 => Forgotten(p) \/ \E o \in Objs : Holds(o, p)

(* An object that holds a page has a reservation around it.                *)
LEMMA HeldIsReserved ==
  ASSUME IInv, OwnInv, NEW o \in Objs, NEW p \in Slots, Holds(o, p)
  PROVE  /\ claim[o].rv \in UsedNodes /\ claim[o].rv # Null
         /\ node[claim[o].rv].start <= p /\ p < node[claim[o].rv].stop
<1>1. claim[o] \in Claims /\ claim[o].rw <= p /\ p < claim[o].rw + Pages(claim[o])
  BY DEF Holds, IInv, TypeOK, Claims
<1>2. claim[o].rw \in Nat /\ p \in Nat /\ Pages(claim[o]) \in Nat
  BY <1>1, PagesType DEF Claims, Slots
<1>3. ~IsEmpty(claim[o])
  BY <1>1, <1>2 DEF IsEmpty
<1>4. claim[o].rv \in Nodes
  <2>1. CASE claim[o].phase \in {"live", "dtor"}
    BY <1>3, <2>1 DEF IInv, AliasInv, InBounds
  <2>2. CASE claim[o].phase \notin {"live", "dtor"}
    <3>1. PICK t \in Threads : op[t].obj = o /\ op[t].pc \in {"map", "check", "unmap"}
      BY <2>2 DEF Holds
    <3>2. op[t].pc # "unmap"
      BY <2>2, <3>1 DEF IInv, AliasInv, OneOperation, Mine
    <3> QED BY <3>1, <3>2 DEF IInv, AliasInv, OneOperation, Mine
  <2> QED BY <2>1, <2>2
<1>5. claim[o].rv # Null
  BY <1>4, NullAssumption
<1> QED BY <1>1, <1>4, <1>5 DEF OwnInv

(* No step frees or moves a forgotten reservation.                         *)
LEMMA OrphansKept ==
  ASSUME IInv, IInv', OwnInv, [Next]_vars
  PROVE  \A n \in orphans : /\ n \in orphans' /\ n \in Nodes
                            /\ node'[n].start = node[n].start /\ node'[n].stop = node[n].stop
<1> USE DEF At, Mine
<1>0. /\ claim \in [Objs -> Claims] /\ op \in [Threads -> Ops]
      /\ node \in [Nodes -> ListNodes] /\ node' \in [Nodes -> ListNodes]
      /\ OneOperation /\ orphans \subseteq Nodes /\ \A n \in orphans : node[n].used
  BY DEF IInv, AliasInv, TypeOK, Claims, Ops, ListNodes, OwnInv, UsedNodes
<1>1. CASE node' = node /\ orphans \subseteq orphans'
  BY <1>0, <1>1
<1>2. ASSUME NEW t \in Threads, NEW n \in Nodes, AddNode(t, n)
      PROVE  orphans' = orphans /\ \A x \in Nodes : node[x].used => node'[x] = node[x]
  BY <1>0, <1>2 DEF AddNode
<1>3. ASSUME NEW t \in Threads, LinkBack(t) \/ UnlinkNext(t)
      PROVE  /\ orphans' = orphans
             /\ \A x \in Nodes : node'[x].start = node[x].start /\ node'[x].stop = node[x].stop
  <2>1. \E x, y : node' = node \/ node' = [node EXCEPT ![x].prev = y]
    <3>1. CASE LinkBack(t)
      BY <3>1, Zenon DEF LinkBack
    <3>2. CASE UnlinkNext(t)
      BY <3>2, Zenon DEF UnlinkNext
    <3> QED BY <1>3, <3>1, <3>2
  <2>2. \A x \in Nodes : node'[x].start = node[x].start /\ node'[x].stop = node[x].stop
    BY <1>0, <2>1 DEF ListNodes
  <2> QED BY <1>3, <2>2 DEF LinkBack, UnlinkNext
<1>4. ASSUME NEW t \in Threads, UnlinkPrev(t)
      PROVE  /\ orphans' = orphans
             /\ \A x \in orphans : node'[x].start = node[x].start /\ node'[x].stop = node[x].stop
  <2> DEFINE m == claim[op[t].obj].rv
  <2>1. m \in Nodes /\ m \notin orphans /\ orphans' = orphans
    <3>1. op[t].pc = "free" /\ op[t].obj \in Objs
      BY <1>0, <1>4 DEF UnlinkPrev, OneOperation
    <3>2. claim[op[t].obj].owner /\ m \in Nodes
      BY <1>0, <3>1 DEF OneOperation
    <3>3. m # Null
      BY <3>2, NullAssumption
    <3> QED BY <1>4, <3>1, <3>2, <3>3 DEF UnlinkPrev, OwnInv
  <2>2. \/ node' = [node EXCEPT ![m] = NoNode]
        \/ \E x, y : node' = [node EXCEPT ![x].next = y, ![m] = NoNode]
    BY <1>4 DEF UnlinkPrev
  <2> HIDE DEF m
  <2>3. CASE node' = [node EXCEPT ![m] = NoNode]
    BY <1>0, <2>1, <2>3
  <2>4. ASSUME NEW x, NEW y, node' = [node EXCEPT ![x].next = y, ![m] = NoNode]
        PROVE  \A z \in Nodes \ {m} : node'[z].start = node[z].start /\ node'[z].stop = node[z].stop
    BY <1>0, <2>1, <2>4 DEF ListNodes
  <2> QED BY <1>0, <2>1, <2>2, <2>3, <2>4
<1>5. ASSUME NEW t \in Threads,
             \/ \E o \in Objs, q \in Requests : Construct(t, o, q)
             \/ \E o \in Objs : Destroy(t, o)
             \/ \E o, p \in Objs : MoveConstruct(t, o, p) \/ MoveAssign(t, o, p)
             \/ \E p \in Slots : FindUnmapped(t, p)
             \/ FindUnreserved(t) \/ FindFails(t) \/ AddFails(t) \/ Push(t) \/ MapRange(t)
             \/ Compare(t) \/ UnmapRange(t)
      PROVE  node' = node /\ orphans \subseteq orphans'
  BY <1>5, ZenonT(60) DEF Construct, Destroy, MoveConstruct, MoveAssign, FindUnmapped,
     FindUnreserved, FindFails, AddFails, Push, MapRange, Compare, UnmapRange
<1>6. ASSUME NEW p \in Slots, GameMaps(p) \/ GameUnmaps(p)
      PROVE  node' = node /\ orphans' = orphans
  BY <1>6 DEF GameMaps, GameUnmaps
<1>7. CASE UNCHANGED vars \/ Aborted
  BY <1>1, <1>7 DEF vars, Aborted
<1> QED BY <1>0, <1>1, <1>2, <1>3, <1>4, <1>5, <1>6, <1>7 DEF Next, Step

(* A page that comes to show code is one its object now holds, and a page  *)
(* that is let go of has been unmapped, or is forgotten with its node.     *)
LEMMA CodeStep ==
  ASSUME IInv, IInv', OwnInv, OwnInv', CodeInv, [Next]_vars
  PROVE  CodeInv'
<1> USE DEF CodeInv, At, Mine
<1>0. /\ claim \in [Objs -> Claims] /\ op \in [Threads -> Ops]
      /\ claim' \in [Objs -> Claims] /\ op' \in [Threads -> Ops]
      /\ OneOperation /\ InBounds /\ TypeOK /\ TypeOK'
  BY DEF IInv, AliasInv, TypeOK, Claims, Ops
<1>f. \A p \in Slots : Forgotten(p) => Forgotten(p)'
  BY OrphansKept DEF Forgotten
<1>k. ASSUME \A p \in Slots : frame'[p] = frame[p] \/ frame'[p] \notin 0..RoPages-1,
             \A p \in Slots : \A o \in Objs : Holds(o, p) =>
               Forgotten(p)' \/ \E x \in Objs : Holds(x, p)'
      PROVE  CodeInv'
  BY <1>f, <1>k
<1>1. CASE UNCHANGED vars \/ Aborted
  BY <1>1, <1>k DEF vars, Aborted, Holds, Pages
<1>2. ASSUME NEW t \in Threads, NEW o \in Objs, NEW q \in Requests, Construct(t, o, q)
      PROVE  CodeInv'
  <2>1. claim[o].phase = "none" /\ frame' = frame /\ \A x \in Objs \ {o} : claim'[x] = claim[x]
    BY <1>0, <1>2 DEF Construct
  <2>2. op[t].pc = "idle" /\ \A u \in Threads \ {t} : op'[u] = op[u]
    BY <1>0, <1>2 DEF Construct
  <2>3. \A u \in Threads : op[u].pc # "idle" => op[u].obj # o
    BY <1>0, <2>1 DEF OneOperation
  <2>4. \A p \in Slots : \A x \in Objs : Holds(x, p) => Holds(x, p)'
    BY <2>1, <2>2, <2>3 DEF Holds, Pages
  <2> QED BY <1>k, <2>1, <2>4
<1>3. ASSUME NEW t \in Threads, QuietStep(t) PROVE CodeInv'
  <2>1. /\ op[t].pc \in {"find", "reserved", "add", "push", "back", "unlink"} /\ frame' = frame
        /\ op[t].obj \in Objs /\ claim[op[t].obj].phase \in {"ctor", "dtor"}
        /\ \A u \in Threads \ {t} : op'[u] = op[u]
        /\ \A u \in Threads \ {t} : op[u].pc # "idle" => op[u].obj # op[t].obj
        /\ \A x \in Objs : /\ claim'[x].page = claim[x].page /\ claim'[x].size = claim[x].size
                           /\ claim'[x].phase = claim[x].phase
                           /\ x # op[t].obj => claim'[x].rw = claim[x].rw
    BY <1>0, <1>3, QuietEffect
  <2>2. \A p \in Slots : \A x \in Objs : Holds(x, p) => Holds(x, p)'
    <3> SUFFICES ASSUME NEW p \in Slots, NEW x \in Objs, Holds(x, p) PROVE Holds(x, p)'
      OBVIOUS
    <3>1. x # op[t].obj
      BY <2>1 DEF Holds
    <3>2. \A u \in Threads : op[u].pc \in {"map", "check", "unmap"} => op'[u] = op[u]
      BY <2>1
    <3> QED BY <2>1, <3>1, <3>2 DEF Holds, Pages
  <2> QED BY <1>k, <2>1, <2>2
<1>4. ASSUME NEW t \in Threads, MapRange(t) PROVE CodeInv'
  <2> DEFINE o == op[t].obj
  <2>1. /\ op[t].pc = "map" /\ o \in Objs /\ claim' = claim
        /\ claim[o].phase = "ctor" /\ op[t].at < Pages(claim[o])
        /\ claim[o].rw \in Nat /\ Pages(claim[o]) \in Nat /\ op[t].at \in Nat
    BY <1>0, <1>4, MapEffect
  <2>2. PICK stop \in Nat :
          /\ stop <= Pages(claim[o]) /\ op[t].at < stop
          /\ \/ op' = op /\ frame' = frame
             \/ /\ \A p \in Slots : ~(claim[o].rw + op[t].at <= p /\ p < claim[o].rw + stop) =>
                     frame'[p] = frame[p]
                /\ op'[t].obj = o /\ op'[t].at = stop
                /\ op'[t].pc = IF stop = Pages(claim[o]) THEN "check" ELSE "map"
                /\ \A u \in Threads \ {t} : op'[u] = op[u]
    BY <1>0, <1>4, MapEffect
  <2>3. CASE op' = op /\ frame' = frame
    BY <1>k, <2>1, <2>3 DEF Holds, Pages
  <2>4. CASE ~(op' = op /\ frame' = frame)
    <3>1. \A p \in Slots : \A x \in Objs : x = o /\ claim[o].rw <= p /\ p < claim[o].rw + stop =>
            Holds(x, p)'
      <4> SUFFICES ASSUME NEW p \in Slots, NEW x \in Objs, x = o, claim[x].rw <= p,
                          p < claim[x].rw + stop
                   PROVE  Holds(x, p)'
        OBVIOUS
      <4>1. p < claim[x].rw + Pages(claim[x])
        BY <2>1, <2>2 DEF Slots
      <4> QED BY <2>1, <2>2, <2>4, <4>1 DEF Holds, Pages
    <3>2. \A p \in Slots : \A x \in Objs : Holds(x, p) => Holds(x, p)'
      <4> SUFFICES ASSUME NEW p \in Slots, NEW x \in Objs, Holds(x, p) PROVE Holds(x, p)'
        OBVIOUS
      <4>1. CASE x # o
        BY <2>1, <2>2, <2>4, <4>1 DEF Holds, Pages
      <4>2. CASE x = o
        <5>1. claim[o].rw <= p /\ p < claim[o].rw + op[t].at
          BY <1>0, <2>1, <4>2 DEF Holds, OneOperation
        <5>2. p < claim[o].rw + stop
          BY <2>1, <2>2, <5>1 DEF Slots
        <5> QED BY <3>1, <4>2, <5>1, <5>2
      <4> QED BY <4>1, <4>2
    <3>3. \A p \in Slots : frame'[p] = frame[p] \/ \E x \in Objs : Holds(x, p)'
      <4> SUFFICES ASSUME NEW p \in Slots, frame'[p] # frame[p] PROVE \E x \in Objs : Holds(x, p)'
        OBVIOUS
      <4>1. claim[o].rw + op[t].at <= p /\ p < claim[o].rw + stop
        BY <2>2, <2>4
      <4>2. claim[o].rw <= p
        BY <2>1, <4>1 DEF Slots
      <4> QED BY <2>1, <3>1, <4>1, <4>2
    <3> QED BY <1>f, <2>1, <3>2, <3>3
  <2> QED BY <2>3, <2>4
<1>e. ASSUME NEW t \in Threads, UnmapRange(t), IsEmpty(Mine(t)) PROVE CodeInv'
  <2>1. frame' = frame /\ claim' = claim /\ op' = op
    BY <1>0, <1>e, UnmapRefused
  <2>2. \A o \in Objs : \A p \in Slots : Holds(o, p) => Holds(o, p)'
    BY <2>1 DEF Holds, Pages
  <2> QED BY <1>k, <2>1, <2>2
<1>5. ASSUME NEW t \in Threads, UnmapRange(t), ~IsEmpty(Mine(t)) PROVE CodeInv'
  <2> DEFINE o == op[t].obj
  <2>1. /\ op[t].pc = "unmap" /\ o \in Objs /\ claim' = claim
        /\ claim[o].phase = "dtor" /\ op[t].at < Pages(claim[o])
        /\ claim[o].rw \in Nat /\ Pages(claim[o]) \in Nat /\ op[t].at \in Nat
    BY <1>0, <1>5, UnmapEffect
  <2>2. PICK stop \in Nat :
          /\ stop <= Pages(claim[o]) /\ op[t].at < stop
          /\ \/ op' = op /\ frame' = frame
             \/ /\ \A p \in Slots : ~(claim[o].rw + op[t].at <= p /\ p < claim[o].rw + stop) =>
                     frame'[p] = frame[p]
                /\ \A p \in Slots : claim[o].rw + op[t].at <= p /\ p < claim[o].rw + stop =>
                     frame'[p] = Free
                /\ op'[t].obj = o /\ op'[t].at = stop
                /\ op'[t].pc = IF stop = Pages(claim[o]) THEN "unlink" ELSE "unmap"
                /\ \A u \in Threads \ {t} : op'[u] = op[u]
    BY <1>0, <1>5, UnmapEffect
  <2>3. CASE op' = op /\ frame' = frame
    BY <1>k, <2>1, <2>3 DEF Holds, Pages
  <2>4. CASE ~(op' = op /\ frame' = frame)
    <3>1. \A p \in Slots : \A x \in Objs : Holds(x, p) => frame'[p] = Free \/ Holds(x, p)'
      <4> SUFFICES ASSUME NEW p \in Slots, NEW x \in Objs, Holds(x, p), frame'[p] # Free
                   PROVE  Holds(x, p)'
        OBVIOUS
      <4>1. CASE x # o
        BY <2>1, <2>2, <2>4, <4>1 DEF Holds, Pages
      <4>2. CASE x = o
        <5>1. /\ claim[o].rw <= p /\ p < claim[o].rw + Pages(claim[o])
              /\ claim[o].rw + op[t].at <= p
          BY <1>0, <2>1, <4>2 DEF Holds, OneOperation
        <5>2. claim[o].rw + stop <= p
          BY <2>1, <2>2, <2>4, <5>1 DEF Slots
        <5>3. stop # Pages(claim[o])
          BY <2>1, <2>2, <5>1, <5>2 DEF Slots
        <5> QED BY <2>1, <2>2, <2>4, <4>2, <5>1, <5>2, <5>3 DEF Holds, Pages
      <4> QED BY <4>1, <4>2
    <3>2. Free \notin 0..RoPages-1
      BY FrameAssumption, SizeAssumption
    <3> QED BY <1>f, <2>2, <2>4, <3>1, <3>2
  <2> QED BY <2>3, <2>4
<1>6. ASSUME NEW t \in Threads, Compare(t) PROVE CodeInv'
  <2> DEFINE o == op[t].obj
  <2>1. op[t].pc = "check" /\ o \in Objs /\ frame' = frame
    BY <1>0, <1>6 DEF Compare, OneOperation
  <2>2. CASE claim' = claim /\ op' = op
    BY <1>k, <2>1, <2>2 DEF Holds, Pages
  <2>3. CASE claim' = [claim EXCEPT ![o].phase = "live"] /\ op' = [op EXCEPT ![t] = Idle]
    <3>1. \A x \in Objs : /\ claim'[x].size = claim[x].size /\ claim'[x].rw = claim[x].rw
                          /\ claim'[x].phase = IF x = o THEN "live" ELSE claim[x].phase
      BY <1>0, <2>1, <2>3 DEF Claims
    <3>2. \A u \in Threads \ {t} : op'[u] = op[u]
      BY <1>0, <2>3
    <3>3. ASSUME NEW x \in Objs, NEW p \in Slots, Holds(x, p) PROVE Holds(x, p)'
      <4>1. CASE x = o
        BY <2>1, <3>1, <3>3, <4>1 DEF Holds, Pages
      <4>2. CASE x # o
        BY <3>1, <3>2, <3>3, <4>2 DEF Holds, Pages
      <4> QED BY <4>1, <4>2
    <3> QED BY <1>k, <2>1, <3>3
  <2> QED BY <1>6, <2>2, <2>3 DEF Compare, Return
<1>7. ASSUME NEW t \in Threads, NEW o \in Objs, Destroy(t, o) PROVE CodeInv'
  <2>1. op[t].pc = "idle" /\ claim[o].phase = "live" /\ frame' = frame
    BY <1>7 DEF Destroy
  <2>2. \A u \in Threads : op[u].pc # "idle" => op[u].obj # o
    BY <1>0, <2>1 DEF OneOperation
  <2>3. \A x \in Objs \ {o} : claim'[x] = claim[x]
    BY <1>0, <1>7 DEF Destroy
  <2>4. \A u \in Threads : op[u].pc # "idle" => op'[u] = op[u]
    BY <1>0, <1>7, <2>1 DEF Destroy
  <2>6. ASSUME NEW p \in Slots, Holds(o, p), ~claim[o].owner PROVE Forgotten(p)'
    <3>1. /\ claim[o].rv # Null
          /\ node[claim[o].rv].start <= p /\ p < node[claim[o].rv].stop
      BY <2>6, HeldIsReserved
    <3>2. claim[o].rv \in orphans' /\ node' = node
      BY <1>7, <2>6, <3>1 DEF Destroy, Reserved
    <3> QED BY <3>1, <3>2 DEF Forgotten
  <2>5. ASSUME NEW x \in Objs, NEW p \in Slots, Holds(x, p) PROVE Forgotten(p)' \/ Holds(x, p)'
    <3>1. CASE x # o
      <4>1. \A u \in Threads : op[u].pc \in {"map", "check", "unmap"} => op'[u] = op[u]
        BY <2>4
      <4> QED BY <2>3, <2>5, <3>1, <4>1 DEF Holds, Pages
    <3>2. CASE x = o /\ claim[o].owner
      <4>1. claim[o].rw <= p /\ p < claim[o].rw + Pages(claim[o])
        BY <2>5, <3>2 DEF Holds
      <4>2. claim' = [claim EXCEPT ![o].phase = "dtor"]
        BY <1>7, <3>2 DEF Destroy
      <4>3. claim'[o].rw = claim[o].rw /\ claim'[o].size = claim[o].size
        BY <1>0, <4>2 DEF Claims
      <4>4. op'[t].obj = o /\ op'[t].pc = "unmap" /\ op'[t].at = 0
        BY <1>0, <1>7, <3>2 DEF Destroy
      <4>5. claim[o].rw + 0 <= p
        BY <1>0, <4>1 DEF Claims, Slots
      <4> QED BY <3>2, <4>1, <4>3, <4>4, <4>5 DEF Holds, Pages
    <3> QED BY <2>5, <2>6, <3>1, <3>2
  <2> QED BY <1>k, <2>1, <2>5
<1>8. ASSUME NEW t \in Threads, UnlinkPrev(t) PROVE CodeInv'
  <2> DEFINE o == op[t].obj
  <2>1. op[t].pc = "free" /\ o \in Objs /\ frame' = frame /\ claim[o].phase = "dtor"
    BY <1>0, <1>8 DEF UnlinkPrev, OneOperation
  <2>2. \A x \in Objs \ {o} : claim'[x] = claim[x]
    BY <1>0, <1>8, <2>1 DEF UnlinkPrev
  <2>3. \A u \in Threads \ {t} : op'[u] = op[u]
    BY <1>0, <1>8 DEF UnlinkPrev, Return
  <2>4. \A u \in Threads \ {t} : op[u].pc # "idle" => op[u].obj # o
    BY <1>0, <2>1 DEF OneOperation
  <2>5. ASSUME NEW x \in Objs, NEW p \in Slots, Holds(x, p) PROVE Holds(x, p)'
    <3>1. x # o
      BY <2>1, <2>4, <2>5 DEF Holds
    <3>2. \A u \in Threads : op[u].pc \in {"map", "check", "unmap"} => op'[u] = op[u]
      BY <2>1, <2>3
    <3> QED BY <2>2, <2>5, <3>1, <3>2 DEF Holds, Pages
  <2> QED BY <1>k, <2>1, <2>5
<1>9. ASSUME NEW t \in Threads, NEW o \in Objs, MoveAssign(t, o, o) PROVE CodeInv'
  <2>1. /\ frame' = frame /\ op' = op
        /\ \A x \in Objs : /\ claim'[x].phase = claim[x].phase /\ claim'[x].rw = claim[x].rw
                            /\ Pages(claim'[x]) = Pages(claim[x])
    BY <1>0, <1>9, SelfMoveEffect
  <2>2. \A x \in Objs : \A p \in Slots : Holds(x, p) => Holds(x, p)'
    BY <2>1 DEF Holds, Pages
  <2> QED BY <1>k, <2>1, <2>2
<1>10. ASSUME NEW t \in Threads, NEW o \in Objs, NEW p \in Objs, o # p,
              MoveConstruct(t, o, p) \/ MoveAssign(t, o, p)
       PROVE  CodeInv'
  <2>1. /\ frame' = frame /\ op' = op /\ node' = node
        /\ claim[o].phase = "live" /\ claim[p].phase \in {"none", "live"}
        /\ claim'[p].phase = "live" /\ claim'[p].rw = claim[o].rw
        /\ Pages(claim'[p]) = Pages(claim[o])
        /\ \A x \in Objs \ {o, p} : claim'[x] = claim[x]
    BY <1>0, <1>10, MoveEffect
  <2>2. \A u \in Threads : op[u].pc # "idle" => op[u].obj \notin {o, p}
    BY <1>0, <2>1 DEF OneOperation
  <2>3. ASSUME NEW s \in Slots, Holds(p, s) PROVE Forgotten(s)'
    <3>1. /\ claim[p].rv # Null
          /\ node[claim[p].rv].start <= s /\ s < node[claim[p].rv].stop
      BY <2>3, HeldIsReserved
    <3>2. claim[p].phase = "live"
      BY <2>2, <2>3 DEF Holds
    <3>3. claim[p].rv \in orphans'
      BY <1>10, <3>1, <3>2 DEF MoveConstruct, MoveAssign, Reserved
    <3> QED BY <2>1, <3>1, <3>3 DEF Forgotten
  <2>4. ASSUME NEW x \in Objs, NEW s \in Slots, Holds(x, s)
        PROVE  Forgotten(s)' \/ \E y \in Objs : Holds(y, s)'
    <3>1. CASE x \notin {o, p}
      <4>1. Holds(x, s)'
        BY <2>1, <2>4, <3>1 DEF Holds, Pages
      <4> QED BY <4>1
    <3>2. CASE x = o
      <4>1. claim[o].rw <= s /\ s < claim[o].rw + Pages(claim[o])
        BY <2>4, <3>2 DEF Holds
      <4>2. claim'[p].rw <= s /\ s < claim'[p].rw + Pages(claim'[p])
        BY <2>1, <4>1
      <4>3. Holds(p, s)'
        BY <2>1, <4>2 DEF Holds, Pages
      <4> QED BY <4>3
    <3>3. CASE x = p
      BY <2>3, <2>4, <3>3
    <3> QED BY <3>1, <3>2, <3>3
  <2> QED BY <1>k, <2>1, <2>4
<1>11. ASSUME NEW p \in Slots, GameMaps(p) \/ GameUnmaps(p) PROVE CodeInv'
  <2>1. /\ claim' = claim /\ op' = op
        /\ \A s \in Slots : frame'[s] = frame[s] \/ frame'[s] \in {Free, Game}
    BY <1>11, <1>0 DEF GameMaps, GameUnmaps, TypeOK
  <2>2. Free \notin 0..RoPages-1 /\ Game \notin 0..RoPages-1
    BY FrameAssumption, SizeAssumption
  <2>3. \A x \in Objs : \A s \in Slots : Holds(x, s) => Holds(x, s)'
    BY <2>1 DEF Holds, Pages
  <2> QED BY <1>k, <2>1, <2>2, <2>3
<1> QED
  BY <1>1, <1>2, <1>3, <1>4, <1>5, <1>6, <1>7, <1>8, <1>9, <1>10, <1>11, <1>e
     DEF Next, Step, QuietStep, MoveConstruct

LEMMA CodeInductive == Spec => [](IInv /\ OwnInv /\ CodeInv)
<1>1. Init => CodeInv
  BY FrameAssumption, SizeAssumption DEF Init, CodeInv
<1>2. IInv /\ OwnInv /\ CodeInv /\ [Next]_vars => (IInv /\ OwnInv /\ CodeInv)'
  BY InductiveStep, OwnStep, CodeStep
<1>3. Init => OwnInv
  BY InitOwn
<1> QED BY <1>1, <1>2, <1>3, InitIInv, PTL DEF Spec

(* A page that shows code lies in a reservation in use: no destructor, on  *)
(* any thread, leaves an alias behind or frees a reservation too early.    *)
LEMMA CodeIsReserved ==
  ASSUME IInv, OwnInv, CodeInv
  PROVE  AliasReserved
<1> SUFFICES ASSUME NEW p \in Slots, frame[p] \in 0..RoPages-1
             PROVE  \E n \in Nodes : node[n].used /\ node[n].start <= p /\ p < node[n].stop
  BY DEF AliasReserved
<1>1. CASE Forgotten(p)
  BY <1>1 DEF Forgotten, OwnInv, UsedNodes
<1>2. ASSUME NEW o \in Objs, Holds(o, p)
      PROVE  \E n \in Nodes : node[n].used /\ node[n].start <= p /\ p < node[n].stop
  BY <1>2, HeldIsReserved DEF UsedNodes
<1> QED BY <1>1, <1>2 DEF CodeInv

THEOREM CodeStaysReserved == Spec => []AliasReserved
  BY CodeInductive, CodeIsReserved, PTL

-----------------------------------------------------------------------------
(* The list of reservations and the space between them, with one thread.   *)

OneThread == \A t, u \in Threads : t = u

(* The list a walk visits has every node in use but one about to be pushed *)
(* and is doubly linked, once a link that a thread has yet to write, or    *)
(* that it wrote ahead, is put back.                                       *)
ListInv ==
  /\ Visited(head, node) =
       {n \in UsedNodes : \A t \in Threads : ~(op[t].pc = "push" /\ Mine(t).rv = n)}
  /\ (\A t \in Threads : op[t].pc \notin {"back", "free"}) => DoublyLinked(head, node)
  /\ \A t \in Threads :
       LET n == Mine(t).rv IN
       /\ op[t].pc = "push" => node[n].next = head /\ node[n].prev = Null
       /\ op[t].pc = "back" => head = n
       /\ op[t].pc = "free" /\ node[n].next # Null => node[node[n].next].prev = node[n].prev
       /\ op[t].pc \in {"back", "free"} => DoublyLinked(head, Relinked(node, n))

LEMMA ListStep ==
  ASSUME OneThread, IInv, IInv', OwnInv, ListInv, [Next]_vars
  PROVE  ListInv'
<1> USE DEF At, Mine
<1> DEFINE L == {"push", "back", "free"}
<1>0. /\ claim \in [Objs -> Claims] /\ op \in [Threads -> Ops]
      /\ claim' \in [Objs -> Claims] /\ op' \in [Threads -> Ops]
      /\ node \in [Nodes -> ListNodes] /\ node' \in [Nodes -> ListNodes]
      /\ head \in Nodes \cup {Null} /\ head' \in Nodes \cup {Null}
      /\ OneOperation /\ Null \notin Nodes
  BY NullAssumption DEF IInv, AliasInv, TypeOK, Claims, Ops, ListNodes
<1>u. ASSUME NEW t \in Threads, op[t].pc \in {"push", "back", "unlink", "free"}
      PROVE  op[t].obj \in Objs /\ claim[op[t].obj].rv \in UsedNodes
  <2>1. op[t].obj \in Objs /\ claim[op[t].obj].owner /\ claim[op[t].obj].rv \in Nodes
    BY <1>0, <1>u DEF OneOperation
  <2> QED BY <1>0, <2>1 DEF OwnInv
<1>n. UsedNodes \subseteq Nodes
  BY DEF UsedNodes
<1>k. ASSUME node' = node, head' = head,
             \A u \in Threads :
                \/ op[u].pc \notin L /\ op'[u].pc \notin L
                \/ op'[u].pc = op[u].pc /\ claim'[op'[u].obj].rv = claim[op[u].obj].rv
      PROVE  ListInv'
  <2>1. UsedNodes' = UsedNodes
    BY <1>k DEF UsedNodes
  <2>2. \A u \in Threads : op'[u].pc \in L =>
          op'[u].pc = op[u].pc /\ claim'[op'[u].obj].rv = claim[op[u].obj].rv
    BY <1>k
  <2>3. \A u \in Threads : op[u].pc \in L =>
          op'[u].pc = op[u].pc /\ claim'[op'[u].obj].rv = claim[op[u].obj].rv
    BY <1>k
  <2>4. Visited(head, node)' =
          {n \in UsedNodes' : \A u \in Threads :
             ~(op'[u].pc = "push" /\ claim'[op'[u].obj].rv = n)}
    BY <1>k, <2>1, <2>2, <2>3 DEF ListInv
  <2>5. (\A u \in Threads : op'[u].pc \notin {"back", "free"}) => DoublyLinked(head, node)'
    BY <1>k, <2>3 DEF ListInv
  <2>6. ASSUME NEW u \in Threads, op'[u].pc \in L
        PROVE  LET n == claim'[op'[u].obj].rv IN
               /\ op'[u].pc = "push" => node'[n].next = head' /\ node'[n].prev = Null
               /\ op'[u].pc = "back" => head' = n
               /\ op'[u].pc = "free" /\ node'[n].next # Null =>
                    node'[node'[n].next].prev = node'[n].prev
               /\ op'[u].pc \in {"back", "free"} => DoublyLinked(head', Relinked(node', n))
    BY <1>k, <2>2, <2>6 DEF ListInv
  <2> QED BY <2>4, <2>5, <2>6 DEF ListInv
<1>1. CASE UNCHANGED vars \/ Aborted
  BY <1>1, <1>k DEF vars, Aborted
<1>2. ASSUME NEW t \in Threads, NEW o \in Objs, NEW q \in Requests, Construct(t, o, q)
      PROVE  ListInv'
  <2>1. op[t].pc = "idle" /\ op'[t].pc = "find" /\ \A u \in Threads : u = t
    BY <1>0, <1>2 DEF Construct, OneThread
  <2> QED BY <1>2, <1>k, <2>1 DEF Construct
<1>3. ASSUME NEW t \in Threads, FindFails(t) \/ AddFails(t) PROVE ListInv'
  BY <1>3, <1>k DEF FindFails, AddFails
<1>4. ASSUME NEW t \in Threads, (\E p \in Slots : FindUnmapped(t, p)) \/ FindUnreserved(t)
      PROVE  ListInv'
  <2>1. op[t].pc \in {"find", "reserved"} /\ node' = node /\ head' = head /\ \A u \in Threads : u = t
    BY <1>4 DEF FindUnmapped, FindUnreserved, OneThread
  <2>2. \/ \E pc \in {"reserved", "add"} : op' = [op EXCEPT ![t].pc = pc]
        \/ op' = [op EXCEPT ![t].tries = op[t].tries + 1]
        \/ op' = [op EXCEPT ![t].pc = "find", ![t].tries = op[t].tries + 1]
    BY <1>4 DEF FindUnmapped, FindUnreserved, Goto
  <2>3. op'[t].pc \in {"find", "reserved", "add"}
    BY <1>0, <2>1, <2>2 DEF Ops
  <2> QED BY <1>k, <2>1, <2>3
<1>5. ASSUME NEW t \in Threads, MapRange(t) \/ UnmapRange(t) PROVE ListInv'
  <2>1. op[t].pc \in {"map", "unmap"} /\ node' = node /\ head' = head /\ \A u \in Threads : u = t
    BY <1>5 DEF MapRange, UnmapRange, OneThread
  <2> DEFINE n == RangeStop(Mine(t), op[t].at)
             Past(pc, qc) == op' = [op EXCEPT ![t].at = n,
                                              ![t].pc = IF n = Pages(Mine(t)) THEN pc ELSE qc]
  <2>2. op' = op \/ Past("check", "map") \/ Past("unlink", "unmap")
    BY <1>5 DEF MapRange, UnmapRange
  <2> HIDE DEF n
  <2>3. ASSUME NEW pc, NEW qc, Past(pc, qc) PROVE op'[t].pc \in {pc, qc}
    BY <1>0, <2>3 DEF Ops
  <2> HIDE DEF Past
  <2>4. op'[t].pc \notin L
    BY <2>1, <2>2, <2>3
  <2> QED BY <1>k, <2>1, <2>4
<1>6. ASSUME NEW t \in Threads, Compare(t) PROVE ListInv'
  <2>1. op[t].pc = "check" /\ node' = node /\ head' = head /\ \A u \in Threads : u = t
    BY <1>6 DEF Compare, OneThread
  <2>2. op' = op \/ op' = [op EXCEPT ![t] = Idle]
    BY <1>6 DEF Compare, Return
  <2>3. op'[t].pc \notin L
    BY <1>0, <2>1, <2>2 DEF Idle
  <2> QED BY <1>k, <2>1, <2>3
<1>7. ASSUME NEW t \in Threads, NEW o \in Objs,
             Destroy(t, o) \/ \E p \in Objs : MoveConstruct(t, o, p) \/ MoveAssign(t, o, p)
      PROVE  ListInv'
  <2>1. op[t].pc = "idle" /\ node' = node /\ head' = head /\ \A u \in Threads : u = t
    BY <1>7 DEF Destroy, MoveConstruct, MoveAssign, OneThread
  <2>2. op' = op \/ op' = [op EXCEPT ![t] = [pc |-> "unmap", obj |-> o, at |-> 0, tries |-> 0]]
    BY <1>7 DEF Destroy, MoveConstruct, MoveAssign
  <2>3. op'[t].pc \notin L
    BY <1>0, <2>1, <2>2
  <2> QED BY <1>k, <2>1, <2>3
<1>8. ASSUME NEW p \in Slots, GameMaps(p) \/ GameUnmaps(p) PROVE ListInv'
  BY <1>8, <1>k DEF GameMaps, GameUnmaps
<1>9. ASSUME NEW t \in Threads, NEW n \in Nodes, AddNode(t, n) PROVE ListInv'
  <2>1. /\ op[t].pc = "add" /\ op[t].obj \in Objs /\ head' = head /\ n \notin UsedNodes
        /\ \A u \in Threads : u = t
    BY <1>0, <1>9 DEF AddNode, OneOperation, UsedNodes, OneThread
  <2>2. Visited(head, node) = UsedNodes /\ DoublyLinked(head, node)
    BY <2>1 DEF ListInv
  <2>3. /\ node'[n].used /\ node'[n].next = head /\ node'[n].prev = Null
        /\ \A m \in Nodes \ {n} : node'[m] = node[m]
    BY <1>0, <1>9 DEF AddNode
  <2>4. \A m \in Visited(head, node) : node'[m].next = node[m].next /\ node'[m].prev = node[m].prev
    BY <1>n, <2>1, <2>2, <2>3
  <2>5. Visited(head, node') = UsedNodes /\ DoublyLinked(head, node')
    BY <1>0, <2>2, <2>4, LinksSame
  <2>6. op'[t].pc = "push" /\ op'[t].obj = op[t].obj /\ claim'[op[t].obj].rv = n
    BY <1>0, <1>9, <2>1 DEF AddNode, Goto, Ops, Claims
  <2>7. UsedNodes' = UsedNodes \cup {n}
    BY <2>3 DEF UsedNodes
  <2>8. Visited(head, node)' =
          {m \in UsedNodes' : \A u \in Threads :
             ~(op'[u].pc = "push" /\ claim'[op'[u].obj].rv = m)}
    BY <2>1, <2>5, <2>6, <2>7
  <2> QED BY <2>1, <2>3, <2>5, <2>6, <2>8 DEF ListInv
<1>m. ASSUME NEW t \in Threads, op[t].pc \in {"push", "back", "unlink", "free"}
      PROVE  \E n \in UsedNodes : n = claim[op[t].obj].rv /\ n \in Nodes /\ n # Null
  BY <1>0, <1>n, <1>u, <1>m
<1>10. ASSUME NEW t \in Threads, Push(t) PROVE ListInv'
  <2>1. op[t].pc = "push" /\ \A u \in Threads : u = t
    BY <1>10 DEF Push, OneThread
  <2>2. PICK n \in UsedNodes : n = claim[op[t].obj].rv /\ n \in Nodes /\ n # Null
    BY <1>m, <2>1
  <2>3. /\ head' = n /\ node' = node /\ claim' = claim
        /\ op'[t].pc = "back" /\ op'[t].obj = op[t].obj
    BY <1>0, <1>10, <2>2 DEF Push, Goto, Ops
  <2>4. /\ Visited(head, node) = UsedNodes \ {n} /\ DoublyLinked(head, node)
        /\ node[n].next = head /\ node[n].prev = Null
    BY <2>1, <2>2 DEF ListInv
  <2>5. n \in Nodes \ Visited(head, node)
    BY <2>2, <2>4
  <2>6. DoublyLinked(n, Relinked(node, n))
    BY <1>0, <2>4, <2>5, PushLinks
  <2>7. Visited(n, node) = UsedNodes
    <3>1. Visited(n, node) = {n} \cup Visited(head, node)
      BY <1>0, <2>4, <2>5, VisitedPush
    <3> QED BY <2>2, <2>4, <3>1
  <2>8. UsedNodes' = UsedNodes
    BY <2>3 DEF UsedNodes
  <2>9. claim'[op'[t].obj].rv = n /\ Visited(head, node)' = UsedNodes'
        /\ DoublyLinked(head', Relinked(node', n))
    BY <2>2, <2>3, <2>6, <2>7, <2>8
  <2> QED BY <2>1, <2>3, <2>9 DEF ListInv
<1>11. ASSUME NEW t \in Threads, LinkBack(t) PROVE ListInv'
  <2>1. op[t].pc = "back" /\ \A u \in Threads : u = t
    BY <1>11 DEF LinkBack, OneThread
  <2>2. PICK n \in UsedNodes : n = claim[op[t].obj].rv /\ n \in Nodes /\ n # Null
    BY <1>m, <2>1
  <2>3. head' = head /\ node' = Relinked(node, n) /\ op'[t].pc = "map"
    BY <1>0, <1>11, <2>2 DEF LinkBack, Goto, Ops, Relinked
  <2>4. Visited(head, node) = UsedNodes /\ DoublyLinked(head, node')
    BY <2>1, <2>2, <2>3 DEF ListInv
  <2>5. \A m \in Nodes : node'[m].next = node[m].next /\ node'[m].used = node[m].used
    BY <1>0, <2>2, <2>3, RelinkedLinks
  <2>6. UsedNodes' = UsedNodes
    BY <2>5 DEF UsedNodes
  <2>7. Visited(head, node') = Visited(head, node)
    <3>1. \A m \in Visited(head, node) : node'[m].next = node[m].next
      BY <2>5, VisitedType
    <3> QED BY <1>0, <3>1, VisitedSame
  <2> QED BY <2>1, <2>3, <2>4, <2>6, <2>7 DEF ListInv
<1>12. ASSUME NEW t \in Threads, UnlinkNext(t) PROVE ListInv'
  <2>1. op[t].pc = "unlink" /\ \A u \in Threads : u = t
    BY <1>12 DEF UnlinkNext, OneThread
  <2>2. PICK n \in UsedNodes : n = claim[op[t].obj].rv /\ n \in Nodes /\ n # Null
    BY <1>m, <2>1
  <2>3. Visited(head, node) = UsedNodes /\ DoublyLinked(head, node)
    BY <2>1 DEF ListInv
  <2>4. PICK next \in Nodes \cup {Null} : node[n].next = next
    BY <1>0, <2>2 DEF ListNodes
  <2>5. next # n /\ (next # Null => node[next].prev = n)
    <3>1. next # n
      BY <1>0, <2>3, <2>4, VisitedPrev
    <3> QED BY <2>3, <2>4, <3>1 DEF DoublyLinked
  <2>6. /\ head' = head /\ claim' = claim /\ op'[t].pc = "free" /\ op'[t].obj = op[t].obj
        /\ node' = IF next = Null THEN node ELSE [node EXCEPT ![next].prev = node[n].prev]
    BY <1>0, <1>12, <2>2, <2>4 DEF UnlinkNext, Goto, Ops
  <2>7. \A m \in Nodes : /\ node'[m].next = node[m].next /\ node'[m].used = node[m].used
                         /\ node'[m].prev = IF m = next THEN node[n].prev ELSE node[m].prev
    BY <1>0, <2>2, <2>4, <2>6 DEF ListNodes
  <2>8. UsedNodes' = UsedNodes
    BY <2>7 DEF UsedNodes
  <2>9. Visited(head, node') = Visited(head, node)
    <3>1. \A m \in Visited(head, node) : node'[m].next = node[m].next
      BY <2>7, VisitedType
    <3> QED BY <1>0, <3>1, VisitedSame
  <2>10. DoublyLinked(head, Relinked(node', n))
    <3> DEFINE g == Relinked(node', n)
    <3>1. /\ g \in [Nodes -> ListNodes]
          /\ \A m \in Nodes : /\ g[m].next = node'[m].next
                              /\ g[m].prev = IF m = node'[n].next THEN n ELSE node'[m].prev
      BY <1>0, <2>2, RelinkedLinks
    <3> HIDE DEF g
    <3>2. \A m \in Nodes : g[m].next = node[m].next /\ g[m].prev = node[m].prev
      BY <1>0, <2>2, <2>4, <2>5, <2>7, <3>1
    <3>3. \A m \in Visited(head, node) : g[m].next = node[m].next /\ g[m].prev = node[m].prev
      BY <3>2, VisitedType
    <3>4. DoublyLinked(head, g)
      BY <1>0, <2>3, <3>1, <3>3, LinksSame
    <3> QED BY <3>4 DEF g
  <2>11. node'[n].next # Null => node'[node'[n].next].prev = node'[n].prev
    BY <2>2, <2>4, <2>5, <2>7
  <2>12. claim'[op'[t].obj].rv = n
    BY <2>2, <2>6
  <2> QED BY <2>1, <2>3, <2>6, <2>8, <2>9, <2>10, <2>11, <2>12 DEF ListInv
<1>13. ASSUME NEW t \in Threads, UnlinkPrev(t) PROVE ListInv'
  <2>1. op[t].pc = "free" /\ \A u \in Threads : u = t
    BY <1>13 DEF UnlinkPrev, OneThread
  <2>2. PICK n \in UsedNodes : n = claim[op[t].obj].rv /\ n \in Nodes /\ n # Null
    BY <1>m, <2>1
  <2>3. PICK next \in Nodes \cup {Null}, prev \in Nodes \cup {Null} :
          node[n].next = next /\ node[n].prev = prev
    BY <1>0, <2>2 DEF ListNodes
  <2>4. /\ node' = IF prev = Null THEN [node EXCEPT ![n] = NoNode]
                   ELSE [node EXCEPT ![prev].next = next, ![n] = NoNode]
        /\ head' = IF prev = Null THEN next ELSE head
        /\ op'[t].pc = "idle"
    BY <1>0, <1>13, <2>2, <2>3 DEF UnlinkPrev, Return, Idle
  <2>5. PICK f \in [Nodes -> ListNodes] :
          /\ f = Relinked(node, n)
          /\ \A m \in Nodes : /\ f[m].next = node[m].next
                              /\ f[m].prev = IF m = next THEN n ELSE node[m].prev
    BY <1>0, <2>2, <2>3, RelinkedLinks
  <2>6. /\ Visited(head, node) = UsedNodes /\ DoublyLinked(head, f)
        /\ next # Null => node[next].prev = prev
    BY <2>1, <2>2, <2>3, <2>5 DEF ListInv
  <2>7. Visited(head, f) = UsedNodes
    <3>1. \A m \in Visited(head, node) : f[m].next = node[m].next
      BY <2>5, VisitedType
    <3>2. Visited(head, f) = Visited(head, node)
      BY <1>0, <3>1, VisitedSame
    <3> QED BY <2>6, <3>2
  <2>8. f[n].next = next /\ next # n /\ f[n].prev = prev /\ prev # n
    <3>1. f[n].next = next /\ f[n].next # n
      BY <1>0, <2>2, <2>3, <2>5, <2>6, <2>7, VisitedPrev
    <3>2. f[n].prev = prev
      BY <2>2, <2>3, <2>5, <3>1
    <3>3. f[n].prev # Null => f[n].prev # n
      BY <1>0, <2>2, <2>6, <2>7, VisitedPrev
    <3> QED BY <2>2, <3>1, <3>2, <3>3
  <2>9. /\ ~node'[n].used
        /\ \A m \in Nodes \ {n} : /\ node'[m].next = IF m = prev THEN next ELSE node[m].next
                                  /\ node'[m].prev = node[m].prev /\ node'[m].used = node[m].used
    <3>1. ~NoNode.used
      BY DEF NoNode
    <3>2. CASE prev = Null
      BY <1>0, <2>2, <2>4, <3>1, <3>2
    <3>3. CASE prev # Null
      BY <1>0, <2>2, <2>4, <2>8, <3>1, <3>3 DEF ListNodes
    <3> QED BY <3>2, <3>3
  <2>10. UsedNodes' = UsedNodes \ {n}
    BY <2>9 DEF UsedNodes
  <2>11. LinkedAround(head, f, n, head', node')
    <3>1. head' = IF f[n].prev = Null THEN f[n].next ELSE head
      BY <2>4, <2>8
    <3>2. ASSUME NEW m \in Visited(head, f) \ {n}
          PROVE  /\ node'[m].next = IF m = f[n].prev THEN f[n].next ELSE f[m].next
                 /\ node'[m].prev = IF m = f[n].next THEN f[n].prev ELSE f[m].prev
      <4>1. m \in Nodes \ {n}
        BY VisitedType
      <4>2. node'[m].next = IF m = f[n].prev THEN f[n].next ELSE f[m].next
        BY <2>5, <2>8, <2>9, <4>1
      <4>3. CASE m = next
        BY <1>0, <2>6, <2>8, <2>9, <4>1, <4>2, <4>3
      <4>4. CASE m # next
        BY <2>5, <2>8, <2>9, <4>1, <4>2, <4>4
      <4> QED BY <4>3, <4>4
    <3> QED BY <3>1, <3>2 DEF LinkedAround
  <2>12. n \in Visited(head, f)
    BY <2>7
  <2>13. DoublyLinked(head', node')
    BY <1>0, <2>6, <2>11, <2>12, UnlinkLinks
  <2>14. Visited(head', node') = Visited(head, f) \ {n}
    BY <1>0, <2>6, <2>11, <2>12, VisitedUnlink
  <2> QED BY <2>1, <2>4, <2>7, <2>10, <2>13, <2>14 DEF ListInv
<1> QED
  BY <1>1, <1>2, <1>3, <1>4, <1>5, <1>6, <1>7, <1>8, <1>9, <1>10, <1>11, <1>12, <1>13
     DEF Next, Step

(* A node is taken into use by AddNode only, and keeps its slice meanwhile. *)
LEMMA NodesKept ==
  ASSUME IInv, IInv', OwnInv, [Next]_vars,
         \A t \in Threads : \A n \in Nodes : ~AddNode(t, n)
  PROVE  \A n \in Nodes : node'[n].used =>
           node[n].used /\ node'[n].start = node[n].start /\ node'[n].stop = node[n].stop
<1> USE DEF At, Mine
<1>0. /\ op \in [Threads -> Ops] /\ OneOperation
      /\ node \in [Nodes -> ListNodes] /\ node' \in [Nodes -> ListNodes]
  BY DEF IInv, AliasInv, TypeOK, Ops, ListNodes
<1>1. CASE node' = node
  BY <1>1
<1>2. ASSUME NEW t \in Threads, LinkBack(t) \/ UnlinkNext(t)
      PROVE  \A n \in Nodes : /\ node'[n].used = node[n].used
                              /\ node'[n].start = node[n].start /\ node'[n].stop = node[n].stop
  <2>1. \E x, y : node' = node \/ node' = [node EXCEPT ![x].prev = y]
    <3>1. CASE LinkBack(t)
      BY <3>1, Zenon DEF LinkBack
    <3>2. CASE UnlinkNext(t)
      BY <3>2, Zenon DEF UnlinkNext
    <3> QED BY <1>2, <3>1, <3>2
  <2> QED BY <1>0, <2>1 DEF ListNodes
<1>3. ASSUME NEW t \in Threads, UnlinkPrev(t)
      PROVE  \A n \in Nodes : node'[n].used =>
               node[n].used /\ node'[n].start = node[n].start /\ node'[n].stop = node[n].stop
  <2>1. PICK m \in Nodes : m = claim[op[t].obj].rv
    BY <1>0, <1>3 DEF UnlinkPrev, OneOperation
  <2>2. \/ node' = [node EXCEPT ![m] = NoNode]
        \/ \E x, y : node' = [node EXCEPT ![x].next = y, ![m] = NoNode]
    BY <1>3, <2>1 DEF UnlinkPrev
  <2>3. ~NoNode.used
    BY DEF NoNode
  <2>4. CASE node' = [node EXCEPT ![m] = NoNode]
    BY <1>0, <2>1, <2>3, <2>4
  <2>5. ASSUME NEW x, NEW y, node' = [node EXCEPT ![x].next = y, ![m] = NoNode]
        PROVE  /\ ~node'[m].used
               /\ \A n \in Nodes \ {m} : /\ node'[n].used = node[n].used
                                         /\ node'[n].start = node[n].start
                                         /\ node'[n].stop = node[n].stop
    BY <1>0, <2>1, <2>3, <2>5 DEF ListNodes
  <2> QED BY <2>2, <2>4, <2>5
<1>4. ASSUME NEW t \in Threads,
             \/ \E o \in Objs, q \in Requests : Construct(t, o, q)
             \/ \E o \in Objs : Destroy(t, o)
             \/ \E o, p \in Objs : MoveConstruct(t, o, p) \/ MoveAssign(t, o, p)
             \/ \E p \in Slots : FindUnmapped(t, p)
             \/ FindUnreserved(t) \/ FindFails(t) \/ AddFails(t) \/ Push(t) \/ MapRange(t)
             \/ Compare(t) \/ UnmapRange(t)
      PROVE  node' = node
  BY <1>4, ZenonT(60) DEF Construct, Destroy, MoveConstruct, MoveAssign, FindUnmapped,
     FindUnreserved, FindFails, AddFails, Push, MapRange, Compare, UnmapRange
<1>5. ASSUME NEW p \in Slots, GameMaps(p) \/ GameUnmaps(p) PROVE node' = node
  BY <1>5 DEF GameMaps, GameUnmaps
<1>6. CASE UNCHANGED vars \/ Aborted
  BY <1>1, <1>6 DEF vars, Aborted
<1> QED BY <1>1, <1>2, <1>3, <1>4, <1>5, <1>6 DEF Next, Step

(* With one thread a slice that was found stays clear of the reservations, *)
(* which all have pages, until it is one of them.                          *)
SpaceInv ==
  /\ ReservationsDisjoint
  /\ \A n \in UsedNodes : node[n].start < node[n].stop
  /\ \A t \in Threads : op[t].pc = "add" => \A n \in UsedNodes :
       node[n].stop <= Mine(t).rw \/ Mine(t).rw + Pages(Mine(t)) <= node[n].start

LEMMA SpaceStep ==
  ASSUME OneThread, IInv, IInv', OwnInv, ListInv, SpaceInv, [Next]_vars
  PROVE  SpaceInv'
<1> USE DEF At, Mine
<1>0. /\ claim \in [Objs -> Claims] /\ op \in [Threads -> Ops]
      /\ claim' \in [Objs -> Claims] /\ op' \in [Threads -> Ops]
      /\ node \in [Nodes -> ListNodes] /\ OneOperation /\ InBounds
  BY DEF IInv, AliasInv, TypeOK, Claims, Ops, ListNodes
<1>1. ASSUME NEW t \in Threads, NEW n \in Nodes, AddNode(t, n) PROVE SpaceInv'
  <2>1. op[t].pc = "add" /\ n \notin UsedNodes /\ \A u \in Threads : u = t
    BY <1>1 DEF AddNode, UsedNodes, OneThread
  <2>2. PICK c \in Claims : /\ c = claim[op[t].obj] /\ Pages(c) \in Nat /\ Pages(c) > 0
                            /\ c.rw \in Nat
    <3>1. op[t].obj \in Objs /\ Pages(claim[op[t].obj]) # 0
      BY <1>0, <2>1 DEF OneOperation, IsEmpty
    <3>2. claim[op[t].obj] \in Claims
      BY <1>0, <3>1
    <3>3. Pages(claim[op[t].obj]) \in Nat /\ claim[op[t].obj].rw \in Nat
      BY <3>2, PagesType DEF Claims
    <3> QED BY <3>1, <3>2, <3>3
  <2>3. /\ node'[n].used /\ node'[n].start = c.rw /\ node'[n].stop = c.rw + Pages(c)
        /\ \A m \in Nodes \ {n} : node'[m] = node[m]
    BY <1>0, <1>1, <2>2 DEF AddNode
  <2>4. UsedNodes' = UsedNodes \cup {n}
    BY <2>3 DEF UsedNodes
  <2>5. \A m \in UsedNodes : node[m].stop <= c.rw \/ c.rw + Pages(c) <= node[m].start
    BY <2>1, <2>2 DEF SpaceInv
  <2>6. ReservationsDisjoint'
    BY <2>3, <2>5 DEF SpaceInv, ReservationsDisjoint, UsedNodes
  <2>7. \A m \in UsedNodes' : node'[m].start < node'[m].stop
    BY <2>2, <2>3, <2>4 DEF SpaceInv, UsedNodes
  <2>8. op'[t].pc = "push"
    BY <1>0, <1>1 DEF AddNode, Goto, Ops
  <2> QED BY <2>1, <2>6, <2>7, <2>8 DEF SpaceInv
<1>2. ASSUME \A t \in Threads : \A n \in Nodes : ~AddNode(t, n) PROVE SpaceInv'
  <2>1. \A n \in Nodes : node'[n].used =>
          node[n].used /\ node'[n].start = node[n].start /\ node'[n].stop = node[n].stop
    BY <1>2, NodesKept
  <2>2. ReservationsDisjoint' /\ \A n \in UsedNodes' : node'[n].start < node'[n].stop
    BY <2>1 DEF SpaceInv, ReservationsDisjoint, UsedNodes
  <2>3. UsedNodes' \subseteq UsedNodes /\ UsedNodes \subseteq Nodes
    BY <2>1 DEF UsedNodes
  <2>4. ASSUME NEW u \in Threads, op'[u].pc = "add",
               NEW c \in Claims, c = claim'[op'[u].obj]
        PROVE  \A n \in UsedNodes : node[n].stop <= c.rw \/ c.rw + Pages(c) <= node[n].start
    <3>1. CASE op[u].pc = "add" /\ op' = op /\ claim' = claim
      BY <2>4, <3>1 DEF SpaceInv
    <3>2. CASE FindUnreserved(u)
      <4>1. /\ op[u].pc = "reserved" /\ claim' = claim /\ node' = node /\ head' = head
            /\ op'[u].obj = op[u].obj /\ \A t \in Threads : t = u
        BY <1>0, <3>2 DEF FindUnreserved, Goto, Ops, OneThread
      <4>2. Walk = UsedNodes
        BY <4>1 DEF ListInv, Visited, Walk
      <4>3. c = claim[op[u].obj] /\ c.rw \in Nat /\ Pages(c) \in Nat /\ Pages(c) > 0
        <5>1. c = claim[op[u].obj] /\ op[u].obj \in Objs
          BY <1>0, <2>4, <4>1 DEF OneOperation
        <5>2. Pages(c) \in Nat /\ c.rw \in Nat
          BY PagesType DEF Claims
        <5>3. Pages(c) # 0
          BY <1>0, <4>1, <5>1 DEF OneOperation, IsEmpty
        <5>4. Pages(c) > 0
          BY <5>2, <5>3
        <5> QED BY <5>1, <5>2, <5>4
      <4>4. ~(\E n \in UsedNodes : \E p \in Slice(c) : node[n].start <= p /\ p < node[n].stop)
        <5> SUFFICES ASSUME \E n \in Walk : \E p \in Slice(c) :
                              node[n].start <= p /\ p < node[n].stop
                     PROVE  FALSE
          BY <4>2
        <5>1. op' = [op EXCEPT ![u].pc = "find", ![u].tries = op[u].tries + 1]
          BY <3>2, <4>3 DEF FindUnreserved
        <5>2. op'[u].pc = "find"
          BY <1>0, <5>1 DEF Ops
        <5> QED BY <2>4, <5>2
      <4>5. ASSUME NEW n \in UsedNodes, ~(node[n].stop <= c.rw), ~(c.rw + Pages(c) <= node[n].start)
            PROVE  FALSE
        <5>1. node[n].start \in Nat /\ node[n].stop \in Nat /\ node[n].start < node[n].stop
          BY <1>0, <2>3 DEF ListNodes, SpaceInv
        <5>2. CASE node[n].start <= c.rw
          <6>1. c.rw \in Slice(c) /\ node[n].start <= c.rw /\ c.rw < node[n].stop
            BY <4>3, <4>5, <5>1, <5>2 DEF Slice
          <6> QED BY <4>4, <6>1
        <5>3. CASE ~(node[n].start <= c.rw)
          <6>1. /\ node[n].start \in Slice(c) /\ node[n].start <= node[n].start
                /\ node[n].start < node[n].stop
            BY <4>3, <4>5, <5>1, <5>3 DEF Slice
          <6> QED BY <4>4, <6>1
        <5> QED BY <5>2, <5>3
      <4> QED BY <4>5
    <3>3. ASSUME NEW t \in Threads,
                 \/ \E o \in Objs, q \in Requests : Construct(t, o, q)
                 \/ \E o \in Objs : Destroy(t, o)
                 \/ \E o, p \in Objs : MoveConstruct(t, o, p) \/ MoveAssign(t, o, p)
          PROVE  FALSE
      <4>1. op[t].pc = "idle" /\ u = t
        BY <3>3 DEF Construct, Destroy, MoveConstruct, MoveAssign, OneThread
      <4>2. \/ op' = op
            \/ \E pc \in {"find", "unmap"} : \E o \in Objs :
                 op' = [op EXCEPT ![t] = [pc |-> pc, obj |-> o, at |-> 0, tries |-> 0]]
        BY <3>3 DEF Construct, Destroy, MoveConstruct, MoveAssign
      <4> QED BY <1>0, <2>4, <4>1, <4>2
    <3>4. ASSUME NEW t \in Threads, MapRange(t) \/ UnmapRange(t) PROVE FALSE
      <4>1. op[t].pc \in {"map", "unmap"} /\ u = t
        BY <3>4 DEF MapRange, UnmapRange, OneThread
      <4> DEFINE n == RangeStop(Mine(t), op[t].at)
                 Past(pc, qc) == op' = [op EXCEPT ![t].at = n,
                                                  ![t].pc = IF n = Pages(Mine(t)) THEN pc ELSE qc]
      <4>2. op' = op \/ Past("check", "map") \/ Past("unlink", "unmap")
        BY <3>4 DEF MapRange, UnmapRange
      <4> HIDE DEF n
      <4>3. ASSUME NEW pc, NEW qc, Past(pc, qc) PROVE op'[t].pc \in {pc, qc}
        BY <1>0, <4>3 DEF Ops
      <4> HIDE DEF Past
      <4> QED BY <2>4, <4>1, <4>2, <4>3
    <3>5. ASSUME NEW t \in Threads,
                 \/ \E p \in Slots : FindUnmapped(t, p)
                 \/ Push(t) \/ LinkBack(t) \/ Compare(t) \/ UnlinkNext(t) \/ UnlinkPrev(t)
          PROVE  FALSE
      <4>1. op[t].pc \in {"find", "push", "back", "check", "unlink", "free"} /\ u = t
        BY <3>5 DEF FindUnmapped, Push, LinkBack, Compare, UnlinkNext, UnlinkPrev, OneThread
      <4>2. \/ op' = op \/ op' = [op EXCEPT ![t] = Idle]
            \/ op' = [op EXCEPT ![t].tries = op[t].tries + 1]
            \/ \E pc \in {"reserved", "back", "map", "free"} : op' = [op EXCEPT ![t].pc = pc]
        BY <3>5 DEF FindUnmapped, Push, LinkBack, Compare, UnlinkNext, UnlinkPrev, Goto, Return
      <4>3. op'[t].pc # "add"
        BY <1>0, <4>1, <4>2 DEF Ops, Idle
      <4> QED BY <2>4, <4>1, <4>3
    <3>6. CASE UNCHANGED vars \/ Aborted \/ \E p \in Slots : GameMaps(p) \/ GameUnmaps(p)
      BY <2>4, <3>1, <3>6 DEF vars, Aborted, GameMaps, GameUnmaps
    <3>7. CASE \E t \in Threads : FindFails(t) \/ AddFails(t)
      BY <2>4, <3>1, <3>7 DEF FindFails, AddFails
    <3>8. CASE \E t \in Threads : FindUnreserved(t)
      BY <3>2, <3>8 DEF OneThread
    <3> QED BY <1>2, <3>3, <3>4, <3>5, <3>6, <3>7, <3>8 DEF Next, Step
  <2>5. \A u \in Threads : op'[u].pc = "add" => claim'[op'[u].obj] \in Claims
    BY <1>0 DEF IInv, AliasInv, OneOperation
  <2>6. ASSUME NEW u \in Threads, op'[u].pc = "add", NEW n \in UsedNodes'
        PROVE  \/ node'[n].stop <= claim'[op'[u].obj].rw
               \/ claim'[op'[u].obj].rw + Pages(claim'[op'[u].obj]) <= node'[n].start
    <3>1. /\ n \in UsedNodes /\ n \in Nodes /\ node'[n].start = node[n].start
          /\ node'[n].stop = node[n].stop
      BY <2>1, <2>3, <2>6 DEF UsedNodes
    <3> QED BY <2>4, <2>5, <2>6, <3>1
  <2> QED BY <2>2, <2>6 DEF SpaceInv
<1> QED BY <1>1, <1>2

(* The invariant of one thread: all of it holds of every behaviour.        *)
OneInv == IInv /\ OwnInv /\ CodeInv /\ ListInv /\ SpaceInv

LEMMA InitOne == Init => OneInv
<1> SUFFICES ASSUME Init PROVE OneInv
  OBVIOUS
<1>1. CodeInv
  BY FrameAssumption, SizeAssumption DEF Init, CodeInv
<1>2. UsedNodes = {}
  BY DEF Init, UsedNodes, NoNode
<1>3. Visited(head, node) = {}
  <2>1. {} \in SUBSET Nodes /\ ClosedFrom(head, node, {})
    BY DEF Init, ClosedFrom
  <2> QED BY <2>1, VisitedLeast
<1>4. ListInv
  BY <1>2, <1>3 DEF ListInv, Init, DoublyLinked, Idle
<1>5. SpaceInv
  BY <1>2 DEF SpaceInv, Init, ReservationsDisjoint, Idle, UsedNodes
<1> QED BY <1>1, <1>4, <1>5, InitIInv, InitOwn DEF OneInv

LEMMA OneInductive ==
  ASSUME OneThread
  PROVE  Spec => []OneInv
<1>1. OneInv /\ [Next]_vars => OneInv'
  BY InductiveStep, OwnStep, CodeStep, ListStep, SpaceStep DEF OneInv
<1> QED BY <1>1, InitOne, PTL DEF Spec

(* With one thread at work reservations, claims and code pages agree after *)
(* every step of every operation, and the list virtmem keeps is whole and  *)
(* doubly linked whenever no operation is inside it.                       *)
THEOREM OneThreadKeepsVirtmem ==
  ASSUME OneThread
  PROVE  Spec => []VirtmemSound
<1>1. OneInv => VirtmemSound
  <2> SUFFICES ASSUME OneInv PROVE VirtmemSound
    OBVIOUS
  <2>1. TypeOK /\ AliasReserved /\ ReservationsOwned /\ ReservationsDisjoint
    BY CodeIsReserved, OwnersAreExact DEF OneInv, IInv, SpaceInv
  <2>2. ASSUME \A t \in Threads : ~Linking(t)
        PROVE  /\ Walk = {n \in Nodes : node[n].used}
               /\ head # Null => node[head].prev = Null
               /\ \A n \in {m \in Nodes : node[m].used} :
                    /\ node[n].next # Null => node[node[n].next].prev = n
                    /\ node[n].prev # Null => node[node[n].prev].next = n
    <3>1. Visited(head, node) = UsedNodes /\ DoublyLinked(head, node)
      BY <2>2 DEF OneInv, ListInv, Linking
    <3>2. Walk = Visited(head, node)
      BY DEF Walk, Visited
    <3> QED BY <3>1, <3>2 DEF DoublyLinked, UsedNodes
  <2> QED BY <2>1, <2>2 DEF VirtmemSound, ListWellFormed
<1> QED BY <1>1, OneInductive, PTL

(* What a constructor has yet to map is free, unless the game took a page  *)
(* of it since it was found; what it compares shows its code.              *)
FreeInv ==
  /\ outcome = "mapRefused" => raced
  /\ outcome = "compareFailed" => \E t \in Threads : op[t].pc = "check" /\ Straddles(Mine(t))
  /\ \A t \in Threads : Hunting(t) /\ ~raced =>
       \A p \in Slots : Mine(t).rw + op[t].at <= p /\ p < Mine(t).rw + Pages(Mine(t)) =>
         frame[p] = Free

LEMMA FreeStep ==
  ASSUME OneThread, IInv, IInv', FreeInv, [Next]_vars
  PROVE  FreeInv'
<1> USE DEF At, Mine, Hunting
<1> DEFINE H == {"reserved", "add", "push", "back", "map"}
<1>0. /\ claim \in [Objs -> Claims] /\ op \in [Threads -> Ops]
      /\ claim' \in [Objs -> Claims] /\ op' \in [Threads -> Ops]
      /\ TypeOK /\ OneOperation /\ InBounds /\ HoldsExact
  BY DEF IInv, AliasInv, TypeOK, Claims, Ops
<1>k. ASSUME raced' = raced, outcome' \notin {"mapRefused", "compareFailed"},
             \A u \in Threads : op'[u].pc \in H =>
                /\ frame' = frame /\ op[u].pc \in H /\ op'[u].at = op[u].at
                /\ claim'[op'[u].obj].rw = claim[op[u].obj].rw
                /\ claim'[op'[u].obj].size = claim[op[u].obj].size
      PROVE  FreeInv'
  BY <1>k DEF FreeInv, Pages
<1>1. CASE UNCHANGED vars \/ Aborted
  BY <1>1 DEF vars, Aborted, FreeInv, Pages, Straddles, Touched
<1>2. ASSUME NEW t \in Threads, NEW o \in Objs, NEW q \in Requests, Construct(t, o, q)
      PROVE  FreeInv'
  <2>1. op'[t].pc = "find" /\ \A u \in Threads : u = t
    BY <1>0, <1>2 DEF Construct, OneThread
  <2> QED BY <1>2, <1>k, <2>1 DEF Construct
<1>3. ASSUME NEW t \in Threads, NEW p \in Slots, FindUnmapped(t, p) PROVE FreeInv'
  <2>1. /\ op[t].pc = "find" /\ frame' = frame /\ raced' = raced /\ outcome' = outcome
        /\ outcome = "none" /\ \A u \in Threads : u = t
    BY <1>3 DEF FindUnmapped, OneThread
  <2>2. PICK c \in Claims : c = claim[op[t].obj] /\ op[t].obj \in Objs /\ op[t].at = 0
    BY <1>0, <2>1 DEF OneOperation
  <2>3. CASE Unmapped(c, p)
    <3>1. claim' = [claim EXCEPT ![op[t].obj].rw = p] /\ op' = [op EXCEPT ![t].pc = "reserved"]
      BY <1>3, <2>2, <2>3 DEF FindUnmapped, Goto
    <3>2. op'[t].obj = op[t].obj /\ op'[t].at = 0
      BY <1>0, <2>2, <3>1 DEF Ops
    <3>3. claim'[op[t].obj].rw = p /\ claim'[op[t].obj].size = c.size
      BY <1>0, <2>2, <3>1 DEF Claims
    <3>4. Pages(claim'[op'[t].obj]) = Pages(c) /\ Pages(c) \in Nat
      BY <3>2, <3>3, PagesType DEF Pages, Claims
    <3>5. \A s \in Slots : p + 0 <= s /\ s < p + Pages(c) => s \in p .. p + Pages(c) - 1
      BY <3>4 DEF Slots
    <3>6. \A s \in Slots : claim'[op'[t].obj].rw + op'[t].at <= s
                           /\ s < claim'[op'[t].obj].rw + Pages(claim'[op'[t].obj]) =>
             frame'[s] = Free
      BY <2>1, <2>3, <3>2, <3>3, <3>4, <3>5
    <3> QED BY <2>1, <3>6 DEF FreeInv
  <2>4. CASE ~Unmapped(c, p)
    <3>1. op' = [op EXCEPT ![t].tries = op[t].tries + 1]
      BY <1>3, <2>2, <2>4 DEF FindUnmapped
    <3>2. op'[t].pc = "find"
      BY <1>0, <2>1, <3>1 DEF Ops
    <3> QED BY <1>k, <2>1, <3>2
  <2> QED BY <2>3, <2>4
<1>4. ASSUME NEW t \in Threads,
             FindUnreserved(t) \/ (\E n \in Nodes : AddNode(t, n)) \/ Push(t) \/ LinkBack(t)
      PROVE  FreeInv'
  <2>1. /\ op[t].pc \in H /\ op[t].pc # "map" /\ frame' = frame /\ raced' = raced
        /\ outcome' = outcome /\ outcome = "none" /\ \A u \in Threads : u = t
    BY <1>4 DEF FindUnreserved, AddNode, Push, LinkBack, OneThread
  <2>2. op[t].obj \in Objs
    BY <1>0, <2>1 DEF OneOperation
  <2>3. /\ \/ \E pc \in {"add", "push", "back", "map"} : op' = [op EXCEPT ![t].pc = pc]
           \/ op' = [op EXCEPT ![t].pc = "find", ![t].tries = op[t].tries + 1]
        /\ claim' = claim \/ \E n \in Nodes : claim' = [claim EXCEPT ![op[t].obj].rv = n]
    <3>1. CASE FindUnreserved(t)
      BY <3>1 DEF FindUnreserved, Goto
    <3>2. CASE \E n \in Nodes : AddNode(t, n)
      BY <3>2 DEF AddNode, Goto
    <3>3. CASE Push(t) \/ LinkBack(t)
      BY <3>3 DEF Push, LinkBack, Goto
    <3> QED BY <1>4, <3>1, <3>2, <3>3
  <2>4. op'[t].at = op[t].at /\ op'[t].obj = op[t].obj
    BY <1>0, <2>3 DEF Ops
  <2>5. /\ claim'[op[t].obj].rw = claim[op[t].obj].rw
        /\ claim'[op[t].obj].size = claim[op[t].obj].size
    <3>1. ASSUME NEW n, claim' = [claim EXCEPT ![op[t].obj].rv = n]
          PROVE  /\ claim'[op[t].obj].rw = claim[op[t].obj].rw
                 /\ claim'[op[t].obj].size = claim[op[t].obj].size
      BY <1>0, <2>2, <3>1 DEF Claims
    <3> QED BY <2>3, <3>1
  <2> QED BY <1>k, <2>1, <2>4, <2>5
<1>5. ASSUME NEW t \in Threads, FindFails(t) \/ AddFails(t) PROVE FreeInv'
  BY <1>5, <1>k DEF FindFails, AddFails
<1>6. ASSUME NEW t \in Threads, MapRange(t) PROVE FreeInv'
  <2>1. /\ raced' = raced /\ outcome = "none" /\ \A u \in Threads : u = t
    BY <1>6 DEF MapRange, OneThread
  <2>2. PICK o \in Objs : o = op[t].obj
    BY <1>0, <1>6 DEF MapRange, OneOperation
  <2>3. /\ op[t].pc = "map" /\ claim' = claim
        /\ claim[o].rw \in Nat /\ Pages(claim[o]) \in Nat /\ op[t].at \in Nat
    BY <1>0, <1>6, <2>2, MapEffect
  <2>4. PICK stop \in Nat :
          /\ stop <= Pages(claim[o]) /\ op[t].at < stop
          /\ \/ /\ op' = op /\ frame' = frame
                /\ \E p \in Slots : /\ claim[o].rw + op[t].at <= p /\ p < claim[o].rw + stop
                                    /\ frame[p] # Free
             \/ /\ \A p \in Slots : ~(claim[o].rw + op[t].at <= p /\ p < claim[o].rw + stop) =>
                     frame'[p] = frame[p]
                /\ op'[t].obj = o /\ op'[t].at = stop
                /\ outcome' = outcome
    BY <1>0, <1>6, <2>2, MapEffect
  <2>5. \A p \in Slots : claim[o].rw + op[t].at <= p /\ p < claim[o].rw + Pages(claim[o]) /\ ~raced =>
          frame[p] = Free
    BY <2>2, <2>3 DEF FreeInv
  <2>6. CASE op' = op /\ frame' = frame
    <3>1. outcome' \in {"none", "mapRefused"}
      BY <1>6, <2>1 DEF MapRange
    <3>2. CASE \E p \in Slots : /\ claim[o].rw + op[t].at <= p /\ p < claim[o].rw + stop
                                /\ frame[p] # Free
      <4>1. PICK p \in Slots : /\ claim[o].rw + op[t].at <= p /\ p < claim[o].rw + stop
                               /\ frame[p] # Free
        BY <3>2
      <4>2. p < claim[o].rw + Pages(claim[o])
        BY <2>3, <2>4, <4>1 DEF Slots
      <4>3. raced
        BY <2>5, <4>1, <4>2
      <4> QED BY <2>1, <3>1, <4>3 DEF FreeInv
    <3>3. CASE op'[t].at = stop
      BY <2>3, <2>4, <2>6, <3>3
    <3> QED BY <2>4, <3>2, <3>3
  <2>7. CASE ~(op' = op /\ frame' = frame)
    <3>1. \A p \in Slots : claim[o].rw + stop <= p /\ p < claim[o].rw + Pages(claim[o]) /\ ~raced =>
            frame'[p] = Free
      <4> SUFFICES ASSUME NEW p \in Slots, claim[o].rw + stop <= p,
                          p < claim[o].rw + Pages(claim[o]), ~raced
                   PROVE  frame'[p] = Free
        OBVIOUS
      <4>1. /\ claim[o].rw + op[t].at <= p
            /\ ~(claim[o].rw + op[t].at <= p /\ p < claim[o].rw + stop)
        BY <2>3, <2>4 DEF Slots
      <4> QED BY <2>4, <2>5, <2>7, <4>1
    <3>2. op'[t].obj = o /\ op'[t].at = stop /\ outcome' = "none"
      BY <2>1, <2>4, <2>7
    <3> QED BY <2>1, <2>3, <3>1, <3>2 DEF FreeInv, Pages
  <2> QED BY <2>6, <2>7
<1>7. ASSUME NEW t \in Threads, Compare(t) PROVE FreeInv'
  <2>1. op[t].pc = "check" /\ raced' = raced /\ outcome = "none" /\ \A u \in Threads : u = t
    BY <1>7 DEF Compare, OneThread
  <2>2. PICK o \in Objs : /\ o = op[t].obj
                          /\ claim[o].owner /\ claim[o] \in Claims /\ Pages(claim[o]) \in Nat
                          /\ claim[o].rw + Pages(claim[o]) <= RwPagesMax
    BY <1>0, <2>1, MineType DEF InBounds
  <2>3. CASE op' = [op EXCEPT ![t] = Idle] /\ outcome' = outcome
    <3>1. op'[t].pc = "idle"
      BY <1>0, <2>3 DEF Idle
    <3> QED BY <1>k, <2>1, <2>3, <3>1
  <2>4. CASE outcome' = "compareFailed" /\ op' = op /\ claim' = claim
             /\ \E k \in 0 .. Touched(claim[o]) - 1 :
                  ~(claim[o].rw + k \in Slots /\ Shows(claim[o], k))
    <3>1. PICK k \in 0 .. Touched(claim[o]) - 1 :
            ~(claim[o].rw + k \in Slots /\ Shows(claim[o], k))
      BY <2>4
    <3>2. Touched(claim[o]) \in Nat /\ k \in Nat /\ k < Touched(claim[o])
      <4>1. claim[o].off + claim[o].size \in Nat
        BY <2>2 DEF Claims
      <4>2. Touched(claim[o]) \in Nat
        BY <4>1, AlignUpType DEF Touched
      <4> QED BY <4>2
    <3>3. ~(k < Pages(claim[o]))
      <4> SUFFICES ASSUME k < Pages(claim[o]) PROVE FALSE
        OBVIOUS
      <4>1. claim[o].rw \in Nat /\ claim[o].page \in Nat
        BY <2>2 DEF Claims
      <4>2. claim[o].rw + k \in Slots
        BY <2>2, <3>2, <4>1, SizeAssumption DEF Slots
      <4>3. Holds(o, claim[o].rw + k)
        BY <2>1, <2>2, <3>2, <4>1 DEF Holds
      <4>4. frame[claim[o].rw + k] = claim[o].page + ((claim[o].rw + k) - claim[o].rw)
        BY <1>0, <4>2, <4>3 DEF HoldsExact
      <4> QED BY <3>1, <3>2, <4>1, <4>2, <4>4 DEF Shows
    <3>4. Straddles(claim[o])
      BY <2>2, <3>2, <3>3 DEF Straddles
    <3>5. op'[t].pc = "check" /\ Straddles(claim'[op'[t].obj])
      BY <2>1, <2>2, <2>4, <3>4
    <3> QED BY <2>1, <2>4, <3>5 DEF FreeInv
  <2> QED BY <1>7, <2>2, <2>3, <2>4 DEF Compare, Return
<1>8. ASSUME NEW t \in Threads, NEW o \in Objs,
             Destroy(t, o) \/ \E p \in Objs : MoveConstruct(t, o, p) \/ MoveAssign(t, o, p)
      PROVE  FreeInv'
  <2>1. /\ op[t].pc = "idle" /\ raced' = raced /\ outcome' = outcome /\ outcome = "none"
        /\ \A u \in Threads : u = t
    BY <1>8 DEF Destroy, MoveConstruct, MoveAssign, OneThread
  <2>2. op' = op \/ op' = [op EXCEPT ![t] = [pc |-> "unmap", obj |-> o, at |-> 0, tries |-> 0]]
    BY <1>8 DEF Destroy, MoveConstruct, MoveAssign
  <2>3. op'[t].pc \notin H
    BY <1>0, <2>1, <2>2
  <2> QED BY <1>k, <2>1, <2>3
<1>9. ASSUME NEW t \in Threads, UnmapRange(t) PROVE FreeInv'
  <2>1. op[t].pc = "unmap" /\ raced' = raced /\ outcome = "none" /\ \A u \in Threads : u = t
    BY <1>9 DEF UnmapRange, OneThread
  <2>2. outcome' \in {"none", "unmapRefused"}
    BY <1>9, <2>1 DEF UnmapRange
  <2>3. op'[t].pc \notin H
    <3>1. CASE IsEmpty(Mine(t))
      BY <1>0, <1>9, <2>1, <3>1, UnmapRefused
    <3>2. CASE ~IsEmpty(Mine(t))
      <4>1. PICK stop \in Nat : \/ op' = op
                                \/ op'[t].pc = IF stop = Pages(claim[op[t].obj]) THEN "unlink"
                                               ELSE "unmap"
        BY <1>0, <1>9, <3>2, UnmapEffect
      <4> QED BY <2>1, <4>1
    <3> QED BY <3>1, <3>2
  <2> QED BY <1>k, <2>1, <2>2, <2>3
<1>10. ASSUME NEW t \in Threads, UnlinkNext(t) \/ UnlinkPrev(t) PROVE FreeInv'
  <2>1. raced' = raced /\ outcome = "none" /\ outcome' = outcome /\ \A u \in Threads : u = t
    BY <1>10 DEF UnlinkNext, UnlinkPrev, OneThread
  <2>2. op' = [op EXCEPT ![t].pc = "free"] \/ op' = [op EXCEPT ![t] = Idle]
    BY <1>10 DEF UnlinkNext, UnlinkPrev, Goto, Return
  <2>3. op'[t].pc \notin H
    BY <1>0, <2>2 DEF Idle, Ops
  <2> QED BY <1>k, <2>1, <2>3
<1>11. ASSUME NEW s \in Slots, GameMaps(s) \/ GameUnmaps(s) PROVE FreeInv'
  <2>1. claim' = claim /\ op' = op /\ outcome = "none" /\ outcome' = outcome
    BY <1>11 DEF GameMaps, GameUnmaps
  <2>2. ASSUME NEW t \in Threads, op[t].pc \in H, ~raced', NEW p \in Slots,
               claim[op[t].obj].rw + op[t].at <= p,
               p < claim[op[t].obj].rw + Pages(claim[op[t].obj])
        PROVE  frame'[p] = Free
    <3>1. PICK c \in Claims : c = claim[op[t].obj] /\ Pages(c) \in Nat /\ c.rw \in Nat
      <4>1. claim[op[t].obj] \in Claims /\ Pages(claim[op[t].obj]) \in Nat
        BY <1>0, <2>2, MineType
      <4> QED BY <4>1 DEF Claims
    <3>2. op[t].at \in Nat
      BY <1>0 DEF Ops
    <3>3. p \in Slice(c)
      BY <2>2, <3>1, <3>2 DEF Slice, Slots
    <3>4. ~raced /\ frame[p] = Free
      BY <1>11, <2>2 DEF GameMaps, GameUnmaps, FreeInv
    <3>5. CASE GameMaps(s)
      <4>1. p # s
        BY <2>2, <3>1, <3>3, <3>5 DEF GameMaps
      <4> QED BY <1>0, <3>4, <3>5, <4>1 DEF GameMaps, TypeOK
    <3>6. CASE GameUnmaps(s)
      BY <1>0, <3>4, <3>6 DEF GameUnmaps, TypeOK
    <3> QED BY <1>11, <3>5, <3>6
  <2> QED BY <2>1, <2>2 DEF FreeInv, Pages
<1> QED
  BY <1>1, <1>2, <1>3, <1>4, <1>5, <1>6, <1>7, <1>8, <1>9, <1>10, <1>11 DEF Next, Step

(* With one thread at work a constructor is refused a page only because    *)
(* the game took it since the slice was found, and its comparison fails    *)
(* only for a request that its offset carries over the end of its pages.   *)
THEOREM OneThreadAborts ==
  ASSUME OneThread
  PROVE  Spec => []AbortsExplained
<1>1. Init => FreeInv
  BY DEF Init, FreeInv, Hunting, Idle
<1>2. IInv /\ FreeInv /\ [Next]_vars => (IInv /\ FreeInv)'
  BY InductiveStep, FreeStep
<1>3. FreeInv => AbortsExplained
  BY DEF FreeInv, AbortsExplained
<1> QED BY <1>1, <1>2, <1>3, InitIInv, PTL DEF Spec

-----------------------------------------------------------------------------
(* RwPages implements AliasMap.                                            *)

(* A page's holder is the object that holds it.                            *)
LEMMA HolderIs ==
  ASSUME HoldsExact, NEW p \in Slots
  PROVE  /\ Holder[p] \in Objs \cup {Null}
         /\ \A o \in Objs : Holder[p] = o <=> Holds(o, p)
<1> DEFINE holders == {o \in Objs : Holds(o, p)}
<1>1. Holder[p] = IF holders = {} THEN Null ELSE CHOOSE o \in holders : TRUE
  BY DEF Holder
<1>2. CASE holders = {}
  <2>1. Holder[p] = Null
    BY <1>1, <1>2
  <2>2. \A o \in Objs : ~Holds(o, p)
    BY <1>2
  <2> QED BY <2>1, <2>2, NullAssumption
<1>3. CASE holders # {}
  <2>1. Holder[p] = CHOOSE o \in holders : TRUE
    BY <1>1, <1>3
  <2> DEFINE h == Holder[p]
  <2>2. h \in holders
    BY <1>3, <2>1
  <2> HIDE DEF h
  <2>3. h \in Objs /\ Holds(h, p)
    BY <2>2
  <2>4. \A o \in Objs : Holds(o, p) => o = h
    BY <2>3 DEF HoldsExact
  <2> QED BY <2>3, <2>4 DEF h
<1> QED BY <1>2, <1>3

(* The function that agrees with who holds each page after a step is the   *)
(* holder then.                                                            *)
LEMMA HolderNext ==
  ASSUME NEW g, g \in [Slots -> Objs \cup {Null}],
         \A p \in Slots : \A o \in Objs : g[p] = o <=> Holds(o, p)'
  PROVE  Holder' = g
<1>1. Holder' = [p \in Slots |-> LET holders == {o \in Objs : Holds(o, p)'}
                   IN  IF holders = {} THEN Null ELSE CHOOSE o \in holders : TRUE]
  BY DEF Holder
<1>2. ASSUME NEW p \in Slots PROVE Holder'[p] = g[p]
  <2> DEFINE holders == {o \in Objs : Holds(o, p)'}
  <2>1. Holder'[p] = IF holders = {} THEN Null ELSE CHOOSE o \in holders : TRUE
    BY <1>1
  <2>2. CASE holders = {}
    <3>1. Holder'[p] = Null
      BY <2>1, <2>2
    <3>2. \A o \in Objs : ~Holds(o, p)'
      BY <2>2
    <3>3. g[p] \notin Objs
      BY <3>2
    <3> QED BY <3>1, <3>3
  <2>3. CASE holders # {}
    <3>1. Holder'[p] = CHOOSE o \in holders : TRUE
      BY <2>1, <2>3
    <3>2. PICK h \in holders : Holder'[p] = h
      BY <2>3, <3>1
    <3> QED BY <3>2
  <2> QED BY <2>2, <2>3
<1> QED BY <1>1, <1>2

(* A step after which every object holds what it held.                     *)
SameHolds == \A o \in Objs : \A p \in Slots : Holds(o, p)' <=> Holds(o, p)
SameShells == \A o \in Objs :
  (claim'[o].phase = "live" /\ ~claim'[o].owner) <=> (claim[o].phase = "live" /\ ~claim[o].owner)

LEMMA HolderStays ==
  ASSUME HoldsExact, SameHolds
  PROVE  Holder' = Holder
<1>1. Holder \in [Slots -> Objs \cup {Null}]
  BY HolderIs DEF Holder
<1>2. \A p \in Slots : \A o \in Objs : Holder[p] = o <=> Holds(o, p)'
  BY HolderIs DEF SameHolds
<1> QED BY <1>1, <1>2, HolderNext

LEMMA ShellsStay ==
  ASSUME SameShells
  PROVE  Shells' = Shells
  BY DEF SameShells, Shells

(* Steps that map and unmap nothing and work at one object leave each      *)
(* alias with its holder: a new claim, ...                                 *)
LEMMA ConstructHolds ==
  ASSUME TypeOK, TypeOK', OneOperation, NEW t \in Threads, NEW o \in Objs, NEW q \in Requests,
         Construct(t, o, q)
  PROVE  SameHolds /\ SameShells /\ frame' = frame
<1>0. /\ claim \in [Objs -> Claims] /\ op \in [Threads -> Ops]
  BY DEF TypeOK, Claims, Ops
<1>1. /\ claim[o].phase = "none" /\ claim'[o].phase = "ctor" /\ frame' = frame
      /\ \A x \in Objs \ {o} : claim'[x] = claim[x]
  BY <1>0 DEF Construct, NoClaim
<1>2. op[t].pc = "idle" /\ op'[t].pc = "find" /\ \A u \in Threads \ {t} : op'[u] = op[u]
  BY <1>0 DEF Construct, At
<1>3. \A u \in Threads : op[u].pc # "idle" => op[u].obj # o
  BY <1>1 DEF OneOperation, Mine
<1>4. \A p \in Slots : ~Holds(o, p) /\ ~Holds(o, p)'
  BY <1>1, <1>2, <1>3 DEF Holds
<1>5. \A x \in Objs \ {o} : \A p \in Slots : Holds(x, p)' <=> Holds(x, p)
  BY <1>1, <1>2 DEF Holds, Pages
<1>6. SameShells
  BY <1>1 DEF SameShells
<1> QED BY <1>1, <1>4, <1>5, <1>6 DEF SameHolds

(* ... the search, the list, and a refusal, ...                            *)
LEMMA QuietHolds ==
  ASSUME TypeOK, TypeOK', OneOperation, InBounds, NEW t \in Threads, QuietStep(t)
  PROVE  SameHolds /\ SameShells /\ frame' = frame
<1>1. claim' \in [Objs -> Claims]
  BY DEF TypeOK, Claims
<1>2. PICK o \in Objs : o = op[t].obj
  BY QuietEffect
<1>3. /\ op[t].pc \in {"find", "reserved", "add", "push", "back", "unlink"} /\ frame' = frame
      /\ claim[o].phase \in {"ctor", "dtor"}
      /\ \A u \in Threads \ {t} : op'[u] = op[u]
      /\ \A u \in Threads \ {t} : op[u].pc # "idle" => op[u].obj # o
      /\ op'[t].obj = o
      /\ op'[t].pc \in {"find", "reserved", "add", "push", "back", "unlink", "free", "map"}
      /\ op'[t].pc = "map" => op'[t].at = 0
      /\ \A x \in Objs : /\ claim'[x].page = claim[x].page /\ claim'[x].size = claim[x].size
                         /\ claim'[x].phase = claim[x].phase /\ claim'[x].owner = claim[x].owner
                         /\ x # o => claim'[x].rw = claim[x].rw
  BY <1>2, QuietEffect
<1>4. \A p \in Slots : ~Holds(o, p)
  BY <1>3 DEF Holds
<1>5. ASSUME NEW p \in Slots, Holds(o, p)' PROVE FALSE
  <2>0. claim'[o].phase # "live"
    BY <1>3
  <2>1. PICK u \in Threads : /\ op'[u].obj = o
                             /\ \/ op'[u].pc = "map" /\ p < claim'[o].rw + op'[u].at
                                \/ op'[u].pc = "check" \/ op'[u].pc = "unmap"
                             /\ claim'[o].rw <= p
    BY <2>0, <1>5 DEF Holds
  <2>2. u = t
    BY <1>3, <2>1
  <2>3. p < claim'[o].rw + 0 /\ claim'[o].rw <= p
    BY <1>3, <2>1, <2>2
  <2>4. claim'[o].rw \in Nat
    BY <1>1, <1>3 DEF Claims
  <2> QED BY <2>3, <2>4 DEF Slots
<1>6. \A x \in Objs \ {o} : \A p \in Slots : Holds(x, p)' <=> Holds(x, p)
  <2> SUFFICES ASSUME NEW x \in Objs \ {o}, NEW p \in Slots PROVE Holds(x, p)' <=> Holds(x, p)
    OBVIOUS
  <2>1. \A u \in Threads : op[u].obj = x \/ op'[u].obj = x => op'[u] = op[u]
    BY <1>3, <1>2
  <2>2. claim'[x].rw = claim[x].rw /\ claim'[x].size = claim[x].size
        /\ claim'[x].phase = claim[x].phase /\ claim'[x].owner = claim[x].owner
    BY <1>3
  <2> QED BY <2>1, <2>2 DEF Holds, Pages
<1>7. SameShells
  BY <1>3 DEF SameShells
<1> QED BY <1>3, <1>4, <1>5, <1>6, <1>7 DEF SameHolds

(* ... the comparison, ...                                                 *)
LEMMA CompareHolds ==
  ASSUME TypeOK, OneOperation, NEW t \in Threads, Compare(t)
  PROVE  SameHolds /\ SameShells /\ frame' = frame
<1> USE DEF At, Mine
<1>1. claim \in [Objs -> Claims] /\ op \in [Threads -> Ops]
  BY DEF TypeOK, Claims, Ops
<1>2. PICK o \in Objs : o = op[t].obj
  BY DEF Compare, OneOperation
<1>3. /\ op[t].pc = "check" /\ frame' = frame
      /\ claim[o].phase = "ctor" /\ claim[o].owner
  BY <1>2 DEF Compare, OneOperation
<1>4. CASE claim' = claim /\ op' = op
  BY <1>3, <1>4 DEF SameHolds, SameShells, Holds, Pages
<1>5. CASE ~(claim' = claim /\ op' = op)
  <2>1. claim' = [claim EXCEPT ![o].phase = "live"] /\ op' = [op EXCEPT ![t] = Idle]
    BY <1>5, <1>2 DEF Compare, Return
  <2>2. /\ \A x \in Objs \ {o} : claim'[x] = claim[x]
        /\ claim'[o].size = claim[o].size /\ claim'[o].rw = claim[o].rw
        /\ claim'[o].owner = claim[o].owner /\ claim'[o].phase = "live"
    BY <1>1, <1>3, <2>1 DEF Claims
  <2>3. op'[t].pc = "idle" /\ \A u \in Threads \ {t} : op'[u] = op[u]
    BY <1>1, <2>1 DEF Idle
  <2>4. \A p \in Slots : Holds(o, p)' <=> Holds(o, p)
    BY <1>2, <1>3, <2>2 DEF Holds, Pages
  <2>5. \A x \in Objs \ {o} : \A p \in Slots : Holds(x, p)' <=> Holds(x, p)
    BY <1>2, <1>3, <2>2, <2>3 DEF Holds, Pages
  <2> QED BY <1>3, <2>2, <2>4, <2>5 DEF SameHolds, SameShells
<1> QED BY <1>4, <1>5

(* ... the start of a destructor, ...                                      *)
LEMMA DestroyHolds ==
  ASSUME TypeOK, OneOperation, NEW t \in Threads, NEW o \in Objs, Destroy(t, o)
  PROVE  /\ frame' = frame
         /\ IF claim[o].owner THEN SameHolds /\ SameShells
            ELSE /\ claim'[o].phase = "none" /\ \A x \in Objs \ {o} : claim'[x] = claim[x]
                 /\ \A x \in Objs : \A p \in Slots : Holds(x, p)' <=> x # o /\ Holds(x, p)
<1>0. claim \in [Objs -> Claims] /\ op \in [Threads -> Ops]
  BY DEF TypeOK, Claims, Ops
<1>1. op[t].pc = "idle" /\ claim[o].phase = "live" /\ frame' = frame
  BY DEF Destroy, At
<1>2. \A x \in Objs \ {o} : claim'[x] = claim[x]
  BY <1>0 DEF Destroy
<1>3. \A u \in Threads : op[u].pc # "idle" => op[u].obj # o
  BY <1>1 DEF OneOperation, Mine
<1>4. /\ \A u \in Threads \ {t} : op'[u] = op[u]
      /\ op'[t].pc = "idle" \/ op'[t].obj = o
  BY <1>0, <1>1 DEF Destroy
<1>5. \A x \in Objs \ {o} : \A p \in Slots : Holds(x, p)' <=> Holds(x, p)
  BY <1>1, <1>2, <1>4 DEF Holds, Pages
<1>6. CASE claim[o].owner
  <2>1. /\ claim' = [claim EXCEPT ![o].phase = "dtor"]
        /\ op' = [op EXCEPT ![t] = [pc |-> "unmap", obj |-> o, at |-> 0, tries |-> 0]]
    BY <1>6 DEF Destroy
  <2>2. /\ claim'[o].phase = "dtor" /\ claim'[o].rw = claim[o].rw /\ claim'[o].size = claim[o].size
        /\ claim[o].rw \in Nat
    BY <1>0, <2>1 DEF Claims
  <2>3. op'[t].pc = "unmap" /\ op'[t].obj = o /\ op'[t].at = 0
    BY <1>0, <2>1
  <2>4. ASSUME NEW p \in Slots PROVE Holds(o, p)' <=> Holds(o, p)
    <3>1. Holds(o, p) <=> claim[o].rw <= p /\ p < claim[o].rw + Pages(claim[o])
      BY <1>1, <1>6 DEF Holds
    <3>2. claim'[o].rw + op'[t].at = claim[o].rw
      BY <2>2, <2>3
    <3>3. Pages(claim'[o]) = Pages(claim[o])
      BY <2>2 DEF Pages
    <3>4. Holds(o, p)' <=> claim'[o].rw <= p /\ p < claim'[o].rw + Pages(claim'[o])
      BY <2>3, <3>2, <2>2 DEF Holds
    <3> QED BY <2>2, <3>1, <3>3, <3>4
  <2>5. SameShells
    BY <1>2, <1>6, <2>2 DEF SameShells
  <2> QED BY <1>1, <1>5, <1>6, <2>4, <2>5 DEF SameHolds
<1>7. CASE ~claim[o].owner
  <2>1. claim'[o].phase = "none" /\ op' = op
    BY <1>0, <1>7 DEF Destroy, NoClaim
  <2>2. \A p \in Slots : ~Holds(o, p)'
    BY <1>3, <2>1 DEF Holds
  <2> QED BY <1>1, <1>2, <1>5, <1>7, <2>1, <2>2
<1> QED BY <1>6, <1>7

(* ... and its end.                                                        *)
LEMMA UnlinkPrevHolds ==
  ASSUME TypeOK, OneOperation, NEW t \in Threads, UnlinkPrev(t)
  PROVE  SameHolds /\ SameShells /\ frame' = frame
<1>1. claim \in [Objs -> Claims] /\ op \in [Threads -> Ops]
  BY DEF TypeOK, Claims, Ops
<1>2. PICK o \in Objs : o = op[t].obj
  BY DEF UnlinkPrev, OneOperation, At
<1>3. op[t].pc = "free" /\ claim[o].phase = "dtor" /\ frame' = frame
  BY <1>2 DEF UnlinkPrev, OneOperation, At, Mine
<1>4. claim'[o].phase = "none" /\ \A x \in Objs \ {o} : claim'[x] = claim[x]
  BY <1>1, <1>2 DEF UnlinkPrev, NoClaim
<1>5. op'[t].pc = "idle" /\ \A u \in Threads \ {t} : op'[u] = op[u]
  BY <1>1 DEF UnlinkPrev, Return, Idle
<1>6. \A u \in Threads \ {t} : op[u].pc # "idle" => op[u].obj # o
  BY <1>2, <1>3 DEF OneOperation
<1>7. \A p \in Slots : ~Holds(o, p) /\ ~Holds(o, p)'
  BY <1>2, <1>3, <1>4, <1>5, <1>6 DEF Holds
<1>8. \A x \in Objs \ {o} : \A p \in Slots : Holds(x, p)' <=> Holds(x, p)
  BY <1>2, <1>3, <1>4, <1>5 DEF Holds, Pages
<1> QED BY <1>3, <1>4, <1>7, <1>8 DEF SameHolds, SameShells

(* A round of the constructor maps free pages and holds them.              *)
LEMMA MapHolds ==
  ASSUME TypeOK, OneOperation, InBounds, NEW t \in Threads, NEW o \in Objs, o = op[t].obj,
         MapRange(t), NEW stop \in Nat, stop <= Pages(claim[o]), op[t].at < stop,
         op'[t].obj = o, op'[t].at = stop,
         op'[t].pc = IF stop = Pages(claim[o]) THEN "check" ELSE "map",
         \A u \in Threads \ {t} : op'[u] = op[u]
  PROVE  \A x \in Objs : \A p \in Slots :
           Holds(x, p)' <=> \/ Holds(x, p)
                            \/ x = o /\ claim[o].rw + op[t].at <= p /\ p < claim[o].rw + stop
<1>1. /\ op[t].pc = "map" /\ claim' = claim /\ claim[o].phase = "ctor"
      /\ claim[o].rw \in Nat /\ Pages(claim[o]) \in Nat /\ op[t].at \in Nat
  BY MapEffect
<1>2. \A u \in Threads \ {t} : op[u].pc # "idle" => op[u].obj # o
  BY <1>1 DEF OneOperation
<1>3. \A x \in Objs \ {o} : \A p \in Slots : Holds(x, p)' <=> Holds(x, p)
  BY <1>1 DEF Holds, Pages
<1>4. ASSUME NEW p \in Slots
      PROVE  /\ Holds(o, p) <=> /\ claim[o].rw <= p /\ p < claim[o].rw + Pages(claim[o])
                                /\ p < claim[o].rw + op[t].at
             /\ Holds(o, p)' <=> /\ claim[o].rw <= p /\ p < claim[o].rw + Pages(claim[o])
                                 /\ stop = Pages(claim[o]) \/ p < claim[o].rw + stop
  <2>1. Pages(claim'[o]) = Pages(claim[o])
    BY <1>1
  <2>2. Holds(o, p) <=> /\ claim[o].rw <= p /\ p < claim[o].rw + Pages(claim[o])
                        /\ p < claim[o].rw + op[t].at
    BY <1>1, <1>2 DEF Holds
  <2>3. \A u \in Threads \ {t} : op'[u].obj = o => op'[u].pc = "idle"
    BY <1>2
  <2>4. Holds(o, p)' <=> /\ claim[o].rw <= p /\ p < claim[o].rw + Pages(claim[o])
                         /\ op'[t].pc = "check" \/ (op'[t].pc = "map" /\ p < claim[o].rw + op'[t].at)
    BY <1>1, <2>1, <2>3 DEF Holds
  <2>5. (op'[t].pc = "check" \/ (op'[t].pc = "map" /\ p < claim[o].rw + op'[t].at))
          <=> (stop = Pages(claim[o]) \/ p < claim[o].rw + stop)
    <3>1. CASE stop = Pages(claim[o])
      BY <3>1
    <3>2. CASE stop # Pages(claim[o])
      BY <3>2
    <3> QED BY <3>1, <3>2
  <2> QED BY <2>2, <2>4, <2>5
<1>5. ASSUME NEW p \in Slots
      PROVE  Holds(o, p)' <=> \/ Holds(o, p)
                              \/ claim[o].rw + op[t].at <= p /\ p < claim[o].rw + stop
  <2>1. p \in Nat
    BY DEF Slots
  <2> QED BY <1>1, <1>4, <2>1
<1> QED BY <1>3, <1>5

(* A round of the destructor unmaps pages its object holds.                *)
LEMMA UnmapHolds ==
  ASSUME TypeOK, OneOperation, InBounds, NEW t \in Threads, NEW o \in Objs, o = op[t].obj,
         UnmapRange(t), ~IsEmpty(Mine(t)),
         NEW stop \in Nat, stop <= Pages(claim[o]), op[t].at < stop,
         op'[t].obj = o, op'[t].at = stop,
         op'[t].pc = IF stop = Pages(claim[o]) THEN "unlink" ELSE "unmap",
         \A u \in Threads \ {t} : op'[u] = op[u]
  PROVE  /\ \A p \in Slots : claim[o].rw + op[t].at <= p /\ p < claim[o].rw + stop => Holds(o, p)
         /\ \A x \in Objs : \A p \in Slots :
              Holds(x, p)' <=> /\ Holds(x, p)
                               /\ ~(x = o /\ claim[o].rw + op[t].at <= p /\ p < claim[o].rw + stop)
<1>1. /\ op[t].pc = "unmap" /\ claim' = claim /\ claim[o].phase = "dtor"
      /\ claim[o].rw \in Nat /\ Pages(claim[o]) \in Nat /\ op[t].at \in Nat
  BY UnmapEffect
<1>2. \A u \in Threads \ {t} : op[u].pc # "idle" => op[u].obj # o
  BY <1>1 DEF OneOperation
<1>3. \A x \in Objs \ {o} : \A p \in Slots : Holds(x, p)' <=> Holds(x, p)
  BY <1>1 DEF Holds, Pages
<1>4. ASSUME NEW p \in Slots
      PROVE  /\ Holds(o, p) <=> /\ claim[o].rw <= p /\ p < claim[o].rw + Pages(claim[o])
                                /\ claim[o].rw + op[t].at <= p
             /\ Holds(o, p)' <=> /\ claim[o].rw <= p /\ p < claim[o].rw + Pages(claim[o])
                                 /\ stop # Pages(claim[o]) /\ claim[o].rw + stop <= p
  <2>1. Pages(claim'[o]) = Pages(claim[o])
    BY <1>1
  <2>2. Holds(o, p) <=> /\ claim[o].rw <= p /\ p < claim[o].rw + Pages(claim[o])
                        /\ claim[o].rw + op[t].at <= p
    BY <1>1, <1>2 DEF Holds
  <2>3. \A u \in Threads \ {t} : op'[u].obj = o => op'[u].pc = "idle"
    BY <1>2
  <2>4. Holds(o, p)' <=> /\ claim[o].rw <= p /\ p < claim[o].rw + Pages(claim[o])
                         /\ op'[t].pc = "unmap" /\ claim[o].rw + op'[t].at <= p
    BY <1>1, <2>1, <2>3 DEF Holds
  <2> QED BY <2>2, <2>4
<1>5. ASSUME NEW p \in Slots
      PROVE  /\ claim[o].rw + op[t].at <= p /\ p < claim[o].rw + stop => Holds(o, p)
             /\ Holds(o, p)' <=> /\ Holds(o, p)
                                 /\ ~(claim[o].rw + op[t].at <= p /\ p < claim[o].rw + stop)
  <2>1. p \in Nat
    BY DEF Slots
  <2> QED BY <1>1, <1>4, <2>1
<1> QED BY <1>3, <1>5

(* A move leaves its source a shell, which holds nothing, and the target   *)
(* holds what the source held.                                             *)
LEMMA MoveHolds ==
  ASSUME TypeOK, OneOperation, NEW t \in Threads, NEW o \in Objs, NEW q \in Objs, o # q,
         MoveConstruct(t, o, q) \/ MoveAssign(t, o, q)
  PROVE  \A p \in Slots : /\ ~Holds(o, p)'
                          /\ Holds(q, p) => claim[q].phase = "live"
                          /\ Holds(q, p)' <=> Holds(o, p)
                          /\ \A x \in Objs \ {o, q} : Holds(x, p)' <=> Holds(x, p)
<1>1. /\ op' = op /\ claim[o].phase = "live" /\ claim[q].phase \in {"none", "live"}
      /\ claim'[o] = Emptied /\ claim'[q].phase = "live" /\ claim'[q].rw = claim[o].rw
      /\ Pages(claim'[q]) = Pages(claim[o]) /\ \A x \in Objs \ {o, q} : claim'[x] = claim[x]
  BY MoveEffect
<1>2. \A u \in Threads : op[u].pc # "idle" => op[u].obj \notin {o, q}
  BY <1>1 DEF OneOperation, Mine
<1>3. Pages(claim'[o]) = 0 /\ claim'[o].rw = 0
  BY <1>1, EmptyClaims
<1>4. ASSUME NEW p \in Slots
      PROVE  /\ ~Holds(o, p)'
             /\ Holds(q, p) => claim[q].phase = "live"
             /\ Holds(q, p)' <=> Holds(o, p)
  <2>1. ~Holds(o, p)'
    <3>1. ~(claim'[o].rw <= p /\ p < claim'[o].rw + Pages(claim'[o]))
      BY <1>3 DEF Slots
    <3> QED BY <3>1 DEF Holds
  <2>2. Holds(q, p) => claim[q].phase = "live"
    BY <1>2 DEF Holds
  <2>3. Holds(o, p) <=> claim[o].rw <= p /\ p < claim[o].rw + Pages(claim[o])
    BY <1>1 DEF Holds
  <2>4. Holds(q, p)' <=> claim[o].rw <= p /\ p < claim[o].rw + Pages(claim[o])
    BY <1>1 DEF Holds
  <2> QED BY <2>1, <2>2, <2>3, <2>4
<1>5. \A x \in Objs \ {o, q} : \A p \in Slots : Holds(x, p)' <=> Holds(x, p)
  BY <1>1 DEF Holds, Pages
<1> QED BY <1>4, <1>5

(* A step of RwPages is a step of AliasMap or none of it: a round of the   *)
(* constructor, ...                                                        *)
LEMMA MapAliases ==
  ASSUME IInv, IInv', NEW t \in Threads, MapRange(t)
  PROVE  [Aliases!Next]_<<frame, Holder, Shells>>
<1> USE DEF IInv, AliasInv
<1>1. PICK o \in Objs : o = op[t].obj
  BY MapEffect
<1>2. /\ claim' = claim /\ claim[o].phase = "ctor" /\ claim[o].owner
      /\ claim[o].rw + Pages(claim[o]) <= RwPagesMax /\ claim[o].page + Pages(claim[o]) <= RoPages
      /\ claim[o].rw \in Nat /\ claim[o].page \in Nat /\ Pages(claim[o]) \in Nat
      /\ op[t].at \in Nat /\ op[t].pc = "map"
  BY <1>1, MapEffect, MineType DEF Mine
<1>3. PICK stop \in Nat :
        /\ stop <= Pages(claim[o]) /\ op[t].at < stop
        /\ \/ op' = op /\ frame' = frame
           \/ /\ \A p \in Slots : claim[o].rw + op[t].at <= p /\ p < claim[o].rw + stop =>
                   frame[p] = Free /\ frame'[p] = claim[o].page + (p - claim[o].rw)
              /\ \A p \in Slots : ~(claim[o].rw + op[t].at <= p /\ p < claim[o].rw + stop) =>
                   frame'[p] = frame[p]
              /\ op'[t].obj = o /\ op'[t].at = stop
              /\ op'[t].pc = IF stop = Pages(claim[o]) THEN "check" ELSE "map"
              /\ \A u \in Threads \ {t} : op'[u] = op[u]
  BY <1>1, MapEffect
<1>4. Shells' = Shells
  BY <1>2 DEF Shells
<1>5. CASE op' = op /\ frame' = frame
  <2>1. SameHolds
    BY <1>2, <1>5 DEF SameHolds, Holds, Pages
  <2> QED BY <1>4, <1>5, <2>1, HolderStays
<1>6. CASE ~(op' = op /\ frame' = frame)
  <2> DEFINE s == claim[o].rw + op[t].at
             c == claim[o].page + op[t].at
             n == stop - op[t].at
             S == s .. s + n - 1
             g == [p \in Slots |-> IF p \in S THEN o ELSE Holder[p]]
  <2>1. s \in Slots /\ n \in 1 .. RwPagesMax - s /\ c \in 0 .. RoPages - n
    BY <1>2, <1>3, SizeAssumption DEF Slots
  <2>2. \A p \in Slots : p \in S <=> claim[o].rw + op[t].at <= p /\ p < claim[o].rw + stop
    BY <1>2, <1>3 DEF Slots
  <2>3. \A p \in S : p \in Slots
    BY <1>2, <1>3, SizeAssumption DEF Slots
  <2>4. \A p \in Slots : claim[o].page + (p - claim[o].rw) = c + (p - s)
    BY <1>2 DEF Slots
  <2> HIDE DEF s, c, n, S
  <2>5. \A p \in S : frame[p] = Free
    BY <1>3, <1>6, <2>2, <2>3
  <2>6. \A p \in Slots : frame'[p] = IF p \in S THEN c + (p - s) ELSE frame[p]
    BY <1>3, <1>6, <2>2, <2>4
  <2>7. frame' = [p \in Slots |-> IF p \in S THEN c + (p - s) ELSE frame[p]]
    <3>1. frame' \in [Slots -> Showing]
      BY DEF TypeOK
    <3> QED BY <2>6, <3>1
  <2>8. \A x \in Objs : \A p \in Slots : Holds(x, p)' <=> Holds(x, p) \/ (x = o /\ p \in S)
    BY <1>1, <1>3, <1>6, <2>2, MapHolds
  <2>9. ASSUME NEW p \in Slots, p \in S, NEW x \in Objs, Holds(x, p) PROVE FALSE
    <3>1. frame[p] = claim[x].page + (p - claim[x].rw)
      BY <2>9 DEF HoldsExact
    <3>2. claim[x].page \in Nat /\ claim[x].rw \in Nat
      BY <2>9 DEF TypeOK
    <3>3. claim[x].rw <= p
      BY <2>9 DEF Holds
    <3>4. frame[p] \in Nat
      BY <3>1, <3>2, <3>3 DEF Slots
    <3> QED BY <2>5, <2>9, <3>4, FrameAssumption
  <2>10. g \in [Slots -> Objs \cup {Null}]
    BY HolderIs
  <2>11. \A p \in Slots : \A x \in Objs : g[p] = x <=> Holds(x, p)'
    <3> SUFFICES ASSUME NEW p \in Slots, NEW x \in Objs PROVE g[p] = x <=> Holds(x, p)'
      OBVIOUS
    <3>1. CASE p \in S
      BY <2>8, <2>9, <3>1
    <3>2. CASE p \notin S
      BY <2>8, <3>2, HolderIs
    <3> QED BY <3>1, <3>2
  <2>12. Holder' = g
    BY <2>10, <2>11, HolderNext
  <2>13. o \in Objs \ Shells
    BY <1>2 DEF Shells
  <2>14. Aliases!Map(s, c, n)
    BY <1>4, <2>5, <2>7, <2>12, <2>13 DEF Aliases!Map, Aliases!Slots, Slots, S
  <2>15. s \in Aliases!Slots
    BY <2>1 DEF Slots, Aliases!Slots
  <2> QED BY <2>1, <2>14, <2>15 DEF Aliases!Next
<1> QED BY <1>5, <1>6

(* ... one of the destructor, ...                                          *)
LEMMA UnmapAliases ==
  ASSUME IInv, IInv', NEW t \in Threads, UnmapRange(t)
  PROVE  [Aliases!Next]_<<frame, Holder, Shells>>
<1> USE DEF IInv, AliasInv
<1>0. CASE IsEmpty(Mine(t))
  <2>1. claim' = claim /\ op' = op /\ frame' = frame
    BY <1>0, UnmapRefused
  <2>2. SameHolds /\ Shells' = Shells
    BY <2>1 DEF SameHolds, Holds, Pages, Shells
  <2> QED BY <2>1, <2>2, HolderStays
<1> SUFFICES ASSUME ~IsEmpty(Mine(t)) PROVE [Aliases!Next]_<<frame, Holder, Shells>>
  BY <1>0
<1>1. PICK o \in Objs : o = op[t].obj
  BY UnmapEffect
<1>2. /\ claim' = claim /\ claim[o].phase = "dtor" /\ claim[o].owner
      /\ claim[o].rw + Pages(claim[o]) <= RwPagesMax /\ claim[o].page + Pages(claim[o]) <= RoPages
      /\ claim[o].rw \in Nat /\ claim[o].page \in Nat /\ Pages(claim[o]) \in Nat
      /\ op[t].at \in Nat /\ op[t].pc = "unmap"
  <2>1. op[t].pc = "unmap" /\ claim' = claim /\ claim[o].phase = "dtor" /\ op[t].at \in Nat
    BY <1>1, UnmapEffect
  <2> QED BY <1>1, <2>1, MineType DEF Mine, InBounds, Claims
<1>3. PICK stop \in Nat :
        /\ stop <= Pages(claim[o]) /\ op[t].at < stop
        /\ \/ op' = op /\ frame' = frame
           \/ /\ \A p \in Slots : ~(claim[o].rw + op[t].at <= p /\ p < claim[o].rw + stop) =>
                   frame'[p] = frame[p]
              /\ \A p \in Slots : claim[o].rw + op[t].at <= p /\ p < claim[o].rw + stop =>
                   frame'[p] = Free
              /\ op'[t].obj = o /\ op'[t].at = stop
              /\ op'[t].pc = IF stop = Pages(claim[o]) THEN "unlink" ELSE "unmap"
              /\ \A u \in Threads \ {t} : op'[u] = op[u]
  BY <1>1, UnmapEffect
<1>4. Shells' = Shells
  BY <1>2 DEF Shells
<1>5. CASE op' = op /\ frame' = frame
  <2>1. SameHolds
    BY <1>2, <1>5 DEF SameHolds, Holds, Pages
  <2> QED BY <1>4, <1>5, <2>1, HolderStays
<1>6. CASE ~(op' = op /\ frame' = frame)
  <2> DEFINE s == claim[o].rw + op[t].at
             n == stop - op[t].at
             S == s .. s + n - 1
             g == [p \in Slots |-> IF p \in S THEN Null ELSE Holder[p]]
  <2>1. s \in Slots /\ n \in 1 .. RwPagesMax - s
    BY <1>2, <1>3, SizeAssumption DEF Slots
  <2>2. \A p \in Slots : p \in S <=> claim[o].rw + op[t].at <= p /\ p < claim[o].rw + stop
    BY <1>2, <1>3 DEF Slots
  <2>3. \A p \in S : p \in Slots
    BY <1>2, <1>3, SizeAssumption DEF Slots
  <2> HIDE DEF s, n, S
  <2>4. \A p \in Slots : frame'[p] = IF p \in S THEN Free ELSE frame[p]
    BY <1>3, <1>6, <2>2
  <2>5. frame' = [p \in Slots |-> IF p \in S THEN Free ELSE frame[p]]
    <3>1. frame' \in [Slots -> Showing]
      BY DEF TypeOK
    <3> QED BY <2>4, <3>1
  <2>6. /\ \A p \in S : Holds(o, p)
        /\ \A x \in Objs : \A p \in Slots : Holds(x, p)' <=> Holds(x, p) /\ ~(x = o /\ p \in S)
    BY <1>1, <1>3, <1>6, <2>2, <2>3, UnmapHolds
  <2>7. \A p \in S : frame[p] \in 0..RoPages-1
    <3> SUFFICES ASSUME NEW p \in S PROVE frame[p] \in 0..RoPages-1
      OBVIOUS
    <3>1. frame[p] = claim[o].page + (p - claim[o].rw)
      BY <2>3, <2>6 DEF HoldsExact
    <3>2. claim[o].rw <= p /\ p < claim[o].rw + Pages(claim[o]) /\ p \in Nat
      BY <2>3, <2>6 DEF Holds, Slots
    <3> QED BY <1>2, <3>1, <3>2, SizeAssumption
  <2>8. \A p \in S : Holder[p] = o
    BY <2>3, <2>6, HolderIs
  <2>9. g \in [Slots -> Objs \cup {Null}]
    BY HolderIs
  <2>10. \A p \in Slots : \A x \in Objs : g[p] = x <=> Holds(x, p)'
    <3> SUFFICES ASSUME NEW p \in Slots, NEW x \in Objs PROVE g[p] = x <=> Holds(x, p)'
      OBVIOUS
    <3>1. CASE p \in S
      <4>1. g[p] # x
        BY <3>1, NullAssumption
      <4>2. ~Holds(x, p)'
        BY <2>6, <3>1 DEF HoldsExact
      <4> QED BY <4>1, <4>2
    <3>2. CASE p \notin S
      BY <2>6, <3>2, HolderIs
    <3> QED BY <3>1, <3>2
  <2>11. Holder' = g
    BY <2>9, <2>10, HolderNext
  <2>12. o \in Objs \ Shells
    BY <1>2 DEF Shells
  <2>13. Aliases!Unmap(s, n)
    BY <1>4, <2>5, <2>7, <2>8, <2>11, <2>12 DEF Aliases!Unmap, Aliases!Slots, Slots, S
  <2>14. s \in Aliases!Slots
    BY <2>1 DEF Slots, Aliases!Slots
  <2> QED BY <2>1, <2>13, <2>14 DEF Aliases!Next
<1> QED BY <1>5, <1>6

(* ... a move, ...                                                         *)
LEMMA MoveAliases ==
  ASSUME IInv, IInv', NEW t \in Threads, NEW o \in Objs, NEW q \in Objs,
         MoveConstruct(t, o, q) \/ MoveAssign(t, o, q)
  PROVE  Aliases!Next
<1> USE DEF IInv, AliasInv
<1>1. CASE o = q
  <2>1. MoveAssign(t, o, o)
    BY <1>1 DEF MoveConstruct
  <2>2. /\ frame' = frame /\ op' = op /\ claim[o].phase = "live" /\ ~claim'[o].owner
        /\ \A x \in Objs \ {o} : claim'[x] = claim[x]
        /\ \A x \in Objs : /\ claim'[x].phase = claim[x].phase /\ claim'[x].rw = claim[x].rw
                            /\ Pages(claim'[x]) = Pages(claim[x])
    BY <2>1, SelfMoveEffect
  <2>3. Holder' = Holder
    <3>1. SameHolds
      BY <2>2 DEF SameHolds, Holds
    <3> QED BY <3>1, HolderStays
  <2>4. Shells' = Shells \cup {o}
    BY <2>2 DEF Shells
  <2>5. Holder = [p \in Slots |-> IF Holder[p] = o THEN o
                                 ELSE IF Holder[p] = o THEN Null ELSE Holder[p]]
    <3> DEFINE h == Holder
    <3>1. h = [p \in Slots |-> h[p]]
      BY DEF Holder
    <3> HIDE DEF h
    <3>2. h = [p \in Slots |-> IF h[p] = o THEN o ELSE IF h[p] = o THEN Null ELSE h[p]]
      BY <3>1
    <3> QED BY <3>2 DEF h
  <2>6. Aliases!Hand(o, o)
    BY <2>2, <2>3, <2>4, <2>5 DEF Aliases!Hand, Aliases!Passes, Aliases!Slots, Slots
  <2> QED BY <2>6 DEF Aliases!Next
<1>2. CASE o # q
  <2> DEFINE g == [p \in Slots |-> IF Holder[p] = o THEN q
                                  ELSE IF Holder[p] = q THEN Null ELSE Holder[p]]
  <2>1. /\ frame' = frame /\ claim[o].phase = "live" /\ claim[q].phase \in {"none", "live"}
        /\ claim'[o].phase = "live" /\ ~claim'[o].owner /\ claim'[q].phase = "live"
        /\ claim'[q].owner = IF claim[q].phase = "none" THEN claim[o].owner ELSE claim[q].owner
        /\ \A x \in Objs \ {o, q} : claim'[x] = claim[x]
    BY <1>2, MoveEffect, EmptyClaims
  <2>2. \A p \in Slots : /\ ~Holds(o, p)'
                         /\ Holds(q, p) => claim[q].phase = "live"
                         /\ Holds(q, p)' <=> Holds(o, p)
                         /\ \A x \in Objs \ {o, q} : Holds(x, p)' <=> Holds(x, p)
    BY <1>2, MoveHolds
  <2>3. g \in [Slots -> Objs \cup {Null}]
    BY HolderIs
  <2>4. \A p \in Slots : \A x \in Objs : g[p] = x <=> Holds(x, p)'
    <3> SUFFICES ASSUME NEW p \in Slots, NEW x \in Objs PROVE g[p] = x <=> Holds(x, p)'
      OBVIOUS
    <3>1. CASE Holds(o, p)
      <4>1. Holder[p] = o /\ \A y \in Objs : Holds(y, p) => y = o
        BY <3>1, HolderIs DEF HoldsExact
      <4>2. g[p] = q
        BY <4>1
      <4>3. Holds(x, p)' <=> x = q
        <5>1. CASE x = q
          BY <2>2, <3>1, <5>1
        <5>2. CASE x # q
          BY <2>2, <4>1, <5>2
        <5> QED BY <5>1, <5>2
      <4> QED BY <4>2, <4>3
    <3>2. CASE ~Holds(o, p)
      <4>1. Holder[p] # o /\ (Holder[p] = q <=> Holds(q, p)) /\ (Holder[p] = x <=> Holds(x, p))
        BY <3>2, HolderIs
      <4>2. CASE x \in {o, q}
        <5>1. ~Holds(x, p)'
          BY <2>2, <3>2, <4>2
        <5>2. g[p] # x
          BY <4>1, <4>2, NullAssumption
        <5> QED BY <5>1, <5>2
      <4>3. CASE x \notin {o, q}
        <5>1. Holds(x, p)' <=> Holds(x, p)
          BY <2>2, <4>3
        <5>2. g[p] = x <=> Holder[p] = x
          BY <4>1, <4>3, NullAssumption
        <5> QED BY <4>1, <5>1, <5>2
      <4> QED BY <4>2, <4>3
    <3> QED BY <3>1, <3>2
  <2>5. Holder' = g
    BY <2>3, <2>4, HolderNext
  <2>6. Aliases!Passes(o, q)
    BY <2>5 DEF Aliases!Passes, Aliases!Slots, Slots
  <2>7. CASE claim[q].phase = "none" /\ ~claim[o].owner
    <3>1. \A p \in Slots : Holder[p] # q
      BY <2>2, <2>7, HolderIs
    <3>2. o \in Shells /\ Shells' = Shells \cup {q}
      BY <1>2, <2>1, <2>7 DEF Shells
    <3>3. Aliases!ShellMoves(o, q)
      BY <2>1, <2>6, <3>1, <3>2 DEF Aliases!ShellMoves, Aliases!Slots, Slots
    <3> QED BY <3>3 DEF Aliases!Next
  <2>8. CASE claim[q].phase = "live" \/ claim[o].owner
    <3>1. Shells' = Shells \cup {o}
      BY <1>2, <2>1, <2>8 DEF Shells
    <3>2. Aliases!Hand(o, q)
      BY <2>1, <2>6, <3>1 DEF Aliases!Hand
    <3> QED BY <3>2 DEF Aliases!Next
  <2> QED BY <2>1, <2>7, <2>8
<1> QED BY <1>1, <1>2

(* ... or any other.                                                       *)
LEMMA AliasStep ==
  ASSUME IInv, IInv', [Next]_vars
  PROVE  [Aliases!Next]_<<frame, Holder, Shells>>
<1> USE DEF IInv, AliasInv
<1>1. ASSUME SameHolds, SameShells, frame' = frame
      PROVE  [Aliases!Next]_<<frame, Holder, Shells>>
  BY <1>1, HolderStays, ShellsStay
<1>2. ASSUME NEW t \in Threads, NEW o \in Objs, NEW q \in Requests, Construct(t, o, q)
      PROVE  [Aliases!Next]_<<frame, Holder, Shells>>
  BY <1>1, <1>2, ConstructHolds
<1>3. ASSUME NEW t \in Threads, QuietStep(t) PROVE [Aliases!Next]_<<frame, Holder, Shells>>
  BY <1>1, <1>3, QuietHolds
<1>4. ASSUME NEW t \in Threads, Compare(t) PROVE [Aliases!Next]_<<frame, Holder, Shells>>
  BY <1>1, <1>4, CompareHolds
<1>5. ASSUME NEW t \in Threads, UnlinkPrev(t) PROVE [Aliases!Next]_<<frame, Holder, Shells>>
  BY <1>1, <1>5, UnlinkPrevHolds
<1>6. ASSUME NEW t \in Threads, NEW o \in Objs, Destroy(t, o)
      PROVE  [Aliases!Next]_<<frame, Holder, Shells>>
  <2>1. frame' = frame
    BY <1>6, DestroyHolds
  <2>2. CASE claim[o].owner
    BY <1>1, <1>6, <2>1, <2>2, DestroyHolds
  <2>3. CASE ~claim[o].owner
    <3> DEFINE g == [p \in Slots |-> IF Holder[p] = o THEN Null ELSE Holder[p]]
    <3>1. /\ claim'[o].phase = "none" /\ \A x \in Objs \ {o} : claim'[x] = claim[x]
          /\ \A x \in Objs : \A p \in Slots : Holds(x, p)' <=> x # o /\ Holds(x, p)
      BY <1>6, <2>3, DestroyHolds
    <3>2. claim[o].phase = "live"
      BY <1>6 DEF Destroy
    <3>3. o \in Shells /\ Shells' = Shells \ {o}
      BY <2>3, <3>1, <3>2 DEF Shells
    <3>4. g \in [Slots -> Objs \cup {Null}]
      BY HolderIs
    <3>5. \A p \in Slots : \A x \in Objs : g[p] = x <=> Holds(x, p)'
      BY <3>1, HolderIs, NullAssumption
    <3>6. Holder' = g
      BY <3>4, <3>5, HolderNext
    <3>7. Aliases!ShellEnds(o)
      BY <2>1, <3>3, <3>6 DEF Aliases!ShellEnds, Aliases!Slots, Slots
    <3> QED BY <3>7 DEF Aliases!Next
  <2> QED BY <2>2, <2>3
<1>7. ASSUME NEW p \in Slots, GameMaps(p) \/ GameUnmaps(p)
      PROVE  [Aliases!Next]_<<frame, Holder, Shells>>
  <2>1. /\ claim' = claim /\ op' = op
        /\ \/ frame[p] = Free /\ frame' = [frame EXCEPT ![p] = Game]
           \/ frame[p] = Game /\ frame' = [frame EXCEPT ![p] = Free]
    BY <1>7 DEF GameMaps, GameUnmaps
  <2>2. Holder' = Holder /\ Shells' = Shells
    <3>1. SameHolds
      BY <2>1 DEF SameHolds, Holds, Pages
    <3> QED BY <2>1, <3>1, HolderStays DEF Shells
  <2>3. Aliases!GameTurns(p, Free, Game) \/ Aliases!GameTurns(p, Game, Free)
    BY <2>1, <2>2 DEF Aliases!GameTurns
  <2>4. p \in Aliases!Slots
    BY DEF Aliases!Slots, Slots
  <2> QED BY <2>3, <2>4 DEF Aliases!Next
<1>8. CASE UNCHANGED vars \/ Aborted
  <2>1. claim' = claim /\ op' = op /\ frame' = frame
    BY <1>8 DEF Aborted, vars
  <2>2. SameHolds /\ SameShells
    BY <2>1 DEF SameHolds, SameShells, Holds, Pages
  <2> QED BY <1>1, <2>1, <2>2
<1>9. CASE \E t \in Threads : \E o, q \in Objs : MoveConstruct(t, o, q) \/ MoveAssign(t, o, q)
  BY <1>9, MoveAliases
<1>10. CASE \E t \in Threads : MapRange(t) \/ UnmapRange(t)
  BY <1>10, MapAliases, UnmapAliases
<1> QED
  BY <1>2, <1>3, <1>4, <1>5, <1>6, <1>7, <1>8, <1>9, <1>10 DEF Next, Step, QuietStep

(* RwPages implements AliasMap, with any number of threads that share the  *)
(* list of reservations without a lock: nobody's mapping is mapped over or *)
(* unmapped, a move hands over all of it, and no destructor leaves a page  *)
(* of its own behind.                                                      *)
THEOREM AliasMapIsImplemented == Spec => ImplementsAliasMap
<1>1. Init => Aliases!Init
  <2> SUFFICES ASSUME Init PROVE Aliases!Init
    OBVIOUS
  <2>1. \A o \in Objs : \A p \in Slots : ~Holds(o, p)
    BY DEF Init, Holds, NoClaim, Idle
  <2>2. Holder = [p \in Slots |-> Null]
    BY <2>1 DEF Holder
  <2>3. Shells = {}
    BY DEF Shells, Init, NoClaim
  <2>4. frame = [p \in Slots |-> Free]
    BY DEF Init
  <2> QED BY <2>2, <2>3, <2>4 DEF Aliases!Init, Aliases!Slots, Slots
<1>2. IInv /\ IInv' /\ [Next]_vars => [Aliases!Next]_<<frame, Holder, Shells>>
  BY AliasStep
<1> QED BY <1>1, <1>2, Inductive, PTL DEF Spec, ImplementsAliasMap, Aliases!Spec

=============================================================================
