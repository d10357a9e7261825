------------------------------ MODULE RwPages -------------------------------
(***************************************************************************)
(* Writable aliases of code pages: the claims of lib/util/sys/rw_pages and *)
(* the address space reservations of lib/nx/kernel/virtmem they stand on.  *)
(*                                                                         *)
(* A claim finds a free slice of address space, reserves it, asks the      *)
(* kernel to map the code pages there range by range, and compares what it *)
(* reads on both sides.  Its destructor undoes the three.  Nothing holds   *)
(* the virtmem lock, whose body is empty, so that each thread's statements *)
(* on the kernel's table and on the reservation list are steps of their    *)
(* own.  The game maps and unmaps memory in the same address space.        *)
(*                                                                         *)
(* The kernel (svcQueryMemory, svcMapProcessMemory, svcUnmapProcessMemory) *)
(* is external: frame[p] is what page p of the ASLR region shows, and a    *)
(* mapping over a page in use is refused.  Addresses are pages; a position *)
(* in a page matters only in a claim's request.                            *)
(*                                                                         *)
(* Next to some definitions stands a faulty variant that no action uses:   *)
(* TLC is given it in place of the definition, to see that a property      *)
(* fails then.                                                             *)
(***************************************************************************)
EXTENDS Naturals, FiniteSets

CONSTANTS
  Threads,     \* threads that construct and destroy RwPages objects
  Objs,        \* RwPages objects
  Nodes,       \* what malloc has for reservations
  RoPages,     \* code pages are 0..RoPages-1
  RwPagesMax,  \* pages of the ASLR region are 0..RwPagesMax-1
  Avoid,       \* pages of the alias and heap regions
  RangeEnd,    \* per code page, where the kernel's memory range around it ends
  PageSize,    \* words of a page
  Requests,    \* [page, off, size] of the claims asked for
  MaxTries,    \* RANDOM_MAX_ATTEMPTS
  Free, Game,  \* what a page shows that is unmapped, or the game's
  Null         \* the null pointer, not an object

ASSUME SizeAssumption ==
  RoPages \in Nat /\ RwPagesMax \in Nat /\ PageSize \in Nat \ {0} /\ MaxTries \in Nat
ASSUME RangeAssumption == \A p \in 0..RoPages-1 : RangeEnd[p] \in Nat /\ RangeEnd[p] > p
ASSUME RequestAssumption ==
  \A q \in Requests : /\ q.page \in Nat /\ q.off \in 0..PageSize-1 /\ q.size \in Nat \ {0}
                      /\ q.page + (q.size + PageSize - 1) \div PageSize <= RoPages
ASSUME NullAssumption == Null \notin Objs \cup Nodes
ASSUME FrameAssumption == Free \notin Nat /\ Game \notin Nat /\ Free # Game

VARIABLES
  frame,    \* kernel: what each page of the region shows
  node,     \* the malloc'd VirtmemReservations
  head,     \* g_Reservations
  claim,    \* the RwPages objects
  op,       \* per thread, the constructor or destructor it is in
  outcome,  \* why the process aborted, or "none"
  raced,    \* history: the game mapped a slice between its find and its map
  orphans   \* history: reservations whose claim was overwritten or ended with a non-owner

vars == <<frame, node, head, claim, op, outcome, raced, orphans>>

Slots   == 0..RwPagesMax-1
Showing == {Free, Game} \cup (0..RoPages-1)

AlignUp(n) == (n + PageSize - 1) \div PageSize
Pages(c)   == AlignUp(c.size)             \* GetAlignedSize
Touched(c) == AlignUp(c.off + c.size)     \* pages that hold m_Ro .. m_Ro + m_Size
Straddles(c) == Touched(c) > Pages(c)
IsEmpty(c) == Pages(c) = 0

NoClaim == [phase |-> "none", page |-> 0, off |-> 0, size |-> 0, rw |-> 0,
            rv |-> Null, owner |-> TRUE]
NoNode  == [used |-> FALSE, next |-> Null, prev |-> Null, start |-> 0, stop |-> 0]
Idle    == [pc |-> "idle", obj |-> Null, at |-> 0, tries |-> 0]

Mine(t) == claim[op[t].obj]
At(t, pc) == outcome = "none" /\ op[t].pc = pc
Goto(t, pc) == op' = [op EXCEPT ![t].pc = pc]
Return(t) == op' = [op EXCEPT ![t] = Idle]

(* The slice of a claim, and what the kernel must show there.              *)
Slice(c) == c.rw .. c.rw + Pages(c) - 1
Shows(c, k) == frame[c.rw + k] = c.page + k

(* ForEachMemRange: the pages [k, RangeStop) of the claim are the part of  *)
(* one kernel range that holds its page k.                                 *)
RangeStopFirst(c, k) ==
  LET e == RangeEnd[c.page] - c.page IN IF e < Pages(c) THEN e ELSE Pages(c)
RangeStop(c, k) ==
  LET e == RangeEnd[c.page + k] - c.page IN IF e < Pages(c) THEN e ELSE Pages(c)

(* The reservations a walk from g_Reservations visits: those in each set   *)
(* that has the first one and, with a node, the one it leads to.           *)
ClosedFrom(h, nodes, S) ==
  (h # Null => h \in S) /\ \A n \in S : nodes[n].next # Null => nodes[n].next \in S

Walk ==
  LET closed == {S \in SUBSET Nodes : ClosedFrom(head, node, S)}
  IN  {n \in Nodes : \A S \in closed : n \in S}

Init ==
  /\ frame = [p \in Slots |-> Free]
  /\ node = [n \in Nodes |-> NoNode]
  /\ head = Null
  /\ claim = [o \in Objs |-> NoClaim]
  /\ op = [t \in Threads |-> Idle]
  /\ outcome = "none"
  /\ raced = FALSE
  /\ orphans = {}

-----------------------------------------------------------------------------
(* RwPages::RwPages.                                                       *)

Construct(t, o, q) ==
  /\ At(t, "idle") /\ claim[o].phase = "none"
  /\ claim' = [claim EXCEPT ![o] = [NoClaim EXCEPT !.phase = "ctor",
                  !.page = q.page, !.off = q.off, !.size = q.size]]
  /\ op' = [op EXCEPT ![t] = [pc |-> "find", obj |-> o, at |-> 0, tries |-> 0]]
  /\ UNCHANGED <<frame, node, head, outcome, raced, orphans>>

(* _memregionIsMapped, for a whole slice.                                  *)
FirstUnmapped(c, p) == frame[p] = Free
Unmapped(c, p) == \A s \in p .. p + Pages(c) - 1 : frame[s] = Free

(* _memregionFindRandom: a random slice inside the region and outside the  *)
(* alias and heap regions is looked up in the kernel's table first ...     *)
Candidates(c) ==
  {p \in Slots : p + Pages(c) <= RwPagesMax /\ (p .. p + Pages(c) - 1) \cap Avoid = {}}

FindUnmapped(t, p) ==
  /\ At(t, "find") /\ op[t].tries < MaxTries
  /\ p \in Candidates(Mine(t))
  /\ IF Unmapped(Mine(t), p)
     THEN /\ claim' = [claim EXCEPT ![op[t].obj].rw = p]
          /\ Goto(t, "reserved")
     ELSE /\ op' = [op EXCEPT ![t].tries = @ + 1]
          /\ UNCHANGED claim
  /\ UNCHANGED <<frame, node, head, outcome, raced, orphans>>

(* ... and then in the reservations.                                       *)
FindUnreserved(t) ==
  /\ At(t, "reserved")
  /\ IF \E n \in Walk : \E p \in Slice(Mine(t)) : node[n].start <= p /\ p < node[n].stop
     THEN op' = [op EXCEPT ![t].pc = "find", ![t].tries = @ + 1]
     ELSE Goto(t, "add")
  /\ UNCHANGED <<frame, node, head, claim, outcome, raced, orphans>>

(* NULL: too large a request, or no slice in so many attempts.  The ctor   *)
(* asserts it away.                                                        *)
FindFails(t) ==
  /\ At(t, "find")
  /\ Pages(Mine(t)) > RwPagesMax \/ op[t].tries = MaxTries
  /\ outcome' = "noSlice"
  /\ UNCHANGED <<frame, node, head, claim, op, raced, orphans>>

(* virtmemAddReservation: the node is filled in, ...                       *)
NewNodeLong(c) == [used |-> TRUE, next |-> head, prev |-> Null,
                   start |-> c.rw, stop |-> c.rw + Pages(c) + 1]
NewNode(c) == [used |-> TRUE, next |-> head, prev |-> Null,
               start |-> c.rw, stop |-> c.rw + Pages(c)]

AddNode(t, n) ==
  /\ At(t, "add") /\ ~node[n].used
  /\ node' = [node EXCEPT ![n] = NewNode(Mine(t))]
  /\ claim' = [claim EXCEPT ![op[t].obj].rv = n]
  /\ Goto(t, "push")
  /\ UNCHANGED <<frame, head, outcome, raced, orphans>>

(* malloc gives nothing, which the ctor asserts away.                      *)
AddFails(t) ==
  /\ At(t, "add")
  /\ outcome' = "noNode"
  /\ UNCHANGED <<frame, node, head, claim, op, raced, orphans>>

(* ... becomes the head, ...                                               *)
Push(t) ==
  /\ At(t, "push")
  /\ head' = Mine(t).rv
  /\ Goto(t, "back")
  /\ UNCHANGED <<frame, node, claim, outcome, raced, orphans>>

(* ... and the old head is linked back to it.                              *)
NotLinkedBack(n) == node
LinkedBack(n) == IF node[n].next = Null THEN node
                 ELSE [node EXCEPT ![node[n].next].prev = n]

LinkBack(t) ==
  /\ At(t, "back")
  /\ node' = LinkedBack(Mine(t).rv)
  /\ Goto(t, "map")
  /\ UNCHANGED <<frame, head, claim, outcome, raced, orphans>>

(* One round of ForEachMemRange in the ctor; R_ABORT_UNLESS on refusal.    *)
MapRange(t) ==
  /\ At(t, "map")
  /\ LET c == Mine(t)
         stop == RangeStop(c, op[t].at)
         slots == c.rw + op[t].at .. c.rw + stop - 1
     IN IF \A p \in slots : frame[p] = Free
        THEN /\ frame' = [p \in Slots |-> IF p \in slots THEN c.page + (p - c.rw) ELSE frame[p]]
             /\ op' = [op EXCEPT ![t].at = stop,
                         ![t].pc = IF stop = Pages(c) THEN "check" ELSE "map"]
             /\ UNCHANGED outcome
        ELSE outcome' = "mapRefused" /\ UNCHANGED <<frame, op>>
  /\ UNCHANGED <<node, head, claim, raced, orphans>>

(* memcmp of the claimed bytes on both sides, asserted to be equal; pages  *)
(* with another content differ, pages that show nothing fault.             *)
Compare(t) ==
  /\ At(t, "check")
  /\ LET c == Mine(t) IN
       IF \A k \in 0 .. Touched(c) - 1 : c.rw + k \in Slots /\ Shows(c, k)
       THEN /\ claim' = [claim EXCEPT ![op[t].obj].phase = "live"]
            /\ Return(t)
            /\ UNCHANGED outcome
       ELSE outcome' = "compareFailed" /\ UNCHANGED <<claim, op>>
  /\ UNCHANGED <<frame, node, head, raced, orphans>>

-----------------------------------------------------------------------------
(* RwPages::~RwPages and the move operations.                              *)

(* The reservation of a claim, if it is not empty.                         *)
Reserved(c) == {c.rv} \ {Null}

UndoUnlinksFirst == "unlink"
UndoFrom == "unmap"

Destroy(t, o) ==
  /\ At(t, "idle") /\ claim[o].phase = "live"
  /\ IF claim[o].owner
     THEN /\ claim' = [claim EXCEPT ![o].phase = "dtor"]
          /\ op' = [op EXCEPT ![t] = [pc |-> UndoFrom, obj |-> o, at |-> 0, tries |-> 0]]
          /\ UNCHANGED orphans
     ELSE /\ claim' = [claim EXCEPT ![o] = NoClaim]
          /\ orphans' = orphans \cup Reserved(claim[o])
          /\ UNCHANGED op
  /\ UNCHANGED <<frame, node, head, outcome, raced>>

(* One round of ForEachMemRange in the dtor; R_ABORT_UNLESS on refusal.    *)
(* There is a round for an empty claim, too: no page, which is refused.    *)
UnmapRange(t) ==
  /\ At(t, "unmap")
  /\ LET c == Mine(t)
         stop == RangeStop(c, op[t].at)
         slots == c.rw + op[t].at .. c.rw + stop - 1
     IN IF slots # {} /\ \A p \in slots : frame[p] = c.page + (p - c.rw)
        THEN /\ frame' = [p \in Slots |-> IF p \in slots THEN Free ELSE frame[p]]
             /\ op' = [op EXCEPT ![t].at = stop,
                         ![t].pc = IF stop = Pages(c) THEN "unlink" ELSE "unmap"]
             /\ UNCHANGED outcome
        ELSE outcome' = "unmapRefused" /\ UNCHANGED <<frame, op>>
  /\ UNCHANGED <<node, head, claim, raced, orphans>>

(* virtmemRemoveReservation: the successor first, ...                      *)
UnlinkNext(t) ==
  /\ At(t, "unlink")
  /\ LET rv == node[Mine(t).rv] IN
       node' = IF rv.next = Null THEN node ELSE [node EXCEPT ![rv.next].prev = rv.prev]
  /\ Goto(t, "free")
  /\ UNCHANGED <<frame, head, claim, outcome, raced, orphans>>

(* ... then the predecessor or the head, and free.                         *)
UnlinkPrev(t) ==
  /\ At(t, "free")
  /\ LET n == Mine(t).rv
         rv == node[n]
     IN /\ node' = IF rv.prev = Null THEN [node EXCEPT ![n] = NoNode]
                   ELSE [node EXCEPT ![rv.prev].next = rv.next, ![n] = NoNode]
        /\ head' = IF rv.prev = Null THEN rv.next ELSE head
  /\ claim' = [claim EXCEPT ![op[t].obj] = NoClaim]
  /\ Return(t)
  /\ UNCHANGED <<frame, outcome, raced, orphans>>

(* RwPages(RwPages&&): the claim and its ownership change hands.  What is  *)
(* moved from has an empty claim that it does not own, and may be moved    *)
(* from again.                                                             *)
Emptied == [NoClaim EXCEPT !.phase = "live", !.owner = FALSE]
CopiedClaims(o, p) == [claim EXCEPT ![p] = claim[o]]
MovedClaims(o, p) == [claim EXCEPT ![p] = claim[o], ![o] = Emptied]

MoveConstruct(t, o, p) ==
  /\ At(t, "idle") /\ o # p
  /\ claim[o].phase = "live" /\ claim[p].phase = "none"
  /\ claim' = MovedClaims(o, p)
  /\ UNCHANGED <<frame, node, head, op, outcome, raced, orphans>>

(* operator=(RwPages&&): the claim changes hands, empty or not, m_Owner of *)
(* the target stays what it was, and what the target held is forgotten.    *)
(* An object assigned to itself keeps its claim, and owns it no more.      *)
AssignedClaims(o, p) == [claim EXCEPT ![p] = [claim[o] EXCEPT !.owner = claim[p].owner], ![o] = Emptied]

MoveAssign(t, o, p) ==
  /\ At(t, "idle")
  /\ claim[o].phase = "live" /\ claim[p].phase = "live"
  /\ IF o = p
     THEN claim' = [claim EXCEPT ![o].owner = FALSE] /\ UNCHANGED orphans
     ELSE claim' = AssignedClaims(o, p) /\ orphans' = orphans \cup Reserved(claim[p])
  /\ UNCHANGED <<frame, node, head, op, outcome, raced>>

-----------------------------------------------------------------------------
(* The game's own use of the address space.                                *)

Hunting(t) == op[t].pc \in {"reserved", "add", "push", "back", "map"}

GameMaps(p) ==
  /\ outcome = "none" /\ frame[p] = Free
  /\ frame' = [frame EXCEPT ![p] = Game]
  /\ raced' = (raced \/ \E t \in Threads : Hunting(t) /\ p \in Slice(Mine(t)))
  /\ UNCHANGED <<node, head, claim, op, outcome, orphans>>

GameUnmaps(p) ==
  /\ outcome = "none" /\ frame[p] = Game
  /\ frame' = [frame EXCEPT ![p] = Free]
  /\ UNCHANGED <<node, head, claim, op, outcome, raced, orphans>>

Aborted == outcome # "none" /\ UNCHANGED vars

Step(t) ==
  \/ \E p \in Slots : FindUnmapped(t, p)
  \/ FindUnreserved(t) \/ FindFails(t)
  \/ AddFails(t) \/ \E n \in Nodes : AddNode(t, n)
  \/ Push(t) \/ LinkBack(t) \/ MapRange(t) \/ Compare(t)
  \/ UnmapRange(t) \/ UnlinkNext(t) \/ UnlinkPrev(t)

Next ==
  \/ \E t \in Threads :
       \/ \E o \in Objs, q \in Requests : Construct(t, o, q)
       \/ \E o \in Objs : Destroy(t, o)
       \/ \E o, p \in Objs : MoveConstruct(t, o, p) \/ MoveAssign(t, o, p)
       \/ Step(t)
  \/ \E p \in Slots : GameMaps(p) \/ GameUnmaps(p)
  \/ Aborted

Spec == Init /\ [][Next]_vars

(* A thread inside a constructor or destructor runs on.                    *)
FairSpec == Spec /\ \A t \in Threads : WF_vars(Step(t))

-----------------------------------------------------------------------------
(* Properties.                                                             *)

PCs == {"idle", "find", "reserved", "add", "push", "back", "map", "check",
        "unmap", "unlink", "free"}

TypeOK ==
  /\ frame \in [Slots -> Showing]
  /\ node \in [Nodes -> [used: BOOLEAN, next: Nodes \cup {Null}, prev: Nodes \cup {Null},
                         start: Nat, stop: Nat]]
  /\ head \in Nodes \cup {Null}
  /\ claim \in [Objs -> [phase: {"none", "ctor", "live", "dtor"}, page: Nat,
                         off: Nat, size: Nat, rw: Nat,
                         rv: Nodes \cup {Null}, owner: BOOLEAN]]
  /\ op \in [Threads -> [pc: PCs, obj: Objs \cup {Null}, at: Nat, tries: Nat]]
  /\ outcome \in {"none", "noSlice", "noNode", "mapRefused", "compareFailed", "unmapRefused"}
  /\ raced \in BOOLEAN
  /\ orphans \subseteq Nodes

(* Through all of a claim's life, whatever other claims and the game do to *)
(* the address space, each page it mapped shows its code page.             *)
AliasExact ==
  \A o \in Objs : claim[o].phase = "live" =>
    \A k \in 0 .. Pages(claim[o]) - 1 : claim[o].rw + k \in Slots /\ Shows(claim[o], k)

(* What AliasExact rests on: which object holds page p of the region, the  *)
(* parts of half-done maps and unmaps included.                            *)
Holds(o, p) ==
  /\ claim[o].rw <= p /\ p < claim[o].rw + Pages(claim[o])
  /\ \/ claim[o].phase = "live"
     \/ \E t \in Threads : /\ op[t].obj = o
                           /\ \/ op[t].pc = "map" /\ p < claim[o].rw + op[t].at
                              \/ op[t].pc = "check"
                              \/ op[t].pc = "unmap" /\ claim[o].rw + op[t].at <= p

(* One thread at a time constructs or destroys an object ...               *)
OneOperation ==
  /\ \A t \in Threads : op[t].pc # "idle" =>
       /\ op[t].obj \in Objs /\ Mine(t).owner
       /\ Mine(t).phase = IF op[t].pc \in {"unmap", "unlink", "free"} THEN "dtor" ELSE "ctor"
       /\ op[t].pc \in {"find", "reserved", "add", "push", "back"} => op[t].at = 0
       /\ op[t].pc \in {"map", "unmap"} => op[t].at = 0 \/ op[t].at < Pages(Mine(t))
       /\ op[t].pc \notin {"find", "reserved", "add", "unmap"} => Mine(t).rv \in Nodes
       /\ op[t].pc # "unmap" => ~IsEmpty(Mine(t))
  /\ \A t, u \in Threads : op[t].pc # "idle" /\ op[u].pc # "idle" /\ t # u
                           => op[t].obj # op[u].obj

(* ... a claim lies inside the code and, once found, inside the region ... *)
InBounds ==
  /\ \A o \in Objs : claim[o].phase # "none" =>
       /\ claim[o].page < RoPages /\ claim[o].page + Pages(claim[o]) <= RoPages
       /\ claim[o].phase # "ctor" => claim[o].rw + Pages(claim[o]) <= RwPagesMax
  /\ \A o \in Objs : IF IsEmpty(claim[o]) THEN claim[o].rv = Null
                     ELSE claim[o].phase \in {"live", "dtor"} => claim[o].rv \in Nodes
  /\ \A t \in Threads : op[t].pc \notin {"idle", "find"} =>
       Mine(t).rw + Pages(Mine(t)) <= RwPagesMax

(* ... and the pages it holds are its own and show its code.               *)
HoldsExact ==
  /\ \A o \in Objs : \A p \in Slots : Holds(o, p) => frame[p] = claim[o].page + (p - claim[o].rw)
  /\ \A o, x \in Objs : \A p \in Slots : Holds(o, p) /\ Holds(x, p) => o = x

AliasInv == OneOperation /\ InBounds /\ HoldsExact

(* RwPages keeps all of it without a lock, and the types: whatever threads *)
(* construct, move and destroy at once, a page is held by one object, and  *)
(* shows that object's code.                                               *)
AliasSound == TypeOK /\ AliasInv

(* The holder of each page and the objects that do not own what they hold, *)
(* as in AliasMap.                                                         *)
Holder ==
  [p \in Slots |-> LET holders == {o \in Objs : Holds(o, p)}
                   IN  IF holders = {} THEN Null ELSE CHOOSE o \in holders : TRUE]

Shells == {o \in Objs : claim[o].phase = "live" /\ ~claim[o].owner}

Aliases == INSTANCE AliasMap WITH holder <- Holder, shell <- Shells, None <- Null

(* RwPages implements AliasMap: a round of ForEachMemRange maps what       *)
(* nothing shows or unmaps what its object holds, an object holds what it  *)
(* mapped until it unmaps it or is moved from, and only what a move        *)
(* assignment overwrites, or what a non-owner held to its end, is left     *)
(* with no holder.                                                         *)
ImplementsAliasMap == Aliases!Spec

(* A page that shows code lies in a reservation that somebody still holds: *)
(* no destructor leaves an alias behind, or frees a reservation too early. *)
AliasReserved ==
  \A p \in Slots : frame[p] \in 0..RoPages-1 =>
    \E n \in Nodes : node[n].used /\ node[n].start <= p /\ p < node[n].stop

(* Two reservations never overlap.                                         *)
ReservationsDisjoint ==
  \A m, n \in Nodes : m # n /\ node[m].used /\ node[n].used =>
    node[m].stop <= node[n].start \/ node[n].stop <= node[m].start

(* Each reservation is in exactly one object's claim, unless a move        *)
(* assignment or the end of a non-owner orphaned it.                       *)
ReservationsOwned ==
  \A n \in Nodes :
    LET holders == {o \in Objs : claim[o].rv = n}
    IN  IF node[n].used /\ n \notin orphans THEN Cardinality(holders) = 1 ELSE holders = {}

(* Outside the list operations the reservations are one doubly linked list *)
(* from g_Reservations, with no node lost and none freed still in it.      *)
Linking(t) == op[t].pc \in {"push", "back", "unlink", "free"}

ListWellFormed ==
  (\A t \in Threads : ~Linking(t)) =>
    /\ Walk = {n \in Nodes : node[n].used}
    /\ head # Null => node[head].prev = Null
    /\ \A n \in {m \in Nodes : node[m].used} :
         /\ node[n].next # Null => node[node[n].next].prev = n
         /\ node[n].prev # Null => node[node[n].prev].next = n

(* With one thread at work virtmem's list and the claims agree after each  *)
(* step of each constructor, move and destructor: who reserved what, what  *)
(* lies in it and how the nodes are linked.                                *)
VirtmemSound ==
  /\ TypeOK
  /\ AliasReserved
  /\ ReservationsDisjoint
  /\ ReservationsOwned
  /\ ListWellFormed

(* With one thread at work a constructor fails in the kernel only because  *)
(* the game took the slice since it was found, and the comparison fails    *)
(* only for a request whose offset carries it over a page end.             *)
AbortsExplained ==
  /\ outcome = "mapRefused" => raced
  /\ outcome = "compareFailed" => \E t \in Threads : op[t].pc = "check" /\ Straddles(Mine(t))

(* A destructor never finds another mapping than the one its object made.  *)
(* The kernel refuses only what a target of an assignment asks that came   *)
(* from an object moved from: an empty claim, owned all the same.          *)
UnmapNeverRefused ==
  outcome = "unmapRefused" => \E t \in Threads : op[t].pc = "unmap" /\ IsEmpty(Mine(t))

(* A constructor or destructor ends, or the process aborts.                *)
OperationEnds ==
  \A t \in Threads : op[t].pc # "idle" ~> (op[t].pc = "idle" \/ outcome # "none")

(* "Ensure the data at the different mapping is the same" (RwPages::RwPages*)
(* asserts it of every request).                                           *)
ComparisonHolds == outcome # "compareFailed"

(* "The virtual memory manager mutex must be held during the find-and-map  *)
(* process" (virtmem.h), so that no two claims find the same slice.        *)
FindAndMapExclusive ==
  \A t, u \in Threads : Hunting(t) /\ Hunting(u) => t = u

=============================================================================
