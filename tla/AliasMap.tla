------------------------------ MODULE AliasMap -------------------------------
(***************************************************************************)
(* What lib/util/sys/rw_pages promises of the address space, without the   *)
(* reservations, the threads and the places of their operations.  Each     *)
(* page shows nothing, the game's memory or a page of code, and each alias *)
(* has at most one holder, an RwPages object.  Only what nothing shows is  *)
(* mapped, only a holder that owns them unmaps, and a move hands over all  *)
(* of an object's aliases at once and leaves it a shell, which owns        *)
(* nothing but may come to hold aliases again.  RwPages implements it.     *)
(***************************************************************************)
EXTENDS Naturals

CONSTANTS
  Objs,        \* RwPages objects
  RoPages,     \* code pages are 0..RoPages-1
  RwPagesMax,  \* pages of the address space are 0..RwPagesMax-1
  Free, Game,  \* what a page shows that is unmapped, or the game's
  None         \* the holder of a page that is no object's

VARIABLES
  frame,       \* what each page shows
  holder,      \* the object whose alias it is
  shell        \* the objects that were moved from and own nothing any more

Slots == 0..RwPagesMax-1

Init ==
  /\ frame = [p \in Slots |-> Free]
  /\ holder = [p \in Slots |-> None]
  /\ shell = {}

(* An object's constructor maps n pages of code from c on at s.            *)
Map(s, c, n) ==
  LET S == s .. s + n - 1 IN
    /\ \A p \in S : frame[p] = Free
    /\ frame' = [p \in Slots |-> IF p \in S THEN c + (p - s) ELSE frame[p]]
    /\ \E o \in Objs \ shell :
         holder' = [p \in Slots |-> IF p \in S THEN o ELSE holder[p]]
    /\ UNCHANGED shell

(* An object's destructor unmaps n pages of code at s, all its own.        *)
Unmap(s, n) ==
  LET S == s .. s + n - 1 IN
    /\ \A p \in S : frame[p] \in 0..RoPages-1
    /\ frame' = [p \in Slots |-> IF p \in S THEN Free ELSE frame[p]]
    /\ \E o \in Objs \ shell : \A p \in S : holder[p] = o
    /\ holder' = [p \in Slots |-> IF p \in S THEN None ELSE holder[p]]
    /\ UNCHANGED shell

(* A move from o to q, which may be o itself: what q held is nobody's from *)
(* now on.  An assignment to a shell does not make it an owner.            *)
Passes(o, q) ==
  holder' = [p \in Slots |-> IF holder[p] = o THEN q ELSE IF holder[p] = q THEN None ELSE holder[p]]

Hand(o, q) ==
  /\ UNCHANGED frame
  /\ shell' = shell \cup {o}
  /\ Passes(o, q)

(* A shell moves to a new object, or is destroyed: what it held is left.   *)
ShellMoves(o, q) ==
  /\ UNCHANGED frame
  /\ shell' = shell \cup {q}
  /\ o \in shell /\ \A p \in Slots : holder[p] # q
  /\ Passes(o, q)

ShellEnds(o) ==
  /\ UNCHANGED frame
  /\ o \in shell
  /\ shell' = shell \ {o}
  /\ holder' = [p \in Slots |-> IF holder[p] = o THEN None ELSE holder[p]]

(* The game maps what is free and unmaps what is its own.                  *)
GameTurns(p, from, to) ==
  /\ frame[p] = from
  /\ frame' = [frame EXCEPT ![p] = to]
  /\ UNCHANGED <<holder, shell>>

Next ==
  \/ \E s \in Slots : \E n \in 1 .. RwPagesMax - s :
       Unmap(s, n) \/ \E c \in 0 .. RoPages - n : Map(s, c, n)
  \/ \E o, q \in Objs : Hand(o, q) \/ ShellMoves(o, q)
  \/ \E o \in Objs : ShellEnds(o)
  \/ \E p \in Slots : GameTurns(p, Free, Game) \/ GameTurns(p, Game, Free)

Spec == Init /\ [][Next]_<<frame, holder, shell>>

=============================================================================
