---------------------------- MODULE ActorBrowser ----------------------------
(***************************************************************************)
(* The list of the game's actors, pe/DbgGui/Windows/ActorBrowser.cpp: two  *)
(* hooks add an actor that was constructed and forget all of them when one *)
(* was destroyed; the window walks the list by index.                      *)
(*                                                                         *)
(* One thread of the game makes and destroys actors.                       *)
(***************************************************************************)
EXTENDS Integers, Sequences, SequencesExt

CONSTANTS
  Actors,   \* the actors there may be
  ActorMax  \* the capacity of sActorList

ASSUME BrowserAssumption == ActorMax \in Nat

VARIABLES
  hooked,    \* how far the constructor of ActorBrowser is
  alive,     \* the actors there are, in the order of their construction
  listed,    \* sActorList
  acting,    \* what the game's thread is doing, and with which actor
  browse,    \* the drawing thread's walk
  unsettled  \* an actor was destroyed, or being destroyed, since the walk began

browserVars == <<hooked, alive, listed, acting, browse, unsettled>>

Still   == [pc |-> "out", actor |-> "none"]
Resting == [pc |-> "out", at |-> 0, actor |-> "none", bad |-> FALSE]

BrowserInit ==
  /\ hooked = "no" /\ alive = {} /\ listed = <<>> /\ acting = Still
  /\ browse = Resting /\ unsettled = FALSE

-----------------------------------------------------------------------------
(* ActorBrowser::ActorBrowser: both hooks, then the list's buffer.         *)
InstallHooks ==
  /\ hooked = "no" /\ hooked' = "live"
  /\ UNCHANGED <<alive, listed, acting, browse, unsettled>>

AllocBuffer ==
  /\ hooked = "live" /\ hooked' = "ready"
  /\ UNCHANGED <<alive, listed, acting, browse, unsettled>>

Capacity == IF hooked = "ready" THEN ActorMax ELSE 0

-----------------------------------------------------------------------------
(* The constructor and the destructor, hooked or not when they are called. *)
Construct(a) ==
  /\ acting = Still /\ a \notin alive
  /\ alive' = alive \cup {a}
  /\ acting' = IF hooked = "no" THEN Still ELSE [pc |-> "push", actor |-> a]
  /\ UNCHANGED <<hooked, listed, browse, unsettled>>

PushActor ==
  /\ acting.pc = "push" /\ acting' = Still
  /\ IF Len(listed) < Capacity
     THEN listed' = Append(listed, acting.actor)
     ELSE UNCHANGED listed
  /\ UNCHANGED <<hooked, alive, browse, unsettled>>

Destroy(a) ==
  /\ acting = Still /\ a \in alive
  /\ alive' = alive \ {a}
  /\ unsettled' = TRUE
  /\ acting' = IF hooked = "no" THEN Still ELSE [pc |-> "clear", actor |-> a]
  /\ UNCHANGED <<hooked, listed, browse>>

ClearListLast == listed' = IF listed = <<>> THEN listed ELSE Front(listed)
ClearList == listed' = <<>>

Clear ==
  /\ acting.pc = "clear" /\ acting' = Still
  /\ ClearList
  /\ UNCHANGED <<hooked, alive, browse, unsettled>>

-----------------------------------------------------------------------------
(* ActorBrowser::draw: the size is read anew in each turn.                 *)
BeginBrowse ==
  /\ browse.pc = "out"
  /\ browse' = [Resting EXCEPT !.pc = "take", !.at = 1]
  /\ unsettled' = (acting.pc = "clear")
  /\ UNCHANGED <<hooked, alive, listed, acting>>

TakeActor ==
  /\ browse.pc = "take"
  /\ browse' = IF browse.at <= Len(listed) THEN [browse EXCEPT !.pc = "show", !.actor = listed[browse.at]]
               ELSE Resting
  /\ UNCHANGED <<hooked, alive, listed, acting, unsettled>>

ShowActor ==
  /\ browse.pc = "show"
  /\ browse' = [browse EXCEPT !.pc = "take", !.at = @ + 1, !.bad = @ \/ browse.actor \notin alive]
  /\ UNCHANGED <<hooked, alive, listed, acting, unsettled>>

BrowseStep == TakeActor \/ ShowActor

-----------------------------------------------------------------------------
(* Outside a destructor's callback the list has living actors only, each   *)
(* once, and a walk touches a destroyed actor only if the destructor and   *)
(* it ran side by side.                                                    *)
ActorsListed ==
  /\ Len(listed) <= ActorMax /\ IsInjective(listed)
  /\ acting.pc # "clear" => ToSet(listed) \subseteq alive
  /\ browse.bad => unsettled
=============================================================================
